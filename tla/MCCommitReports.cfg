SPECIFICATION Spec
CONSTANTS
  a = a
  b = b
  r = r
  Packages <- MCPackages
  Obsolete <- MCObsolete
  Configs <- MCConfigs
  Width = 8
  MaxRetries = 1
INVARIANTS
  TypeOK
  TrustNeedsConsent
  RequestKeepsRpmOut
  FailuresReported
  BarShowsStep
CHECK_DEADLOCK FALSE
