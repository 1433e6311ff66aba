------------------------ MODULE SolverRequestProofs ------------------------
(***************************************************************************)
(* Proofs about SolverRequest: its types, that what is installed is        *)
(* respected, every argument is answered, and patches for the update stack *)
(* go first, for any pool, any arguments and any options.                  *)
(***************************************************************************)
EXTENDS SolverRequest, FiniteSetTheorems, WellFoundedInduction, TLAPS

\* The setting of one command, and the issues it still looks at.
Setting == pool \in Pools /\ line \in Lines /\ issues \subseteq Issues

-----------------------------------------------------------------------------
(* What is installed is respected                                          *)

\* What InstalledRespected says of a request.
EditionsKept(j) ==
  \/ line.force \/ line.oldpackage
  \/ /\ \A m \in j.toinst :
          m[1] \in Packages /\ IsInstalled(m[1]) => m[2].ed >= Installed(m[1]).ed
     /\ \A r \in j.requires :
          r.op = "EQ" /\ r.of \in Packages /\ IsInstalled(r.of) => r.ed >= Installed(r.of).ed

ForeignVendor(m) ==
  m[1] \in Packages /\ IsInstalled(m[1]) /\ m[2].vendor # Installed(m[1]).vendor

Constrained(n) == \E g \in given : ~g.dont /\ n \in g.spec.names /\ UserConstraints(g.spec)

VendorsKept(j) ==
  \A m \in j.toinst : ForeignVendor(m) => line.force \/ line.allowVendor \/ Constrained(m[1])

LocksKept(j) ==
  /\ \A m \in j.toinst : HasLocks(m[1]) => line.force
  /\ \A m \in j.toremove : ~HasLocks(m[1])

Respects(j) == EditionsKept(j) /\ VendorsKept(j) /\ LocksKept(j)

\* The argument at hand is among those handled, and so are the names it matches.
AtHand ==
  pc = "match" => /\ [spec |-> spec, dont |-> FALSE] \in given
                  /\ matches \subseteq spec.names

\* Two requests that respect the system do so together.
LEMMA AndRespects ==
  ASSUME NEW j, NEW k, Respects(j), Respects(k)
  PROVE  Respects(And(j, k))
BY DEF Respects, EditionsKept, VendorsKept, LocksKept, And

\* Any number of them do.
LEMMA AllRespect ==
  ASSUME NEW js, \A j \in js : Respects(j)
  PROVE  Respects(All(js))
<1>1. EditionsKept(All(js))
  BY DEF Respects, EditionsKept, All
<1>2. VendorsKept(All(js))
  BY DEF Respects, VendorsKept, All
<1>3. LocksKept(All(js))
  BY DEF Respects, LocksKept, All
<1>4. QED
  BY <1>1, <1>2, <1>3 DEF Respects

\* A request without marks and without jobs of the requester's own making respects
\* everything: feedback, and jobs with the user's words.
LEMMA TalkRespects ==
  ASSUME NEW j, j.toinst = {}, j.toremove = {}, \A r \in j.requires : r.op # "EQ"
  PROVE  Respects(j)
BY DEF Respects, EditionsKept, VendorsKept, LocksKept

\* Feedback alone respects everything.
LEMMA FeedbackRespects ==
  /\ Respects(Nothing)
  /\ \A ids, s : Respects(Args(ids, s))
  /\ \A ids, n : Respects(Names(ids, n))
<1>1. Respects(Nothing)
  BY TalkRespects DEF Nothing
<1>2. ASSUME NEW ids, NEW s
      PROVE  Respects(Args(ids, s))
  BY TalkRespects DEF Args, Nothing
<1>3. ASSUME NEW ids, NEW n
      PROVE  Respects(Names(ids, n))
  BY TalkRespects DEF Names, Nothing
<1>4. QED
  BY <1>1, <1>2, <1>3

\* What setToInstall needs of the item; a patch, or a package that is not installed, needs
\* nothing.
Fitting(n, i) ==
  n \in Packages /\ IsInstalled(n) =>
    /\ line.force \/ line.oldpackage \/ i.ed >= Installed(n).ed
    /\ i.vendor # Installed(n).vendor => line.force \/ line.allowVendor \/ Constrained(n)

\* A fitting item may be selected; a lock turns the mark into a job.
LEMMA InstallRespects ==
  ASSUME NEW n, NEW i, Fitting(n, i)
  PROVE  Respects(SetToInstall(n, i))
<1>1. ASSUME HasLocks(n) => line.force
      PROVE  Respects([Nothing EXCEPT !.toinst = {<<n, i>>}])
  BY <1>1 DEF Respects, EditionsKept, VendorsKept, LocksKept, ForeignVendor, Fitting, Nothing
<1>2. Respects([Nothing EXCEPT !.requires = {Exactly(n, i)}])
  BY DEF Respects, EditionsKept, VendorsKept, LocksKept, Fitting, Nothing, Exactly
<1>3. CASE line.force
  BY <1>1, <1>3, AndRespects, FeedbackRespects DEF SetToInstall
<1>4. CASE ~line.force /\ HasLocks(n)
  BY <1>2, <1>4, AndRespects, FeedbackRespects DEF SetToInstall
<1>5. CASE ~line.force /\ ~HasLocks(n)
  BY <1>1, <1>5, AndRespects, FeedbackRespects DEF SetToInstall
<1>6. QED
  BY <1>3, <1>4, <1>5

\* The removal of a locked item becomes a job.
LEMMA RemoveRespects ==
  ASSUME NEW n, NEW i
  PROVE  Respects(SetToRemove(n, i))
<1>1. ASSUME ~HasLocks(n)
      PROVE  Respects([Nothing EXCEPT !.toremove = {<<n, i>>}])
  BY <1>1 DEF Respects, EditionsKept, VendorsKept, LocksKept, Nothing
<1>2. Respects([Nothing EXCEPT !.conflicts = {Exactly(n, i)}])
  BY TalkRespects DEF Nothing
<1>3. QED
  BY <1>1, <1>2, AndRespects, FeedbackRespects DEF SetToRemove

\* Jobs for capabilities.
LEMMA CapsRespect ==
  ASSUME NEW s
  PROVE  Respects(CapJob(s)) /\ Respects(TryingCaps(s)) /\ Respects(RemoveByCap(s))
<1>1. Respects(AddRequirement(s))
  <2>1. Respects([Nothing EXCEPT !.requires = {AsGiven(s)}])
    BY TalkRespects DEF Nothing, AsGiven
  <2>2. QED
    BY <2>1, AndRespects, FeedbackRespects DEF AddRequirement
<1>2. Respects(AddConflict(s))
  <2>1. Respects([Nothing EXCEPT !.conflicts = {AsGiven(s)}])
    BY TalkRespects DEF Nothing
  <2>2. QED
    BY <2>1, AndRespects, FeedbackRespects DEF AddConflict
<1>3. Respects(TryingCaps(s))
  BY FeedbackRespects DEF TryingCaps
<1>4. Respects(CapJob(s))
  BY <1>1, FeedbackRespects DEF CapJob
<1>5. Respects(ConflictJob(s))
  BY <1>2, FeedbackRespects DEF ConflictJob
<1>6. Respects(RemoveByCap(s))
  BY <1>3, <1>5, AndRespects DEF RemoveByCap
<1>7. QED
  BY <1>3, <1>4, <1>6

\* remove respects editions, vendors and locks of what is installed.
LEMMA RemoveJobRespects ==
  ASSUME NEW s
  PROVE  Respects(RemoveJob(s))
<1>1. Respects(All(Removals(s)))
  BY AllRespect, RemoveRespects DEF Removals
<1>2. Respects(And(Args({"NOT_INSTALLED"}, s), IF line.byName THEN Nothing ELSE RemoveByCap(s)))
  BY AndRespects, FeedbackRespects, CapsRespect
<1>3. QED
  BY <1>1, <1>2, FeedbackRespects, CapsRespect DEF RemoveJob

\* So does the request for a patch.
LEMMA PatchRespects ==
  ASSUME Setting, NEW p \in Patches, NEW v, NEW pass, NEW command
  PROVE  Respects(InstallPatch(p, v, pass, command))
<1>1. Fitting(p, v)
  BY RequestAssumption DEF Fitting
<1>2. QED
  BY <1>1, InstallRespects, FeedbackRespects DEF InstallPatch

\* Packages of the pool.
LEMMA PackageTypes ==
  ASSUME Setting, NEW n \in Packages
  PROVE  /\ pool.packages[n] \in Selectable
         /\ Items(n) \subseteq Item
         /\ IsInstalled(n) => Installed(n) \in Item
         /\ IsInstalled(n) /\ pool.packages[n].candidate # NoItem
              => pool.packages[n].candidate.vendor = Installed(n).vendor
BY RequestAssumption DEF Setting, Selectable, Items, Installed, IsInstalled

\* The best items of a name are items of it.
LEMMA BestAreItems ==
  ASSUME NEW s, NEW n
  PROVE  BestItems(s, n) \subseteq Items(n)
BY DEF BestItems, Query

\* The item updateTo gets has the installed vendor unless the user asked otherwise.
LEMMA SelectedVendor ==
  ASSUME Setting, NEW n \in Packages, IsInstalled(n), NEW i \in Item, NEW s, ~line.force
  PROVE  /\ Selected(s, n, i) \in Item
         /\ Selected(s, n, i).vendor # Installed(n).vendor
              => line.allowVendor \/ UserConstraints(s)
BY PackageTypes DEF Selected, Selectable

\* So does the update of an installed package.
LEMMA UpdateRespects ==
  ASSUME Setting, NEW n \in Packages, IsInstalled(n), NEW i \in Item, NEW s,
         n \in s.names, [spec |-> s, dont |-> FALSE] \in given
  PROVE  Respects(UpdateTo(s, n, Selected(s, n, i)))
<1> DEFINE sel == Selected(s, n, i)
<1>1. ASSUME Acts(s, n, sel), ~line.bestEffort
      PROVE  Fitting(n, sel)
  <2>1. CASE line.force
    BY <2>1 DEF Fitting
  <2>2. CASE ~line.force
    <3>1. line.oldpackage \/ sel.ed >= Installed(n).ed
      BY <1>1, <2>2, SelectedVendor, PackageTypes DEF Acts, Wanted, Item
    <3>2. UserConstraints(s) => Constrained(n)
      BY DEF Constrained
    <3>3. QED
      BY <2>2, <3>1, <3>2, SelectedVendor DEF Fitting
  <2>3. QED
    BY <2>1, <2>2
<1>2. Respects([Nothing EXCEPT !.requires = {NewerThan(n, Installed(n))}])
  BY TalkRespects DEF Nothing, NewerThan
<1>3. Respects(UpdateJob(s, n, sel))
  BY <1>1, <1>2, InstallRespects, AndRespects, FeedbackRespects DEF UpdateJob
<1>4. QED
  BY <1>3, AndRespects, FeedbackRespects DEF UpdateTo

\* The system does not change under a command, and arguments are only added.
LEMMA RespectLasts ==
  ASSUME NEW j, Respects(j), UNCHANGED <<pool, line>>, given \subseteq given', sr' = j
  PROVE  Respects(sr)'
<1>1. \A n : /\ Installed(n)' = Installed(n) /\ IsInstalled(n)' = IsInstalled(n)
             /\ HasLocks(n)' = HasLocks(n)
  BY DEF Installed, IsInstalled, HasLocks, Items, Versions
<1>2. \A s : UserConstraints(s)' = UserConstraints(s)
  BY DEF UserConstraints
<1>3. \A n : Constrained(n) => Constrained(n)'
  BY <1>2 DEF Constrained
<1>4. EditionsKept(sr)'
  BY <1>1 DEF Respects, EditionsKept
<1>5. VendorsKept(sr)'
  BY <1>1, <1>3 DEF Respects, VendorsKept, ForeignVendor
<1>6. LocksKept(sr)'
  BY <1>1 DEF Respects, LocksKept
<1>7. QED
  BY <1>4, <1>5, <1>6 DEF Respects

\* Pool and command line stay what they are; issues are only ticked off.
LEMMA SettingStays == Setting /\ [Next]_vars => Setting' /\ UNCHANGED <<pool, line>>
BY RequestAssumption DEF Setting, CommandLine, Next, vars, args, loop, codes, runtime, StartCommand, RejectCommand, Arguments, Parse, BadArgument, Parsed,
  NextBatch, Install, InstallByName, InstallNameUnknown, InstallByCap, MatchPatch, MatchOrphan,
  MatchInstalled, MatchNew, MatchNotInstalled, MatchesDone, Remove, PatchCommands,
  CheckUpdateStack, CheckOtherPatches, MarkByIssue, IssuesDone, HandleFeedback

\* That holds in every behaviour.
LEMMA SettingHolds == Spec => []Setting
<1>1. Init => Setting
  BY DEF Init, Setting
<1>2. QED
  BY <1>1, SettingStays, PTL DEF Spec

\* Steps that leave the request and the arguments handled alone.
Neutral ==
  \/ StartCommand \/ RejectCommand \/ Arguments \/ IssuesDone \/ HandleFeedback

\* Steps that request nothing.
LEMMA NeutralSteps ==
  ASSUME Neutral
  PROVE  /\ sr' = sr /\ given' = given /\ spec' = spec /\ matches' = matches /\ hit' = hit
         /\ pc # "match" /\ pc' # "match"
BY DEF Neutral, StartCommand, RejectCommand, Arguments, Parse, BadArgument, Parsed, NextBatch,
  IssuesDone, HandleFeedback, Fail, loop

\* AtHand is inductive.
LEMMA AtHandStep == AtHand /\ [Next]_vars => AtHand'
<1> SUFFICES ASSUME AtHand, [Next]_vars
             PROVE  AtHand'
  OBVIOUS
<1>1. CASE Neutral
  BY <1>1, NeutralSteps DEF AtHand
<1>2. ASSUME NEW s \in dos, InstallByName(s)
      PROVE  AtHand'
  BY <1>2 DEF AtHand, InstallByName, TakeArgument, Matched, MatchedPackages, MatchedPatches
<1>3. ASSUME NEW s \in dos, InstallNameUnknown(s) \/ InstallByCap(s)
      PROVE  AtHand'
  BY <1>3 DEF AtHand, InstallNameUnknown, InstallByCap, TakeArgument
<1>4. ASSUME NEW n \in matches,
             MatchPatch(n) \/ MatchInstalled(n) \/ MatchNew(n) \/ MatchNotInstalled(n)
      PROVE  AtHand'
  <2>1. pc = "match" /\ matches' \subseteq matches /\ spec' = spec /\ given' = given
    BY <1>4 DEF MatchPatch, MatchInstalled, MatchNew, MatchNotInstalled, TakeMatch
  <2>2. QED
    BY <2>1 DEF AtHand
<1>5. ASSUME NEW n \in matches, MatchOrphan(n)
      PROVE  AtHand'
  BY <1>5 DEF AtHand, MatchOrphan
<1>6. CASE MatchesDone
  BY <1>6 DEF AtHand, MatchesDone
<1>7. ASSUME NEW s \in donts, Remove(s)
      PROVE  AtHand'
  BY <1>7 DEF AtHand, Remove
<1>8. CASE CheckUpdateStack \/ CheckOtherPatches \/ \E i \in issues : MarkByIssue(i)
  BY <1>8 DEF AtHand, CheckUpdateStack, CheckOtherPatches, MarkByIssue, args, loop
<1>9. CASE UNCHANGED vars
  BY <1>9 DEF AtHand, vars, loop
<1>10. QED
  BY <1>1, <1>2, <1>3, <1>4, <1>5, <1>6, <1>7, <1>8, <1>9
  DEF Next, Neutral, Install, PatchCommands

\* The versions mark_updates_by_issue looks at.
NeededOf(p) ==
  { <<p, Versions(p)[v]>> : v \in { w \in 1..Len(Versions(p)) : Versions(p)[w].status = "broken" } }
NeededFor(i) == UNION { NeededOf(p) : p \in FixedBy[i] }

\* One action after the other, InstalledRespected is kept.
LEMMA RespectsStep ==
  Setting /\ AtHand /\ Respects(sr) /\ [Next]_vars => Respects(sr)'
<1> SUFFICES ASSUME Setting, AtHand, Respects(sr), [Next]_vars
             PROVE  Respects(sr)'
  OBVIOUS
<1>0. UNCHANGED <<pool, line>>
  BY SettingStays
<1>1. ASSUME NEW j, Respects(j), sr' = And(sr, j), given \subseteq given'
      PROVE  Respects(sr)'
  BY <1>0, <1>1, AndRespects, RespectLasts
<1>2. ASSUME sr' = sr, given \subseteq given'
      PROVE  Respects(sr)'
  BY <1>0, <1>2, RespectLasts
<1>3. CASE Neutral
  BY <1>2, <1>3, NeutralSteps
<1>4. ASSUME NEW s \in dos, InstallByName(s) \/ InstallNameUnknown(s) \/ InstallByCap(s)
      PROVE  Respects(sr)'
  <2>1. given \subseteq given'
    BY <1>4 DEF InstallByName, InstallNameUnknown, InstallByCap, TakeArgument
  <2>2. CASE InstallByName(s)
    BY <1>2, <2>1, <2>2 DEF InstallByName
  <2>3. CASE InstallNameUnknown(s)
    BY <1>1, <2>1, <2>3, FeedbackRespects DEF InstallNameUnknown
  <2>4. CASE InstallByCap(s)
    BY <1>1, <2>1, <2>4, CapsRespect, AndRespects DEF InstallByCap
  <2>5. QED
    BY <1>4, <2>2, <2>3, <2>4
<1>5. ASSUME NEW n \in matches, MatchPatch(n)
      PROVE  Respects(sr)'
  BY <1>1, <1>5, PatchRespects DEF MatchPatch
<1>6. ASSUME NEW n \in matches, MatchOrphan(n)
      PROVE  Respects(sr)'
  BY <1>1, <1>6, FeedbackRespects DEF MatchOrphan
<1>7. ASSUME NEW n \in matches, MatchInstalled(n)
      PROVE  Respects(sr)'
  <2>1. PICK i \in BestItems(spec, n) : sr' = And(sr, UpdateTo(spec, n, Selected(spec, n, i)))
    BY <1>7 DEF MatchInstalled
  <2>2. n \in Packages /\ IsInstalled(n) /\ pc = "match"
    BY <1>7 DEF MatchInstalled, TakeMatch
  <2>3. i \in Item
    BY <2>2, BestAreItems, PackageTypes
  <2>4. n \in spec.names /\ [spec |-> spec, dont |-> FALSE] \in given
    BY <2>2 DEF AtHand
  <2>5. given' = given
    BY <1>7 DEF MatchInstalled
  <2>6. QED
    BY <1>1, <2>1, <2>2, <2>3, <2>4, <2>5, UpdateRespects
<1>8. ASSUME NEW n \in matches, MatchNew(n)
      PROVE  Respects(sr)'
  <2>1. \A i : Fitting(n, i)
    BY <1>8 DEF MatchNew, Fitting
  <2>2. QED
    BY <1>1, <1>8, <2>1, InstallRespects DEF MatchNew
<1>9. ASSUME NEW n \in matches, MatchNotInstalled(n)
      PROVE  Respects(sr)'
  BY <1>2, <1>9 DEF MatchNotInstalled
<1>10. CASE MatchesDone
  BY <1>1, <1>2, <1>10, FeedbackRespects DEF MatchesDone
<1>11. ASSUME NEW s \in donts, Remove(s)
      PROVE  Respects(sr)'
  BY <1>1, <1>11, RemoveJobRespects DEF Remove
<1>12. ASSUME NEW pass
       PROVE  Respects(Pass(pass))
  BY AllRespect, PatchRespects DEF Pass
<1>13. CASE CheckUpdateStack
  BY <1>1, <1>12, <1>13 DEF CheckUpdateStack
<1>14. CASE CheckOtherPatches
  BY <1>1, <1>12, <1>14 DEF CheckOtherPatches
<1>15. ASSUME NEW i \in issues, MarkByIssue(i)
       PROVE  Respects(sr)'
  <2>1. PICK broken : /\ \A b \in broken : b[1] \in Patches
                      /\ sr' = And(sr, All({ InstallPatch(b[1], b[2], TRUE, "none") : b \in broken }))
    <3>1. FixedBy[i] \subseteq Patches
      BY <1>15, RequestAssumption DEF Setting
    <3>2. \A p \in FixedBy[i] : \A b \in NeededOf(p) : b[1] \in Patches
      BY <3>1 DEF NeededOf
    <3>3. \A b \in NeededFor(i) : b[1] \in Patches
      BY <3>2 DEF NeededFor
    <3>4. sr' = And(sr, All({ InstallPatch(b[1], b[2], TRUE, "none") : b \in NeededFor(i) }))
      BY <1>15 DEF MarkByIssue, NeededOf, NeededFor
    <3>5. QED
      BY <3>3, <3>4
  <2>2. Respects(All({ InstallPatch(b[1], b[2], TRUE, "none") : b \in broken }))
    BY <2>1, AllRespect, PatchRespects
  <2>3. QED
    BY <1>1, <1>15, <2>1, <2>2 DEF MarkByIssue
<1>16. CASE UNCHANGED vars
  BY <1>2, <1>16 DEF vars
<1>17. QED
  BY <1>3, <1>4, <1>5, <1>6, <1>7, <1>8, <1>9, <1>10, <1>11, <1>13, <1>14, <1>15, <1>16
  DEF Next, Neutral, Install, PatchCommands

\* No combination of options, editions, vendors, priorities and locks makes the requester
\* select an older item, another vendor or lift a lock, unless that was asked for
\* (SolverRequester::updateTo, setToInstall, setToRemove).
THEOREM SystemIsRespected == Spec => []InstalledRespected
<1>1. Init => AtHand /\ Respects(sr)
  BY TalkRespects DEF Init, AtHand, Nothing
<1>2. Respects(sr) => InstalledRespected
  BY DEF Respects, EditionsKept, VendorsKept, LocksKept, ForeignVendor, Constrained,
     InstalledRespected, NoDowngrade, VendorKept, LocksStay
<1>3. QED
  BY <1>1, <1>2, SettingHolds, AtHandStep, RespectsStep, PTL DEF Spec

-----------------------------------------------------------------------------
(* Every argument is answered                                              *)

\* Feedback that mentions an argument or one of its names, and feedback that it is unknown.
Tells(j, s) == \E f \in j.feedback : f.arg = s \/ f.name \in s.names
Denies(j) == \E f \in j.feedback : f.id \in {"NOT_FOUND_NAME", "NOT_FOUND_CAP"}

\* What one of two requests tells, both together tell.
LEMMA AndTells ==
  ASSUME NEW j, NEW k, NEW s
  PROVE  /\ Tells(j, s) \/ Tells(k, s) => Tells(And(j, k), s)
         /\ Denies(j) \/ Denies(k) => Denies(And(j, k))
BY DEF Tells, Denies, And

\* Feedback for an argument answers it.
LEMMA ArgsTell ==
  ASSUME NEW ids, NEW s, ids # {}
  PROVE  /\ Tells(Args(ids, s), s)
         /\ ids \cap {"NOT_FOUND_NAME", "NOT_FOUND_CAP"} # {} => Denies(Args(ids, s))
<1>1. \A id \in ids : [id |-> id, arg |-> s, name |-> ""] \in Args(ids, s).feedback
  BY DEF Args, Nothing
<1>2. Tells(Args(ids, s), s)
  BY <1>1 DEF Tells
<1>3. ids \cap {"NOT_FOUND_NAME", "NOT_FOUND_CAP"} # {} => Denies(Args(ids, s))
  BY <1>1 DEF Denies
<1>4. QED
  BY <1>2, <1>3

\* Feedback for a name answers the arguments that match it.
LEMMA NamesTell ==
  ASSUME NEW ids, NEW s, NEW n \in s.names, ids # {}
  PROVE  Tells(Names(ids, n), s)
<1>1. \A id \in ids : [id |-> id, arg |-> NoSpec, name |-> n] \in Names(ids, n).feedback
  BY DEF Names, Nothing
<1>2. QED
  BY <1>1 DEF Tells

\* Whoever selects or removes an item says so.
LEMMA MarksTell ==
  ASSUME NEW s, NEW n \in s.names, NEW i
  PROVE  Tells(SetToInstall(n, i), s) /\ Tells(SetToRemove(n, i), s)
<1>1. /\ Tells(Names({"FORCED_INSTALL"}, n), s)
      /\ Tells(Names({"SET_TO_INSTALL", "INSTALLED_LOCKED"}, n), s)
      /\ Tells(Names({"SET_TO_INSTALL"}, n), s)
      /\ Tells(Names({"SET_TO_REMOVE", "INSTALLED_LOCKED"}, n), s)
      /\ Tells(Names({"SET_TO_REMOVE"}, n), s)
  BY NamesTell
<1>2. QED
  BY <1>1, AndTells DEF SetToInstall, SetToRemove

\* install --capability or after no name matched.
LEMMA CapsTell ==
  ASSUME NEW s
  PROVE  /\ line.cmd = "install" => Tells(CapJob(s), s)
         /\ Providers(s) = {} => Denies(CapJob(s)) /\ Denies(RemoveByCap(s))
         /\ Tells(RemoveByCap(s), s)
<1>1. Tells(Args({"NOT_FOUND_CAP"}, s), s) /\ Denies(Args({"NOT_FOUND_CAP"}, s))
  BY ArgsTell
<1>2. Tells(Args({"ALREADY_INSTALLED"}, s), s) /\ Tells(Args({"NO_INSTALLED_PROVIDER"}, s), s)
  BY ArgsTell
<1>3. Tells(AddRequirement(s), s) /\ Tells(AddConflict(s), s)
  BY ArgsTell, AndTells DEF AddRequirement, AddConflict
<1>4. line.cmd = "install" => Tells(CapJob(s), s)
  BY <1>1, <1>2, <1>3 DEF CapJob
<1>5. Tells(ConflictJob(s), s)
  BY <1>1, <1>2, <1>3 DEF ConflictJob
<1>6. Providers(s) = {} => Denies(CapJob(s)) /\ Denies(ConflictJob(s))
  BY <1>1 DEF CapJob, ConflictJob
<1>7. QED
  BY <1>4, <1>5, <1>6, AndTells DEF RemoveByCap

\* remove says something about each of its arguments.
LEMMA RemoveTells ==
  ASSUME NEW s
  PROVE  /\ Tells(RemoveJob(s), s)
         /\ ~Known([spec |-> s, dont |-> TRUE]) => Denies(RemoveJob(s))
<1>1. Removals(s) # {} => Tells(All(Removals(s)), s)
  <2>1. ASSUME NEW j \in Removals(s)
        PROVE  Tells(j, s) /\ (Tells(j, s) => Tells(All(Removals(s)), s))
    <3>1. Tells(j, s)
      BY MarksTell DEF Removals, MatchedPackages
    <3>2. QED
      BY <3>1 DEF Tells, All
  <2>2. QED
    BY <2>1
<1>2. /\ Tells(Args({"NOT_INSTALLED"}, s), s)
      /\ Tells(Args({"NOT_FOUND_NAME"}, s), s) /\ Denies(Args({"NOT_FOUND_NAME"}, s))
  BY ArgsTell
<1>3. Tells(RemoveJob(s), s)
  BY <1>1, <1>2, CapsTell, AndTells DEF RemoveJob
<1>4. ASSUME ~Known([spec |-> s, dont |-> TRUE])
      PROVE  Denies(RemoveJob(s))
  BY <1>2, <1>4, CapsTell DEF RemoveJob, Known
<1>5. QED
  BY <1>3, <1>4

\* A patch named on the command line is answered.
LEMMA PatchTells ==
  ASSUME NEW s, NEW p \in s.names, NEW v
  PROVE  Tells(InstallPatch(p, v, TRUE, "install"), s)
<1>1. \A id : Tells(Names({id}, p), s)
  BY NamesTell
<1>2. QED
  BY <1>1, MarksTell DEF InstallPatch, Due

\* What install does not act upon, it explains.
LEMMA UpdateTells ==
  ASSUME Setting, line.cmd = "install", NEW s, NEW n \in s.names \cap Packages,
         IsInstalled(n), NEW sel, sel \in Item \/ line.force
  PROVE  Tells(UpdateTo(s, n, sel), s)
<1>1. CASE Acts(s, n, sel)
  <2>1. Tells(Names({"ADDED_REQUIREMENT"}, n), s)
    BY NamesTell
  <2>2. Tells(UpdateJob(s, n, sel), s)
    BY <1>1, <2>1, MarksTell, AndTells DEF UpdateJob
  <2>3. QED
    BY <2>2, AndTells DEF UpdateTo
<1>2. CASE ~Acts(s, n, sel)
  <2>1. CASE line.force
    BY <1>2, <2>1 DEF Acts, Wanted
  <2>2. CASE ~line.force
    <3>1. sel.ed \in Nat /\ Installed(n).ed \in Nat
      BY <2>2, PackageTypes DEF Item
    <3>2. Stays(s, n, sel) \/ (IsOlder(s, n, sel) /\ ~line.oldpackage)
      BY <1>2, <2>2, <3>1 DEF Acts, Wanted, Stays, IsOlder, Identical
    <3>3. UpdateFeedback(s, n, sel) # {}
      BY <2>2, <3>2 DEF UpdateFeedback, IsOlder
    <3>4. QED
      BY <3>3, ArgsTell, AndTells DEF UpdateTo
  <2>3. QED
    BY <2>1, <2>2
<1>3. QED
  BY <1>1, <1>2

-----------------------------------------------------------------------------
\* What is said stays said, and what is handled stays handled.
LEMMA Growth ==
  ASSUME [Next]_vars
  PROVE  sr.feedback \subseteq sr'.feedback /\ given \subseteq given'
<1>1. ASSUME NEW j, sr' = And(sr, j)
      PROVE  sr.feedback \subseteq sr'.feedback
  BY <1>1 DEF And
<1>2. CASE Neutral
  BY <1>2, NeutralSteps
<1>3. ASSUME NEW s \in dos, InstallByName(s) \/ InstallNameUnknown(s) \/ InstallByCap(s)
      PROVE  sr.feedback \subseteq sr'.feedback /\ given \subseteq given'
  BY <1>1, <1>3 DEF InstallByName, InstallNameUnknown, InstallByCap, TakeArgument
<1>4. ASSUME NEW n \in matches,
             MatchPatch(n) \/ MatchOrphan(n) \/ MatchInstalled(n) \/ MatchNew(n) \/ MatchNotInstalled(n)
      PROVE  sr.feedback \subseteq sr'.feedback /\ given \subseteq given'
  <2>1. given' = given
    BY <1>4 DEF MatchPatch, MatchOrphan, MatchInstalled, MatchNew, MatchNotInstalled
  <2>2. sr' = sr \/ \E j : sr' = And(sr, j)
    <3>1. CASE MatchPatch(n)
      BY <3>1 DEF MatchPatch
    <3>2. CASE MatchOrphan(n)
      BY <3>2 DEF MatchOrphan
    <3>3. CASE MatchInstalled(n)
      BY <3>3 DEF MatchInstalled
    <3>4. CASE MatchNew(n)
      BY <3>4 DEF MatchNew
    <3>5. CASE MatchNotInstalled(n)
      BY <3>5 DEF MatchNotInstalled
    <3>6. QED
      BY <1>4, <3>1, <3>2, <3>3, <3>4, <3>5
  <2>3. QED
    BY <1>1, <2>1, <2>2
<1>5. CASE MatchesDone
  BY <1>1, <1>5 DEF MatchesDone
<1>6. ASSUME NEW s \in donts, Remove(s)
      PROVE  sr.feedback \subseteq sr'.feedback /\ given \subseteq given'
  BY <1>1, <1>6 DEF Remove
<1>7. CASE CheckUpdateStack \/ CheckOtherPatches
  BY <1>1, <1>7 DEF CheckUpdateStack, CheckOtherPatches
<1>8. ASSUME NEW i \in issues, MarkByIssue(i)
      PROVE  sr.feedback \subseteq sr'.feedback /\ given \subseteq given'
  BY <1>1, <1>8 DEF MarkByIssue
<1>9. CASE UNCHANGED vars
  BY <1>9 DEF vars
<1>10. QED
  BY <1>2, <1>3, <1>4, <1>5, <1>6, <1>7, <1>8, <1>9 DEF Next, Neutral, Install, PatchCommands

\* Whether an argument is known depends on the command and the pool.
LEMMA KnownStays ==
  ASSUME UNCHANGED <<pool, line>>
  PROVE  /\ \A g : Known(g)' = Known(g)
         /\ CapNotFound' = (~line.ignoreUnknown /\ Denies(sr)')
<1>1. /\ \A n : Items(n)' = Items(n) /\ Versions(n)' = Versions(n)
      /\ \A s : AskedRepos(s)' = AskedRepos(s) /\ NameOnly(s)' = NameOnly(s)
  BY DEF Items, Versions, AskedRepos, NameOnly
<1>2. \A s, repos : Matched(s, repos)' = Matched(s, repos)
  BY <1>1 DEF Matched, MatchedPackages, MatchedPatches, Query
<1>3. \A s : Providers(s)' = Providers(s)
  BY <1>1 DEF Providers
<1>4. \A g : Known(g)' = Known(g)
  BY <1>1, <1>2, <1>3 DEF Known
<1>5. CapNotFound' = (~line.ignoreUnknown /\ Denies(sr)')
  BY DEF CapNotFound, HasFeedback, Denies
<1>6. QED
  BY <1>4, <1>5

-----------------------------------------------------------------------------
\* The argument whose matches are gone through; its answer may still be to come.
Current == [spec |-> spec, dont |-> FALSE]

Owed(g) == line.cmd = "install" \/ (line.cmd = "remove" /\ g.dont)

AllTold ==
  /\ \A g \in given : Owed(g) => Tells(sr, g.spec) \/ (pc = "match" /\ g = Current)
  /\ pc = "match" /\ hit /\ line.cmd = "install" => Tells(sr, spec)

\* Unknown arguments are in the feedback.
UnknownDenied == \A g \in given : ~Known(g) => Denies(sr)

\* What was answered stays answered.
LEMMA ToldStays ==
  ASSUME [Next]_vars, NEW s, Tells(sr, s)
  PROVE  Tells(sr', s)
BY Growth DEF Tells

\* Each match of an argument is answered.
LEMMA MatchTold ==
  ASSUME Setting, AtHand, AllTold, NEW n \in matches,
         MatchPatch(n) \/ MatchOrphan(n) \/ MatchInstalled(n) \/ MatchNew(n) \/ MatchNotInstalled(n)
  PROVE  AllTold'
<1>1. [Next]_vars
  BY DEF Next, Install
<1>2. /\ pc = "match" /\ pc' = pc /\ spec' = spec /\ given' = given /\ line' = line
  BY DEF MatchPatch, MatchOrphan, MatchInstalled, MatchNew, MatchNotInstalled, TakeMatch
<1>3. n \in spec.names
  BY <1>2 DEF AtHand
<1>4. ASSUME line.cmd = "install"
      PROVE  Tells(sr', spec)
  <2>1. CASE MatchPatch(n)
    <3>1. PICK v : sr' = And(sr, InstallPatch(n, v, TRUE, line.cmd))
      BY <2>1 DEF MatchPatch
    <3>2. Tells(InstallPatch(n, v, TRUE, "install"), spec)
      BY <1>3, PatchTells
    <3>3. Tells(InstallPatch(n, v, TRUE, line.cmd), spec)
      BY <1>4, <3>2
    <3>4. QED
      BY <3>1, <3>3, AndTells
  <2>2. CASE MatchOrphan(n)
    BY <2>2, ArgsTell, AndTells DEF MatchOrphan
  <2>3. CASE MatchInstalled(n)
    <3>1. PICK i \in BestItems(spec, n) : sr' = And(sr, UpdateTo(spec, n, Selected(spec, n, i)))
      BY <2>3 DEF MatchInstalled
    <3>2. n \in Packages /\ IsInstalled(n)
      BY <2>3 DEF MatchInstalled
    <3>3. Selected(spec, n, i) \in Item \/ line.force
      BY <3>2, BestAreItems, PackageTypes, SelectedVendor
    <3>4. Tells(UpdateTo(spec, n, Selected(spec, n, i)), spec)
      BY <1>3, <1>4, <3>2, <3>3, UpdateTells
    <3>5. QED
      BY <3>1, <3>4, AndTells
  <2>4. CASE MatchNew(n)
    BY <1>3, <2>4, MarksTell, AndTells DEF MatchNew
  <2>5. CASE MatchNotInstalled(n)
    BY <1>4, <2>5 DEF MatchNotInstalled
  <2>6. QED
    BY <2>1, <2>2, <2>3, <2>4, <2>5
<1>5. \A g \in given : Tells(sr, g.spec) => Tells(sr', g.spec)
  BY <1>1, ToldStays
<1>6. QED
  BY <1>2, <1>4, <1>5 DEF AllTold, Owed, Current, Tells

\* AllTold is inductive.
LEMMA ToldStep == Setting /\ AtHand /\ AllTold /\ [Next]_vars => AllTold'
<1> SUFFICES ASSUME Setting, AtHand, AllTold, [Next]_vars
             PROVE  AllTold'
  OBVIOUS
<1>0. UNCHANGED <<pool, line>>
  BY SettingStays
<1>1. \A s : Tells(sr, s) => Tells(sr', s)
  BY ToldStays
<1>2. CASE Neutral
  BY <1>0, <1>2, NeutralSteps DEF AllTold, Owed, Tells
<1>3. ASSUME NEW s \in dos, InstallByName(s)
      PROVE  AllTold'
  <2>1. /\ pc = "args" /\ pc' = "match" /\ given' = given \cup {[spec |-> s, dont |-> FALSE]}
        /\ spec' = s /\ hit' = FALSE /\ sr' = sr
    BY <1>3 DEF InstallByName, TakeArgument
  <2>2. QED
    BY <1>0, <2>1 DEF AllTold, Owed, Current, Tells
<1>4. ASSUME NEW s \in dos, InstallNameUnknown(s) \/ InstallByCap(s)
      PROVE  AllTold'
  <2>1. pc = "args" /\ pc' = "args" /\ given' = given \cup {[spec |-> s, dont |-> FALSE]}
    BY <1>4 DEF InstallNameUnknown, InstallByCap, TakeArgument
  <2>2. line.cmd = "install" => Tells(sr', s)
    BY <1>4, ArgsTell, CapsTell, AndTells DEF InstallNameUnknown, InstallByCap
  <2>3. QED
    BY <1>0, <1>1, <2>1, <2>2 DEF AllTold, Owed, Tells
<1>5. ASSUME NEW n \in matches,
             MatchPatch(n) \/ MatchOrphan(n) \/ MatchInstalled(n) \/ MatchNew(n) \/ MatchNotInstalled(n)
      PROVE  AllTold'
  BY <1>5, MatchTold
<1>6. CASE MatchesDone
  <2>1. pc' = "args" /\ given' = given /\ pc = "match"
    BY <1>6 DEF MatchesDone
  <2>2. line.cmd = "install" => Tells(sr', spec)
    BY <1>6, ArgsTell, AndTells DEF MatchesDone, AllTold
  <2>3. QED
    BY <1>0, <1>1, <2>1, <2>2 DEF AllTold, Owed, Current, Tells
<1>7. ASSUME NEW s \in donts, Remove(s)
      PROVE  AllTold'
  <2>1. pc = "args" /\ pc' = "args" /\ given' = given \cup {[spec |-> s, dont |-> TRUE]}
    BY <1>7 DEF Remove
  <2>2. Tells(sr', s)
    BY <1>7, RemoveTells, AndTells DEF Remove
  <2>3. QED
    BY <1>0, <1>1, <2>1, <2>2 DEF AllTold, Owed, Tells
<1>8. CASE CheckUpdateStack \/ CheckOtherPatches \/ \E i \in issues : MarkByIssue(i)
  <2>1. pc # "match" /\ pc' # "match" /\ given' = given
    BY <1>8 DEF CheckUpdateStack, CheckOtherPatches, MarkByIssue
  <2>2. QED
    BY <1>0, <1>1, <2>1 DEF AllTold, Owed, Tells
<1>9. CASE UNCHANGED vars
  BY <1>9 DEF AllTold, Owed, Tells, Current, vars, loop
<1>10. QED
  BY <1>2, <1>3, <1>4, <1>5, <1>6, <1>7, <1>8, <1>9 DEF Next, Neutral, Install, PatchCommands

\* UnknownDenied is inductive.
LEMMA DeniedStep == Setting /\ UnknownDenied /\ [Next]_vars => UnknownDenied'
<1> SUFFICES ASSUME Setting, UnknownDenied, [Next]_vars
             PROVE  UnknownDenied'
  OBVIOUS
<1>0. UNCHANGED <<pool, line>>
  BY SettingStays
<1>1. ASSUME \A g \in given' : g \in given \/ (~Known(g) => Denies(sr'))
      PROVE  UnknownDenied'
  <2>1. Denies(sr) => Denies(sr')
    BY Growth DEF Denies
  <2>2. \A g \in given' : ~Known(g) => Denies(sr')
    BY <1>1, <2>1 DEF UnknownDenied
  <2>3. QED
    BY <1>0, <2>2, KnownStays DEF UnknownDenied, Denies
<1>2. CASE given' = given
  BY <1>1, <1>2
<1>3. ASSUME NEW s \in dos, InstallByName(s) \/ InstallNameUnknown(s) \/ InstallByCap(s)
      PROVE  UnknownDenied'
  <2> DEFINE g == [spec |-> s, dont |-> FALSE]
  <2>1. given' = given \cup {g}
    BY <1>3 DEF InstallByName, InstallNameUnknown, InstallByCap, TakeArgument
  <2>2. CASE InstallByName(s)
    <3>1. Known(g)
      BY <2>2 DEF InstallByName, Known
    <3>2. QED
      BY <1>1, <2>1, <3>1
  <2>3. CASE InstallNameUnknown(s)
    BY <1>1, <2>1, <2>3, ArgsTell, AndTells DEF InstallNameUnknown
  <2>4. CASE InstallByCap(s)
    <3>1. ~Known(g) => Providers(s) = {}
      BY <2>4 DEF InstallByCap, Known
    <3>2. ~Known(g) => Denies(sr')
      BY <2>4, <3>1, CapsTell, AndTells DEF InstallByCap
    <3>3. QED
      BY <1>1, <2>1, <3>2
  <2>5. QED
    BY <1>3, <2>2, <2>3, <2>4
<1>4. ASSUME NEW s \in donts, Remove(s)
      PROVE  UnknownDenied'
  BY <1>1, <1>4, RemoveTells, AndTells DEF Remove
<1>5. given' = given \/ (\E s \in dos : InstallByName(s) \/ InstallNameUnknown(s) \/ InstallByCap(s))
        \/ (\E s \in donts : Remove(s))
  BY NeutralSteps DEF Next, vars, Neutral, Install, PatchCommands, MatchPatch, MatchOrphan,
     MatchInstalled, MatchNew, MatchNotInstalled, MatchesDone, CheckUpdateStack,
     CheckOtherPatches, MarkByIssue
<1>6. QED
  BY <1>2, <1>3, <1>4, <1>5

\* Commands without arguments handle none; whoever goes on to the solver was told.
VerdictKept ==
  /\ pc \in {"start", "stack", "others", "issues"} => given = {}
  /\ pc = "solve" /\ ~line.ignoreUnknown /\ Denies(sr) =>
       \/ given = {}
       \/ /\ line.nonInteractive => line.cmd = "remove"
          /\ exitCode = EXIT_INF_CAP_NOT_FOUND

\* VerdictKept is inductive.
LEMMA VerdictStep == VerdictKept /\ [Next]_vars => VerdictKept'
<1> SUFFICES ASSUME VerdictKept, [Next]_vars
             PROVE  VerdictKept'
  OBVIOUS
<1>1. CASE StartCommand
  BY <1>1 DEF VerdictKept, StartCommand
<1>2. CASE RejectCommand \/ Arguments \/ Install \/ \E s \in donts : Remove(s)
  <2>1. pc' \in {"failed", "parse", "args", "match", "feedback"}
    <3>1. CASE RejectCommand \/ Arguments
      BY <3>1 DEF RejectCommand, Arguments, Parse, BadArgument, Parsed, NextBatch, Fail
    <3>2. CASE Install
      BY <3>2 DEF Install, InstallByName, InstallNameUnknown, InstallByCap, TakeArgument, TakeMatch,
         MatchPatch, MatchOrphan, MatchInstalled, MatchNew, MatchNotInstalled, MatchesDone
    <3>3. CASE \E s \in donts : Remove(s)
      BY <3>3 DEF Remove
    <3>4. QED
      BY <1>2, <3>1, <3>2, <3>3
  <2>2. QED
    BY <2>1 DEF VerdictKept
<1>3. CASE CheckUpdateStack \/ CheckOtherPatches
  BY <1>3 DEF VerdictKept, CheckUpdateStack, CheckOtherPatches
<1>4. CASE (\E i \in issues : MarkByIssue(i)) \/ IssuesDone
  BY <1>4 DEF VerdictKept, MarkByIssue, IssuesDone
<1>5. CASE HandleFeedback
  BY <1>5 DEF VerdictKept, HandleFeedback, CapNotFound, HasFeedback, Denies
<1>6. CASE UNCHANGED vars
  BY <1>6 DEF VerdictKept, Denies, vars, codes
<1>7. QED
  BY <1>1, <1>2, <1>3, <1>4, <1>5, <1>6 DEF Next, PatchCommands

\* Whatever is asked of install and remove is acted upon or reported, and an unknown argument
\* ends an unattended command or its code says so (SolverRequester feedback).
THEOREM ArgumentsAreAnswered == Spec => []ArgumentsAnswered
<1>1. Init => AtHand /\ AllTold /\ UnknownDenied /\ VerdictKept
  BY DEF Init, AtHand, AllTold, UnknownDenied, VerdictKept
<1>2. UnknownDenied /\ VerdictKept => UnknownStops
  BY DEF UnknownDenied, VerdictKept, UnknownStops
<1>3. AllTold => NoSilentArgument
  BY DEF AllTold, Owed, Tells, NoSilentArgument
<1>4. UnknownDenied /\ VerdictKept /\ AllTold => ArgumentsAnswered
  BY <1>2, <1>3 DEF ArgumentsAnswered
<1>5. QED
  BY <1>1, <1>4, SettingHolds, AtHandStep, ToldStep, DeniedStep, VerdictStep, PTL DEF Spec

-----------------------------------------------------------------------------
(* Patches for the update stack go first                                   *)

Marked(j) == { p \in Patches : (\E m \in j.toinst : m[1] = p) \/ (\E r \in j.requires : r.of = p) }

\* A pass over the patches marks those it is to mark.
LEMMA InstallMarks ==
  ASSUME NEW p \in Patches, NEW q \in Patches, NEW v, NEW pass, NEW command
  PROVE  q \in Marked(InstallPatch(p, v, pass, command)) <=> (q = p /\ Marks(v, pass))
<1>1. Marked(Nothing) = {} /\ \A ids, n : Marked(Names(ids, n)) = {}
  BY DEF Marked, Nothing, Names
<1>2. q \in Marked(SetToInstall(p, v)) <=> q = p
  <2>1. \A j, ids : Marked(And(j, Names(ids, p))) = Marked(j)
    BY DEF Marked, And, Names, Nothing
  <2>2. q \in Marked([Nothing EXCEPT !.toinst = {<<p, v>>}]) <=> q = p
    <3> DEFINE j == [Nothing EXCEPT !.toinst = {<<p, v>>}]
    <3>1. j.toinst = {<<p, v>>} /\ j.requires = {} /\ <<p, v>>[1] = p
      BY DEF Nothing
    <3> HIDE DEF j
    <3>2. q \in Marked(j) <=> q = p
      BY <3>1, Zenon DEF Marked
    <3>3. QED
      BY <3>2 DEF j
  <2>3. q \in Marked([Nothing EXCEPT !.requires = {Exactly(p, v)}]) <=> q = p
    <3> DEFINE j == [Nothing EXCEPT !.requires = {Exactly(p, v)}]
    <3>1. j.toinst = {} /\ j.requires = {Exactly(p, v)} /\ Exactly(p, v).of = p
      BY DEF Nothing, Exactly
    <3> HIDE DEF j
    <3>2. q \in Marked(j) <=> q = p
      BY <3>1, Zenon DEF Marked
    <3>3. QED
      BY <3>2 DEF j
  <2>4. QED
    BY <2>1, <2>2, <2>3 DEF SetToInstall
<1>3. QED
  BY <1>1, <1>2 DEF InstallPatch

\* A pass over the patches marks those it is for.
LEMMA PassMarks ==
  ASSUME NEW pass
  PROVE  Marked(Pass(pass)) = { p \in Patches : Marks(Candidate(p), pass) }
<1> DEFINE job(p) == InstallPatch(p, Candidate(p), pass, "none")
<1>1. \A q \in Patches : q \in Marked(Pass(pass)) <=> \E p \in Patches : q \in Marked(job(p))
  BY DEF Marked, Pass, All
<1>2. \A p, q \in Patches : q \in Marked(job(p)) <=> (q = p /\ Marks(Candidate(p), pass))
  BY InstallMarks
<1> HIDE DEF job
<1>3. \A q \in Patches : q \in Marked(Pass(pass)) <=> Marks(Candidate(q), pass)
  BY <1>1, <1>2
<1>4. Marked(Pass(pass)) \subseteq Patches
  BY DEF Marked
<1>5. QED
  BY <1>3, <1>4

StackPatches == { p \in Patches : Candidate(p).stack }

\* What StackFirst says of a set of marked patches.
Ordered(marked, with) ==
  /\ marked \cap StackPatches # {} => marked \subseteq StackPatches /\ ~with
  /\ (\E p \in StackPatches : Marks(Candidate(p), TRUE)) /\ marked # {}
       => marked \cap StackPatches # {}
  /\ line.stackOnly => marked \subseteq StackPatches

\* The second pass comes only if the first one marked nothing.
PassesKept ==
  /\ pc \in {"start", "stack", "others"} => Marked(sr) = {}
  /\ pc = "others" => ~AnyMarked(FALSE) /\ ~line.stackOnly
  /\ pc \in {"parse", "args", "match"} => ~NoWords
  /\ pc = "feedback" /\ NoWords => Ordered(Marked(sr), withUpdate)

\* The patches two requests mark together.
LEMMA AndMarks ==
  ASSUME NEW j, NEW k
  PROVE  Marked(And(j, k)) = Marked(j) \cup Marked(k)
BY DEF Marked, And

\* Requests that add no mark and no job mark no patch.
LEMMA PatchesStay ==
  ASSUME UNCHANGED <<pool, line>>
  PROVE  /\ \A p : Candidate(p)' = Candidate(p)
         /\ \A v, pass : Marks(v, pass)' = Marks(v, pass)
         /\ StackPatches' = StackPatches /\ NoWords' = NoWords
         /\ AnyMarked(FALSE)' = AnyMarked(FALSE)
<1>1. \A p : Candidate(p)' = Candidate(p)
  BY DEF Candidate, Versions
<1>2. \A v, pass : Marks(v, pass)' = Marks(v, pass)
  BY DEF Marks, Due, Rejected, TooInteractive, IgnoredFlags, PassesFilter
<1>3. NoWords' = NoWords
  BY DEF NoWords
<1>4. StackPatches' = StackPatches
  BY <1>1 DEF StackPatches
<1>5. AnyMarked(FALSE)' = AnyMarked(FALSE)
  BY <1>1, <1>2 DEF AnyMarked
<1>6. QED
  BY <1>1, <1>2, <1>3, <1>4, <1>5

\* What is to be shown of a step, with all that stays in terms of the state before it.
LEMMA PassesNext ==
  ASSUME UNCHANGED <<pool, line>>,
         pc' \in {"start", "stack", "others"} => Marked(sr') = {},
         pc' = "others" => ~AnyMarked(FALSE) /\ ~line.stackOnly,
         pc' \in {"parse", "args", "match"} => ~NoWords,
         pc' = "feedback" /\ NoWords => Ordered(Marked(sr'), withUpdate')
  PROVE  PassesKept'
<1>1. Marked(sr)' = Marked(sr')
  BY DEF Marked
<1>2. Ordered(Marked(sr), withUpdate)' = Ordered(Marked(sr'), withUpdate')
  <2>1. \A p : Candidate(p)' = Candidate(p)
    BY PatchesStay
  <2>2. (\E p \in StackPatches : Marks(Candidate(p), TRUE))'
          <=> \E p \in StackPatches : Marks(Candidate(p), TRUE)
    BY PatchesStay
  <2>3. StackPatches' = StackPatches
    BY PatchesStay
  <2>4. QED
    BY <1>1, <2>2, <2>3 DEF Ordered
<1>3. NoWords' = NoWords /\ AnyMarked(FALSE)' = AnyMarked(FALSE)
  BY PatchesStay
<1>4. QED
  BY <1>1, <1>2, <1>3 DEF PassesKept

\* PassesKept is inductive.
LEMMA PassesStep == Setting /\ PassesKept /\ [Next]_vars => PassesKept'
<1> SUFFICES ASSUME Setting, PassesKept, [Next]_vars
             PROVE  PassesKept'
  OBVIOUS
<1>0. UNCHANGED <<pool, line>>
  BY SettingStays
<1>1. CASE StartCommand
  <2>1. Marked(sr') = {}
    BY <1>1 DEF StartCommand, PassesKept
  <2>2. Ordered({}, withUpdate')
    BY DEF Ordered
  <2>3. pc' # "others" /\ (pc' \in {"parse", "args", "match"} => ~NoWords)
    BY <1>1 DEF StartCommand
  <2>4. QED
    BY <1>0, <2>1, <2>2, <2>3, PassesNext
<1>2. CASE RejectCommand
  <2>1. pc' = "failed"
    BY <1>2 DEF RejectCommand, Fail
  <2>2. QED
    BY <1>0, <2>1, PassesNext
<1>3. CASE Arguments \/ Install \/ \E s \in donts : Remove(s)
  <2>1. pc \in {"parse", "args", "match"} /\ pc' \in {"parse", "args", "match", "feedback", "failed"}
    <3>1. CASE Arguments
      BY <3>1 DEF Arguments, Parse, BadArgument, Parsed, NextBatch, Fail
    <3>2. CASE Install
      BY <3>2 DEF Install, InstallByName, InstallNameUnknown, InstallByCap, TakeArgument, TakeMatch,
         MatchPatch, MatchOrphan, MatchInstalled, MatchNew, MatchNotInstalled, MatchesDone
    <3>3. CASE \E s \in donts : Remove(s)
      BY <3>3 DEF Remove
    <3>4. QED
      BY <1>3, <3>1, <3>2, <3>3
  <2>2. ~NoWords
    BY <2>1 DEF PassesKept
  <2>3. QED
    BY <1>0, <2>1, <2>2, PassesNext
<1>4. CASE CheckUpdateStack
  <2> DEFINE first == { p \in Patches : Marks(Candidate(p), FALSE) }
  <2>1. Marked(sr') = first
    BY <1>4, PassMarks, AndMarks DEF CheckUpdateStack, PassesKept
  <2>2. first \subseteq StackPatches
    BY DEF Marks, Due, StackPatches
  <2>3. AnyMarked(FALSE) <=> first # {}
    BY DEF AnyMarked
  <2>4. CASE AnyMarked(FALSE) \/ line.stackOnly
    <3>1. pc' = "feedback" /\ (first # {} => ~withUpdate')
      BY <1>4, <2>3, <2>4 DEF CheckUpdateStack
    <3>2. Ordered(first, withUpdate')
      BY <2>2, <3>1 DEF Ordered
    <3>3. QED
      BY <1>0, <2>1, <3>1, <3>2, PassesNext
  <2>5. CASE ~AnyMarked(FALSE) /\ ~line.stackOnly
    <3>1. pc' = "others" /\ Marked(sr') = {}
      BY <1>4, <2>1, <2>3, <2>5 DEF CheckUpdateStack
    <3>2. QED
      BY <1>0, <2>5, <3>1, PassesNext
  <2>6. QED
    BY <2>4, <2>5
<1>5. CASE CheckOtherPatches
  <2> DEFINE second == { p \in Patches : Marks(Candidate(p), TRUE) }
  <2>1. pc = "others" /\ pc' = "feedback" /\ Marked(sr') = second
    BY <1>5, PassMarks, AndMarks DEF CheckOtherPatches, PassesKept
  <2>2. \A p \in StackPatches : ~Marks(Candidate(p), TRUE)
    BY <2>1 DEF PassesKept, AnyMarked, Marks, Due, StackPatches
  <2>3. second \cap StackPatches = {} /\ ~line.stackOnly
    BY <2>1, <2>2 DEF PassesKept
  <2>4. Ordered(second, withUpdate')
    BY <2>2, <2>3 DEF Ordered
  <2>5. QED
    BY <1>0, <2>1, <2>4, PassesNext
<1>6. CASE (\E i \in issues : MarkByIssue(i)) \/ IssuesDone \/ HandleFeedback
  <2>1. pc' \in {"issues", "solve", "failed"}
    BY <1>6 DEF MarkByIssue, IssuesDone, HandleFeedback
  <2>2. QED
    BY <1>0, <2>1, PassesNext
<1>7. CASE UNCHANGED vars
  <2>1. sr' = sr /\ pc' = pc /\ withUpdate' = withUpdate
    BY <1>7 DEF vars, runtime
  <2>2. QED
    BY <1>0, <2>1, PassesNext DEF PassesKept
<1>8. QED
  BY <1>1, <1>2, <1>3, <1>4, <1>5, <1>6, <1>7 DEF Next, PatchCommands

\* Patches for the update stack are installed first and alone, whatever filters apply to
\* them (SolverRequester::updatePatches).
THEOREM StackGoesFirst == Spec => []StackFirst
<1>1. Init => PassesKept
  BY DEF Init, PassesKept, Marked, Nothing
<1>2. PassesKept => StackFirst
  BY DEF PassesKept, Ordered, Marked, StackPatches, StackFirst, PatchesMarked
<1>3. QED
  BY <1>1, <1>2, SettingHolds, PassesStep, PTL DEF Spec

-----------------------------------------------------------------------------
(* Types                                                                   *)

\* Every set of numbers has a smallest one.
LEMMA Smallest ==
  ASSUME NEW T, T \subseteq Nat, T # {}
  PROVE  \E k \in T : \A l \in T : k <= l
<1> DEFINE R == OpToRel(<, Nat)
<1>1. IsWellFoundedOn(R, Nat)
  BY NatLessThanWellFounded
<1> HIDE DEF R
<1>2. PICK k \in T : \A l \in T : ~(<<l, k>> \in R)
  BY <1>1, WFMin
<1>3. \A l \in T : ~(l < k)
  BY <1>2 DEF R, OpToRel
<1>4. QED
  BY <1>3

\* A finite set of numbers has a largest one: a counterexample of the least size has one
\* element too many.
LEMMA Largest ==
  ASSUME NEW S, IsFiniteSet(S), S # {}, NEW rank, \A x \in S : rank[x] \in Nat
  PROVE  \E x \in S : \A y \in S : rank[y] <= rank[x]
<1> DEFINE HasTop(U) == \E x \in U : \A y \in U : rank[y] <= rank[x]
           Topless == { U \in SUBSET S : U # {} /\ ~HasTop(U) }
           Sizes == { Cardinality(U) : U \in Topless }
<1> SUFFICES ASSUME ~HasTop(S)
             PROVE  FALSE
  OBVIOUS
<1>1. S \in Topless
  OBVIOUS
<1>2. \A U \in Topless : IsFiniteSet(U) /\ Cardinality(U) \in Nat
  BY FS_Subset, FS_CardinalityType
<1>3. Sizes \subseteq Nat /\ Sizes # {}
  BY <1>1, <1>2
<1>4. PICK k \in Sizes : \A l \in Sizes : k <= l
  <2> HIDE DEF Sizes
  <2>1. QED
    BY <1>3, Smallest
<1>5. PICK U \in Topless : Cardinality(U) = k
  OBVIOUS
<1>6. PICK x \in U : TRUE
  OBVIOUS
<1> DEFINE V == U \ {x}
<1>7. IsFiniteSet(V) /\ Cardinality(V) = k - 1 /\ k \in Nat
  BY <1>2, <1>5, <1>6, FS_RemoveElement
<1>8. V \notin Topless
  <2>1. V \in Topless => Cardinality(V) \in Sizes
    OBVIOUS
  <2>2. V \in Topless => k <= Cardinality(V)
    BY <1>4, <2>1
  <2> HIDE DEF V, Topless, Sizes
  <2>3. QED
    BY <1>7, <2>2
<1>9. V = {} \/ HasTop(V)
  BY <1>5, <1>8
<1>10. CASE V = {}
  BY <1>5, <1>6, <1>10
<1>11. CASE HasTop(V)
  <2>1. PICK m \in V : \A y \in V : rank[y] <= rank[m]
    BY <1>11
  <2>2. rank[m] \in Nat /\ rank[x] \in Nat /\ \A y \in V : rank[y] \in Nat
    BY <1>5, <1>6, <2>1
  <2>3. CASE rank[x] <= rank[m]
    BY <1>5, <2>1, <2>3
  <2>4. CASE rank[m] <= rank[x]
    <3>1. \A y \in V : rank[y] <= rank[x]
      BY <2>1, <2>2, <2>4
    <3>2. rank[x] <= rank[x]
      BY <2>2
    <3>3. HasTop(U)
      BY <1>6, <3>1, <3>2
    <3>4. QED
      BY <1>5, <3>3
  <2>5. QED
    BY <2>2, <2>3, <2>4
<1>12. QED
  BY <1>9, <1>10, <1>11

\* What the types say of a request.
Typed(j) ==
  /\ j.toinst \subseteq Mark /\ j.toremove \subseteq Mark
  /\ j.requires \subseteq Job /\ j.conflicts \subseteq Job
  /\ \A f \in j.feedback : f.arg \in Spec_ /\ f.name \in Packages \cup Patches \cup {""}

\* Where the command reads an argument there is one; it starts with the first one.
Reading ==
  /\ pc = "start" => batch = 1 /\ at = 1
  /\ pc = "parse" => batch \in DOMAIN line.words

\* No argument at all is an argument of the type.
LEMMA NoSpecType == NoSpec \in Spec_
<1>1. (CHOOSE c \in Caps : TRUE) \in Caps
  BY RequestAssumption
<1>2. QED
  BY <1>1 DEF NoSpec, Spec_

\* Requests are put together from typed parts, two or all of a set.
LEMMA AndTyped ==
  ASSUME NEW j, NEW k, Typed(j), Typed(k)
  PROVE  Typed(And(j, k))
BY DEF Typed, And

\* The same for all requests of a set.
LEMMA AllTyped ==
  ASSUME NEW js, \A j \in js : Typed(j)
  PROVE  Typed(All(js))
<1>1. \A j \in js : /\ j.toinst \subseteq Mark /\ j.toremove \subseteq Mark
                    /\ j.requires \subseteq Job /\ j.conflicts \subseteq Job
  BY DEF Typed
<1>2. All(js).toinst \subseteq Mark /\ All(js).toremove \subseteq Mark
  BY <1>1 DEF All
<1>3. All(js).requires \subseteq Job /\ All(js).conflicts \subseteq Job
  BY <1>1 DEF All
<1>4. \A f \in All(js).feedback : \E j \in js : f \in j.feedback
  BY DEF All
<1>5. QED
  BY <1>2, <1>3, <1>4 DEF Typed

\* Feedback has no marks and no jobs.
LEMMA FeedbackTyped ==
  /\ Typed(Nothing)
  /\ \A ids, s : s \in Spec_ => Typed(Args(ids, s))
  /\ \A ids, n : n \in Packages \cup Patches => Typed(Names(ids, n))
<1>1. Typed(Nothing)
  BY DEF Typed, Nothing
<1>2. ASSUME NEW ids, NEW s \in Spec_
      PROVE  Typed(Args(ids, s))
  <2> DEFINE said == { [id |-> id, arg |-> s, name |-> ""] : id \in ids }
  <2>1. ASSUME NEW f \in said
        PROVE  f.arg \in Spec_ /\ f.name \in Packages \cup Patches \cup {""}
    <3>1. PICK id \in ids : f = [id |-> id, arg |-> s, name |-> ""]
      OBVIOUS
    <3>2. f.arg = s /\ f.name = ""
      BY <3>1
    <3>3. QED
      BY <3>2, NoSpecType
  <2>2. Args(ids, s) = [Nothing EXCEPT !.feedback = said]
    BY DEF Args
  <2> HIDE DEF said
  <2>3. QED
    BY <2>1, <2>2 DEF Typed, Nothing
<1>3. ASSUME NEW ids, NEW n \in Packages \cup Patches
      PROVE  Typed(Names(ids, n))
  <2> DEFINE said == { [id |-> id, arg |-> NoSpec, name |-> n] : id \in ids }
  <2>1. ASSUME NEW f \in said
        PROVE  f.arg \in Spec_ /\ f.name \in Packages \cup Patches \cup {""}
    <3>1. PICK id \in ids : f = [id |-> id, arg |-> NoSpec, name |-> n]
      OBVIOUS
    <3>2. f.arg = NoSpec /\ f.name = n
      BY <3>1
    <3>3. QED
      BY <3>2, NoSpecType
  <2>2. Names(ids, n) = [Nothing EXCEPT !.feedback = said]
    BY DEF Names
  <2> HIDE DEF said
  <2>3. QED
    BY <2>1, <2>2 DEF Typed, Nothing
<1>4. QED
  BY <1>1, <1>2, <1>3

\* An item of a package or a version of a patch.
Markable(n, i) == (n \in Packages /\ i \in Item) \/ (n \in Patches /\ i \in PatchVersion)

\* Selecting and removing such an item.
LEMMA MarkTyped ==
  ASSUME NEW n, NEW i, Markable(n, i)
  PROVE  Typed(SetToInstall(n, i)) /\ Typed(SetToRemove(n, i))
<1>1. n \in Packages \cup Patches /\ i.ed \in Nat
  BY DEF Markable, Item, PatchVersion
<1>2. Exactly(n, i) \in Job
  BY <1>1 DEF Exactly, Job
<1>3. <<n, i>> \in Mark
  BY DEF Markable, Mark
<1>4. Typed([Nothing EXCEPT !.toinst = {<<n, i>>}])
  BY <1>3 DEF Typed, Nothing
<1>5. Typed([Nothing EXCEPT !.toremove = {<<n, i>>}])
  BY <1>3 DEF Typed, Nothing
<1>6. Typed([Nothing EXCEPT !.requires = {Exactly(n, i)}])
  BY <1>2 DEF Typed, Nothing
<1>7. Typed([Nothing EXCEPT !.conflicts = {Exactly(n, i)}])
  BY <1>2 DEF Typed, Nothing
<1>8. \A ids : Typed(Names(ids, n))
  BY <1>1, FeedbackTyped
<1>9. Typed(SetToInstall(n, i))
  BY <1>4, <1>6, <1>8, AndTyped DEF SetToInstall
<1>10. Typed(SetToRemove(n, i))
  BY <1>5, <1>7, <1>8, AndTyped DEF SetToRemove
<1>11. QED
  BY <1>9, <1>10

\* Jobs for capabilities, and all that remove does for an argument.
LEMMA CapsTyped ==
  ASSUME NEW s \in Spec_
  PROVE  Typed(CapJob(s)) /\ Typed(TryingCaps(s)) /\ Typed(RemoveByCap(s))
<1>1. AsGiven(s) \in Job
  BY DEF AsGiven, Job, Spec_
<1>2. Typed([Nothing EXCEPT !.requires = {AsGiven(s)}])
  BY <1>1 DEF Typed, Nothing
<1>3. Typed([Nothing EXCEPT !.conflicts = {AsGiven(s)}])
  BY <1>1 DEF Typed, Nothing
<1>4. \A ids : Typed(Args(ids, s))
  BY FeedbackTyped
<1>5. Typed(AddRequirement(s)) /\ Typed(AddConflict(s))
  BY <1>2, <1>3, <1>4, AndTyped DEF AddRequirement, AddConflict
<1>6. Typed(CapJob(s))
  BY <1>4, <1>5, FeedbackTyped DEF CapJob
<1>7. Typed(TryingCaps(s))
  BY <1>4, FeedbackTyped DEF TryingCaps
<1>8. Typed(ConflictJob(s))
  BY <1>4, <1>5 DEF ConflictJob
<1>9. QED
  BY <1>6, <1>7, <1>8, AndTyped DEF RemoveByCap

\* What remove does with one argument.
LEMMA RemoveJobTyped ==
  ASSUME Setting, NEW s \in Spec_
  PROVE  Typed(RemoveJob(s))
<1>1. \A n \in Packages : IsInstalled(n) => Typed(SetToRemove(n, Installed(n)))
  BY MarkTyped, PackageTypes DEF Markable
<1>2. \A j \in Removals(s) : Typed(j)
  BY <1>1 DEF Removals, MatchedPackages
<1>3. Typed(All(Removals(s)))
  BY <1>2, AllTyped
<1>4. \A ids : Typed(Args(ids, s))
  BY FeedbackTyped
<1>5. Typed(RemoveByCap(s)) /\ Typed(Nothing)
  BY CapsTyped, FeedbackTyped
<1>6. Typed(And(Args({"NOT_INSTALLED"}, s), IF line.byName THEN Nothing ELSE RemoveByCap(s)))
  BY <1>4, <1>5, AndTyped
<1>7. QED
  BY <1>3, <1>4, <1>5, <1>6 DEF RemoveJob

\* The item an update selects is one of the package's, also with --force.
LEMMA SelectedType ==
  ASSUME Setting, NEW n \in Packages, IsInstalled(n), Available(n) # {}, NEW i \in Item, NEW s
  PROVE  Selected(s, n, i) \in Item
<1>1. /\ Available(n) \subseteq Item /\ IsFiniteSet(Available(n))
  BY PackageTypes, RequestAssumption DEF Setting, Available, Selectable
<1>2. Highest(n) \in Item
  <2> DEFINE rank == [x \in Item |-> x.ed]
  <2>1. \A x \in Available(n) : rank[x] = x.ed /\ rank[x] \in Nat
    BY <1>1 DEF Item
  <2> HIDE DEF rank
  <2>2. \E x \in Available(n) : \A y \in Available(n) : rank[y] <= rank[x]
    BY <1>1, <2>1, Largest
  <2>3. \E x \in Available(n) : \A y \in Available(n) : y.ed <= x.ed
    BY <2>1, <2>2
  <2>4. QED
    BY <1>1, <2>3 DEF Highest
<1>3. QED
  BY <1>2, PackageTypes DEF Selected, Selectable

\* updateTo: a job for something newer, or a mark on the selected item.
LEMMA UpdateTyped ==
  ASSUME Setting, NEW n \in Packages, IsInstalled(n), NEW sel \in Item, NEW s \in Spec_
  PROVE  Typed(UpdateTo(s, n, sel))
<1>1. NewerThan(n, Installed(n)) \in Job
  BY PackageTypes DEF NewerThan, Job, Item
<1>2. Typed([Nothing EXCEPT !.requires = {NewerThan(n, Installed(n))}])
  BY <1>1 DEF Typed, Nothing
<1>3. (\A ids : Typed(Args(ids, s))) /\ (\A ids : Typed(Names(ids, n))) /\ Typed(Nothing)
  BY FeedbackTyped
<1>4. Typed(SetToInstall(n, sel))
  BY MarkTyped DEF Markable
<1>5. Typed(UpdateJob(s, n, sel))
  BY <1>2, <1>3, <1>4, AndTyped DEF UpdateJob
<1>6. QED
  BY <1>3, <1>5, AndTyped DEF UpdateTo

\* Versions of patches.
LEMMA VersionTypes ==
  ASSUME Setting, NEW p \in Patches
  PROVE  /\ Versions(p) \in Seq(PatchVersion) /\ Versions(p) # <<>>
         /\ \A v \in 1..Len(Versions(p)) : Versions(p)[v] \in PatchVersion
         /\ Candidate(p) \in PatchVersion
<1>1. Versions(p) \in Seq(PatchVersion) /\ Versions(p) # <<>>
  BY RequestAssumption DEF Setting, Versions
<1>2. \A v \in 1..Len(Versions(p)) : Versions(p)[v] \in PatchVersion
  BY <1>1
<1>3. 1 \in 1..Len(Versions(p))
  BY <1>1
<1> DEFINE early == { v \in 1..Len(Versions(p)) : ~Versions(p)[v].late }
<1>4. early # {} => (CHOOSE v \in early : \A w \in early : v <= w) \in early
  <2>1. early \subseteq Nat
    OBVIOUS
  <2> HIDE DEF early
  <2>2. QED
    BY <2>1, Smallest
<1>5. early \subseteq 1..Len(Versions(p))
  OBVIOUS
<1>6. Candidate(p) = IF line.dateLimit /\ early # {}
                     THEN Versions(p)[CHOOSE v \in early : \A w \in early : v <= w]
                     ELSE Versions(p)[1]
  BY DEF Candidate
<1> HIDE DEF early
<1>7. QED
  BY <1>1, <1>2, <1>3, <1>4, <1>5, <1>6

\* installPatch, for whichever pass and command.
LEMMA PatchTyped ==
  ASSUME NEW p \in Patches, NEW v \in PatchVersion, NEW pass, NEW command
  PROVE  Typed(InstallPatch(p, v, pass, command))
<1>1. Typed(SetToInstall(p, v))
  BY MarkTyped DEF Markable
<1>2. (\A ids : Typed(Names(ids, p))) /\ Typed(Nothing)
  BY FeedbackTyped
<1>3. QED
  BY <1>1, <1>2 DEF InstallPatch

\* The request is typed in every step.
LEMMA RequestTyped ==
  ASSUME Setting, [Next]_vars, Typed(sr), dos \subseteq Spec_, donts \subseteq Spec_,
         spec \in Spec_, matches \subseteq spec.names
  PROVE  Typed(sr')
<1>1. ASSUME NEW j, Typed(j), sr' = And(sr, j)
      PROVE  Typed(sr')
  BY <1>1, AndTyped
<1>2. CASE sr' = sr
  BY <1>2
<1>3. CASE Neutral
  BY <1>2, <1>3, NeutralSteps
<1>4. ASSUME NEW s \in dos, InstallByName(s) \/ InstallNameUnknown(s) \/ InstallByCap(s)
      PROVE  Typed(sr')
  BY <1>1, <1>2, <1>4, FeedbackTyped, CapsTyped, AndTyped
  DEF InstallByName, InstallNameUnknown, InstallByCap
<1>5. ASSUME NEW n \in matches, MatchPatch(n)
      PROVE  Typed(sr')
  <2>1. PICK v \in BestVersions(spec, n) : sr' = And(sr, InstallPatch(n, v, TRUE, line.cmd))
    BY <1>5 DEF MatchPatch
  <2>2. n \in Patches
    BY <1>5 DEF MatchPatch
  <2>3. v \in PatchVersion
    BY <2>2, VersionTypes DEF BestVersions
  <2>4. QED
    BY <1>1, <2>1, <2>2, <2>3, PatchTyped
<1>6. ASSUME NEW n \in matches, MatchOrphan(n)
      PROVE  Typed(sr')
  BY <1>1, <1>6, FeedbackTyped DEF MatchOrphan
<1>7. ASSUME NEW n \in matches, MatchInstalled(n)
      PROVE  Typed(sr')
  <2>1. PICK i \in BestItems(spec, n) : sr' = And(sr, UpdateTo(spec, n, Selected(spec, n, i)))
    BY <1>7 DEF MatchInstalled
  <2>2. n \in Packages /\ IsInstalled(n) /\ Available(n) # {}
    BY <1>7 DEF MatchInstalled
  <2>3. i \in Item
    BY <2>2, BestAreItems, PackageTypes
  <2>4. Selected(spec, n, i) \in Item
    BY <2>2, <2>3, SelectedType
  <2>5. QED
    BY <1>1, <2>1, <2>2, <2>4, UpdateTyped
<1>8. ASSUME NEW n \in matches, MatchNew(n)
      PROVE  Typed(sr')
  <2>1. PICK i \in BestItems(spec, n) : sr' = And(sr, SetToInstall(n, i))
    BY <1>8 DEF MatchNew
  <2>2. n \in Packages
    BY <1>8 DEF MatchNew
  <2>3. i \in Item
    BY <2>2, BestAreItems, PackageTypes
  <2>4. QED
    BY <1>1, <2>1, <2>2, <2>3, MarkTyped DEF Markable
<1>9. ASSUME NEW n \in matches, MatchNotInstalled(n)
      PROVE  Typed(sr')
  BY <1>2, <1>9 DEF MatchNotInstalled
<1>10. CASE MatchesDone
  BY <1>1, <1>2, <1>10, FeedbackTyped DEF MatchesDone
<1>11. ASSUME NEW s \in donts, Remove(s)
      PROVE  Typed(sr')
  BY <1>1, <1>11, RemoveJobTyped DEF Remove
<1>12. ASSUME NEW pass
       PROVE  Typed(Pass(pass))
  BY AllTyped, PatchTyped, VersionTypes DEF Pass
<1>13. CASE CheckUpdateStack
  BY <1>1, <1>12, <1>13 DEF CheckUpdateStack
<1>14. CASE CheckOtherPatches
  BY <1>1, <1>12, <1>14 DEF CheckOtherPatches
<1>15. ASSUME NEW i \in issues, MarkByIssue(i)
       PROVE  Typed(sr')
  <2>1. FixedBy[i] \subseteq Patches
    BY <1>15, RequestAssumption DEF Setting
  <2>2. \A p \in FixedBy[i] : \A b \in NeededOf(p) : b[1] \in Patches /\ b[2] \in PatchVersion
    BY <2>1, VersionTypes DEF NeededOf
  <2>3. \A b \in NeededFor(i) : b[1] \in Patches /\ b[2] \in PatchVersion
    BY <2>2 DEF NeededFor
  <2>4. sr' = And(sr, All({ InstallPatch(b[1], b[2], TRUE, "none") : b \in NeededFor(i) }))
    BY <1>15 DEF MarkByIssue, NeededOf, NeededFor
  <2>5. Typed(All({ InstallPatch(b[1], b[2], TRUE, "none") : b \in NeededFor(i) }))
    BY <2>3, AllTyped, PatchTyped
  <2>6. QED
    BY <1>1, <2>4, <2>5
<1>16. CASE UNCHANGED vars
  BY <1>2, <1>16 DEF vars
<1>17. QED
  BY <1>3, <1>4, <1>5, <1>6, <1>7, <1>8, <1>9, <1>10, <1>11, <1>13, <1>14, <1>15, <1>16
  DEF Next, Neutral, Install, PatchCommands

\* The arguments, as far as they are parsed, and those gone through.
ArgTypes ==
  /\ dos \subseteq Spec_ /\ donts \subseteq Spec_
  /\ \A d \in dos, e \in donts : d.cap # e.cap
  /\ spec \in Spec_ /\ matches \subseteq spec.names /\ hit \in BOOLEAN
  /\ given \subseteq [spec : Spec_, dont : BOOLEAN]

\* The rest of the state.
ControlTypes ==
  /\ pc \in {"start", "parse", "args", "match", "stack", "others", "issues", "feedback",
             "solve", "failed"}
  /\ batch \in Nat \ {0} /\ at \in Nat \ {0}
  /\ exitCode \in {EXIT_OK, EXIT_ERR_INVALID_ARGS, EXIT_INF_CAP_NOT_FOUND}
  /\ exitInfo \in {EXIT_OK, EXIT_INF_CAP_NOT_FOUND}
  /\ updateOnly \in BOOLEAN /\ withUpdate \in BOOLEAN

\* What is wanted and what is not stay apart when one more argument is filed.
LEMMA StoreTypes ==
  ASSUME NEW s \in Spec_, NEW mine, mine \subseteq Spec_, NEW other, other \subseteq Spec_,
         \A d \in mine, e \in other : d.cap # e.cap
  PROVE  /\ Store(s, mine, other).mine \subseteq Spec_ /\ Store(s, mine, other).other \subseteq Spec_
         /\ \A d \in Store(s, mine, other).mine, e \in Store(s, mine, other).other : d.cap # e.cap
BY DEF Store

\* The word at hand.
LEMMA WordTypes ==
  ASSUME Setting, ControlTypes, Reading, pc = "parse", at <= Len(line.words[batch])
  PROVE  line.words[batch][at] \in Word
<1>1. line.words \in Seq(Seq(Word))
  BY RequestAssumption DEF Setting, CommandLine
<1>2. line.words[batch] \in Seq(Word)
  BY <1>1 DEF Reading
<1>3. at \in 1 .. Len(line.words[batch])
  BY <1>2 DEF ControlTypes
<1>4. QED
  BY <1>2, <1>3

\* What remains when an argument was gone through, and what was handled.
LEMMA TakenTypes ==
  ASSUME ArgTypes, NEW s \in Spec_, NEW b \in BOOLEAN,
         given' = given \cup {[spec |-> s, dont |-> b]},
         dos' \subseteq dos, donts' \subseteq donts,
         spec' \in Spec_, matches' \subseteq spec'.names, hit' \in BOOLEAN
  PROVE  ArgTypes'
<1>1. [spec |-> s, dont |-> b] \in [spec : Spec_, dont : BOOLEAN]
  OBVIOUS
<1> DEFINE one == [spec |-> s, dont |-> b]
<1>2. given' = given \cup {one} /\ one \in [spec : Spec_, dont : BOOLEAN]
  BY <1>1
<1> HIDE DEF one
<1>3. given' \subseteq [spec : Spec_, dont : BOOLEAN]
  BY <1>2 DEF ArgTypes
<1>4. dos' \subseteq Spec_ /\ donts' \subseteq Spec_ /\ \A d \in dos', e \in donts' : d.cap # e.cap
  BY DEF ArgTypes
<1>5. QED
  BY <1>3, <1>4 DEF ArgTypes

\* Each step keeps what is wanted and what is not apart, and goes only through matches of
\* the argument at hand.
LEMMA ArgTypesStep == Setting /\ ControlTypes /\ Reading /\ ArgTypes /\ [Next]_vars => ArgTypes'
<1> SUFFICES ASSUME Setting, ControlTypes, Reading, ArgTypes, [Next]_vars
             PROVE  ArgTypes'
  OBVIOUS
<1> USE DEF ArgTypes
<1>1. CASE StartCommand \/ RejectCommand \/ BadArgument \/ NextBatch
  BY <1>1 DEF StartCommand, RejectCommand, BadArgument, NextBatch, args, loop
<1>2. CASE Parse
  <2> DEFINE w == line.words[batch][at]
  <2>1. w \in Word
    BY <1>2, WordTypes DEF Parse
  <2>2. w.spec \in Spec_
    BY <2>1 DEF Word
  <2>3. /\ spec' = spec /\ matches' = matches /\ hit' = hit /\ given' = given
        /\ \/ /\ dos' = Store(w.spec, donts, dos).other
              /\ donts' = Store(w.spec, donts, dos).mine
           \/ /\ dos' = Store(w.spec, dos, donts).mine
              /\ donts' = Store(w.spec, dos, donts).other
    BY <1>2 DEF Parse, loop
  <2>4. \A d \in donts, e \in dos : d.cap # e.cap
    OBVIOUS
  <2> HIDE DEF w
  <2>5. /\ dos' \subseteq Spec_ /\ donts' \subseteq Spec_
        /\ \A d \in dos', e \in donts' : d.cap # e.cap
    BY <2>2, <2>3, <2>4, StoreTypes
  <2>6. QED
    BY <2>3, <2>5
<1>3. CASE Parsed
  BY <1>3 DEF Parsed, loop
<1>4. ASSUME NEW s \in dos, InstallByName(s)
      PROVE  ArgTypes'
  <2>1. /\ dos' = dos \ {s} /\ donts' = donts /\ given' = given \cup {[spec |-> s, dont |-> FALSE]}
        /\ spec' = s /\ hit' = FALSE /\ matches' = Matched(s, AskedRepos(s))
    BY <1>4 DEF InstallByName, TakeArgument
  <2>2. Matched(s, AskedRepos(s)) \subseteq s.names
    BY DEF Matched, MatchedPackages, MatchedPatches
  <2>3. s \in Spec_ /\ dos' \subseteq dos /\ donts' \subseteq donts /\ FALSE \in BOOLEAN
    BY <2>1
  <2>4. spec' \in Spec_ /\ matches' \subseteq spec'.names /\ hit' \in BOOLEAN
    BY <2>1, <2>2, <2>3
  <2>5. QED
    BY <2>1, <2>3, <2>4, TakenTypes
<1>5. ASSUME NEW s \in dos, InstallNameUnknown(s) \/ InstallByCap(s)
      PROVE  ArgTypes'
  <2>1. /\ dos' = dos \ {s} /\ donts' = donts /\ given' = given \cup {[spec |-> s, dont |-> FALSE]}
        /\ spec' = spec /\ hit' = hit /\ matches' = matches
    BY <1>5 DEF InstallNameUnknown, InstallByCap, TakeArgument, loop
  <2>2. s \in Spec_ /\ dos' \subseteq dos /\ donts' \subseteq donts /\ FALSE \in BOOLEAN
    BY <2>1
  <2>3. spec' \in Spec_ /\ matches' \subseteq spec'.names /\ hit' \in BOOLEAN
    BY <2>1
  <2>4. QED
    BY <2>1, <2>2, <2>3, TakenTypes
<1>6. ASSUME NEW n \in matches,
             MatchPatch(n) \/ MatchInstalled(n) \/ MatchNew(n) \/ MatchNotInstalled(n)
      PROVE  ArgTypes'
  BY <1>6 DEF MatchPatch, MatchInstalled, MatchNew, MatchNotInstalled, TakeMatch, args
<1>7. ASSUME NEW n \in matches, MatchOrphan(n)
      PROVE  ArgTypes'
  BY <1>7 DEF MatchOrphan, args
<1>8. CASE MatchesDone
  BY <1>8 DEF MatchesDone, args, loop
<1>9. ASSUME NEW s \in donts, Remove(s)
      PROVE  ArgTypes'
  <2>1. /\ dos' = dos /\ donts' = donts \ {s} /\ given' = given \cup {[spec |-> s, dont |-> TRUE]}
        /\ spec' = spec /\ hit' = hit /\ matches' = matches
    BY <1>9 DEF Remove, loop
  <2>2. s \in Spec_ /\ dos' \subseteq dos /\ donts' \subseteq donts /\ TRUE \in BOOLEAN
    BY <2>1
  <2>3. spec' \in Spec_ /\ matches' \subseteq spec'.names /\ hit' \in BOOLEAN
    BY <2>1
  <2>4. QED
    BY <2>1, <2>2, <2>3, TakenTypes
<1>10. CASE CheckUpdateStack \/ CheckOtherPatches \/ \E i \in issues : MarkByIssue(i)
  BY <1>10 DEF CheckUpdateStack, CheckOtherPatches, MarkByIssue, args, loop
<1>11. CASE IssuesDone \/ HandleFeedback
  BY <1>11 DEF IssuesDone, HandleFeedback, args, loop
<1>12. CASE UNCHANGED vars
  BY <1>12 DEF vars, args, loop
<1>13. QED
  BY <1>1, <1>2, <1>3, <1>4, <1>5, <1>6, <1>7, <1>8, <1>9, <1>10, <1>11, <1>12
  DEF Next, Arguments, Install, PatchCommands

\* The other variables keep their types, and the parser its argument.
LEMMA ControlTypesStep ==
  Setting /\ ControlTypes /\ Reading /\ [Next]_vars => ControlTypes' /\ Reading'
<1> SUFFICES ASSUME Setting, ControlTypes, Reading, [Next]_vars
             PROVE  ControlTypes' /\ Reading'
  OBVIOUS
<1> USE DEF ControlTypes, Reading, EXIT_OK, EXIT_ERR_INVALID_ARGS, EXIT_INF_CAP_NOT_FOUND
<1>0. UNCHANGED <<pool, line>> /\ line.words \in Seq(Seq(Word)) /\ line.withUpdate \in BOOLEAN
  BY SettingStays, RequestAssumption DEF Setting, CommandLine
<1>1. CASE StartCommand
  <2>1. pc' \in {"stack", "issues", "parse", "feedback"} /\ (pc' = "parse" => ~NoWords)
    BY <1>1 DEF StartCommand
  <2>2. batch' = 1 /\ at' = at /\ exitCode' = exitCode /\ exitInfo' = exitInfo
    BY <1>1 DEF StartCommand, args, codes
  <2>3. updateOnly' \in BOOLEAN /\ withUpdate' \in BOOLEAN
    <3>1. (line.cmd = "update" /\ NoWords /\ (line.kinds = {} \/ "package" \in line.kinds)) \in BOOLEAN
      OBVIOUS
    <3>2. (line.cmd = "patch" /\ line.withUpdate) \in BOOLEAN
      OBVIOUS
    <3>3. /\ updateOnly' = (line.cmd = "update" /\ NoWords /\ (line.kinds = {} \/ "package" \in line.kinds))
          /\ withUpdate' = (line.cmd = "patch" /\ line.withUpdate)
      BY <1>1, Zenon DEF StartCommand
    <3>4. QED
      BY <3>1, <3>2, <3>3, Zenon
  <2>4. ~NoWords => 1 \in DOMAIN line.words
    BY <1>0 DEF NoWords
  <2>5. pc' # "start"
    BY <2>1
  <2>6. QED
    BY <1>0, <2>1, <2>2, <2>3, <2>4, <2>5
<1>2. CASE RejectCommand \/ BadArgument
  BY <1>2 DEF RejectCommand, BadArgument, Fail, args, runtime
<1>3. CASE Parse
  BY <1>0, <1>3 DEF Parse, codes, runtime
<1>4. CASE Parsed
  BY <1>4 DEF Parsed, codes, runtime
<1>5. CASE NextBatch
  <2>1. CASE batch < Len(line.words)
    <3>1. batch + 1 \in DOMAIN line.words
      BY <1>0, <2>1
    <3>2. batch' = batch + 1 /\ at' = 1 /\ pc' = "parse"
      BY <1>5, <2>1 DEF NextBatch
    <3>3. QED
      BY <1>0, <1>5, <3>1, <3>2 DEF NextBatch, codes, runtime
  <2>2. CASE ~(batch < Len(line.words))
    BY <1>5, <2>2 DEF NextBatch, codes, runtime
  <2>3. QED
    BY <2>1, <2>2
<1>6. ASSUME NEW s \in dos, InstallByName(s) \/ InstallNameUnknown(s) \/ InstallByCap(s)
      PROVE  ControlTypes' /\ Reading'
  BY <1>6 DEF InstallByName, InstallNameUnknown, InstallByCap, TakeArgument, codes, runtime
<1>7. ASSUME NEW n \in matches,
             MatchPatch(n) \/ MatchOrphan(n) \/ MatchInstalled(n) \/ MatchNew(n) \/ MatchNotInstalled(n)
      PROVE  ControlTypes' /\ Reading'
  <2>1. UNCHANGED <<args, codes, runtime, pc>> /\ pc = "match"
    BY <1>7 DEF MatchPatch, MatchOrphan, MatchInstalled, MatchNew, MatchNotInstalled, TakeMatch
  <2>2. QED
    BY <2>1 DEF args, codes, runtime
<1>8. CASE MatchesDone
  BY <1>8 DEF MatchesDone, args, codes, runtime
<1>9. ASSUME NEW s \in donts, Remove(s)
      PROVE  ControlTypes' /\ Reading'
  BY <1>9 DEF Remove, codes, runtime
<1>10. CASE CheckUpdateStack
  <2>1. withUpdate' = (withUpdate /\ ~AnyMarked(FALSE))
    BY <1>10, Zenon DEF CheckUpdateStack
  <2>2. (withUpdate /\ ~AnyMarked(FALSE)) \in BOOLEAN
    OBVIOUS
  <2>3. withUpdate' \in BOOLEAN
    BY <2>1, <2>2, Zenon
  <2>4. pc' \in {"feedback", "others"} /\ UNCHANGED <<batch, at, codes, updateOnly>>
    BY <1>10 DEF CheckUpdateStack, args
  <2>5. QED
    BY <2>3, <2>4 DEF codes
<1>11. CASE CheckOtherPatches
  BY <1>11 DEF CheckOtherPatches, args, codes, runtime
<1>12. ASSUME NEW i \in issues, MarkByIssue(i)
       PROVE  ControlTypes' /\ Reading'
  <2>1. UNCHANGED <<pc, batch, at, exitCode, updateOnly, withUpdate>> /\ pc = "issues"
    BY <1>12 DEF MarkByIssue, args, runtime
  <2>2. exitInfo' \in {exitInfo, EXIT_INF_CAP_NOT_FOUND}
    BY <1>12 DEF MarkByIssue
  <2>3. QED
    BY <2>1, <2>2
<1>13. CASE IssuesDone
  BY <1>13 DEF IssuesDone, args, codes, runtime
<1>14. CASE HandleFeedback
  BY <1>14 DEF HandleFeedback, args, runtime
<1>15. CASE UNCHANGED vars
  BY <1>15 DEF vars, args, codes, runtime
<1>16. QED
  BY <1>1, <1>2, <1>3, <1>4, <1>5, <1>6, <1>7, <1>8, <1>9, <1>10, <1>11, <1>12, <1>13,
     <1>14, <1>15
  DEF Next, Arguments, Install, PatchCommands

\* Every variable has its type, for any pool and any arguments: no argument is both wanted
\* and unwanted, and whatever is marked or asked of the solver is an item of the pool or a
\* capability somebody named (PackageArgs, SolverRequester).
THEOREM TypeCorrect == Spec => []TypeOK
<1>1. Init => ArgTypes /\ ControlTypes /\ Reading /\ Typed(sr)
  <2> SUFFICES ASSUME Init
               PROVE  ArgTypes /\ ControlTypes /\ Reading /\ Typed(sr)
    OBVIOUS
  <2>1. Typed(sr)
    BY FeedbackTyped DEF Init
  <2>2. ArgTypes
    BY NoSpecType DEF Init, ArgTypes
  <2>3. Reading
    BY DEF Init, Reading
  <2>4. pc = "start" /\ batch \in Nat \ {0} /\ at \in Nat \ {0}
    BY DEF Init
  <2>5. exitCode = EXIT_OK /\ exitInfo = EXIT_OK /\ updateOnly = FALSE /\ withUpdate = FALSE
    BY DEF Init
  <2>6. ControlTypes
    BY <2>4, <2>5 DEF ControlTypes
  <2>7. QED
    BY <2>1, <2>2, <2>3, <2>6
<1>2. Setting /\ ArgTypes /\ Typed(sr) /\ [Next]_vars => Typed(sr)'
  <2> SUFFICES ASSUME Setting, ArgTypes, Typed(sr), [Next]_vars
               PROVE  Typed(sr)'
    OBVIOUS
  <2>1. Typed(sr')
    BY RequestTyped DEF ArgTypes
  <2>2. QED
    BY <2>1 DEF Typed
<1>3. Setting /\ ArgTypes /\ ControlTypes /\ Typed(sr) => TypeOK
  BY DEF Setting, ArgTypes, ControlTypes, Typed, TypeOK
<1>4. QED
  BY <1>1, <1>2, <1>3, SettingHolds, ArgTypesStep, ControlTypesStep, PTL DEF Spec
=============================================================================
