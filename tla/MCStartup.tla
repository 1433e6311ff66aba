----------------------------- MODULE MCStartup -----------------------------
(***************************************************************************)
(* Startup for TLC.  One family of starts has up to three global options   *)
(* in front of a plain command, the other one has every environment in     *)
(* front of commands, shells and subcommands.                              *)
(***************************************************************************)
EXTENDS Startup

L(cmd) == [cmd |-> cmd, flags |-> {}]
With(cmd, flags) == [cmd |-> cmd, flags |-> flags]

MCLines ==
  {L(c) : c \in {"search", "install", "addlock", "addrepo", "ps", "repos", "help", "shell", "quit",
                 "mysub", "subcommand", "unknown", "nothing"}} \cup
  {With("install", f) : f \in {{"dry-run"}, {"no-confirm"}, {"no-confirm", "junk"}, {"help"}}}

PlainEnv == [isRoot |-> TRUE, transactional |-> "no", mntReadOnly |-> FALSE, holder |-> "none",
             readonlyHack |-> FALSE, confColor |-> TRUE, confBroken |-> FALSE]

FileEnvs == {[PlainEnv EXCEPT !.confColor = c, !.confBroken = b] : c, b \in BOOLEAN}

\* Up to two options, three of those whose order matters; -v once more.
Ordered == {"config", "verbose", "color", "no-abbrev", "terse", "xmlout", "root", "reposd-dir",
            "cache-dir", "raw-cache-dir"}
OptionSets == {o \in SUBSET Words : Cardinality(o) \in 1 .. 2} \cup
              {o \in SUBSET Ordered : Cardinality(o) = 3}
Givens == {SetToSeq(o) : o \in OptionSets} \cup
          {<<"verbose", "verbose">>, <<"xmlout", "verbose", "verbose">>,
           <<"verbose", "verbose", "verbose">>}

OptionScenes ==
  {[given |-> g, lines |-> <<L("search")>>, env |-> e] : g \in Givens, e \in FileEnvs}
  \cup {[given |-> g, lines |-> <<l>>, env |-> PlainEnv] :
          g \in {<<"plus-repo">>, <<"bad-plus-repo">>, <<"help">>}, l \in MCLines}

Envs == {[PlainEnv EXCEPT !.isRoot = r, !.transactional = t, !.holder = h] :
  r \in BOOLEAN, t \in {"no", "wrapper", "bare"}, h \in {"none", "packagekit", "other"}}
HackEnvs == {[PlainEnv EXCEPT !.isRoot = r, !.readonlyHack = TRUE, !.holder = "other"] : r \in BOOLEAN}
MountEnvs == {[PlainEnv EXCEPT !.isRoot = r, !.mntReadOnly = m] : r, m \in BOOLEAN}

Sessions == {<<l>> : l \in MCLines \ {L("shell")}} \cup
  {<<L("shell"), With("install", {"dry-run"}), L("install")>>,
   <<L("shell"), With("install", {"no-confirm"}), L("mysub"), L("shell"), L("nothing")>>,
   <<L("shell"), With("install", {"dry-run", "junk"}), L("unknown"), L("quit"), L("ps")>>}

EnvScenes ==
  {[given |-> g, lines |-> s, env |-> e] :
     g \in {<<>>, <<"non-interactive">>}, s \in Sessions, e \in Envs \cup HackEnvs}
  \cup {[given |-> <<"root">>, lines |-> s, env |-> e] : s \in Sessions, e \in MountEnvs}

MCScenarios == OptionScenes \cup EnvScenes
MCAllLines == MCLines \cup UNION {ToSet(s) : s \in Sessions}
=============================================================================
