-------------------------- MODULE RepoManagementProofs --------------------------
(***************************************************************************)
(* Proofs about RepoManagement, for any repositories and services, any     *)
(* finite set of words and any command lines.  The invariant says, for     *)
(* each loop of a command, what its queue holds, what has been counted and *)
(* what is still to do; the two properties are read off where a loop ends. *)
(***************************************************************************)
EXTENDS RepoManagement, FiniteSetTheorems, TLAPS

USE DEF EXIT_OK, ERR_BUG, ERR_INVALID_ARGS, ERR_ZYPP, ERR_PRIVILEGES, NO_REPOS, NoWord

Item == [kind : {"service", "repo"}, alias : Words]

\* The tables, the metadata and the sets of repositories.
Tables ==
  /\ Known \subseteq Words /\ repos \in [Known -> RepoRow]
  /\ DOMAIN services \subseteq Words
  /\ raw \in [Words -> {"none", "old", "new"}] /\ cache \in [Words -> {"none", "old", "new"}]
  /\ pkgs \subseteq Words
  /\ initial \in Seq(Words) /\ specified \subseteq Words
  /\ failed \subseteq Words /\ tried \subseteq Words

\* Where each command can be.
Control ==
  /\ cmd \in CommandLines /\ commands \in 0 .. MaxCommands
  /\ pc \in {"idle", "start", "services", "serviceRepos", "select", "refresh", "clean", "add",
             "remove", "modify", "removeServices", "modifyServices", "done", "left", "crashed"}
  /\ exitCode \in {EXIT_OK, ERR_BUG, ERR_INVALID_ARGS, ERR_ZYPP, ERR_PRIVILEGES, NO_REPOS}
  /\ notFound \in BOOLEAN
  /\ pc = "services" => cmd.verb \in {"refresh", "refresh-services"}
  /\ pc = "serviceRepos" => cmd.verb = "refresh-services"
  /\ pc \in {"select", "refresh"} => cmd.verb = "refresh"
  /\ pc = "clean" => cmd.verb = "clean"
  /\ pc = "add" => cmd.verb = "addrepo"
  /\ pc = "remove" => cmd.verb = "removerepo"
  /\ pc = "modify" => cmd.verb = "modifyrepo"
  /\ pc = "removeServices" => cmd.verb = "removeservice"
  /\ pc = "modifyServices" => cmd.verb = "modifyservice"
  /\ pc \in {"remove", "modify"} => (cmd.args = <<>> <=> Aggregate)

\* What the queue of each loop holds.
Queues ==
  /\ pc \in {"services", "serviceRepos", "removeServices", "modifyServices"} =>
       queue \in Seq(Item)
  /\ pc = "serviceRepos" => queue # <<>>
  /\ pc \in {"refresh", "clean", "remove"} => queue \in Seq(Words)
  /\ pc = "add" => queue \in Seq(NewEntry)
  /\ pc = "modify" => IF Aggregate THEN queue \in Seq(Words)
                      ELSE queue \in Seq(Arg) /\ Range(queue) \subseteq Range(cmd.args)

\* What is counted, and what has come to nothing at the start.
Errors ==
  /\ pc = "start" => failed = {} /\ broken = {} /\ exitCode = EXIT_OK
  /\ cmd.verb \in {"refresh", "clean", "addrepo"} => broken = failed
  /\ pc \in {"select", "remove", "modify", "removeServices", "modifyServices"} => failed = {}
  /\ pc = "add" /\ exitCode = EXIT_OK => failed = {}
  /\ pc = "refresh" => failed \subseteq tried
  /\ pc = "done" /\ exitCode = EXIT_OK =>
       failed = {} /\ (cmd.verb \in {"refresh", "clean", "addrepo", "addservice"} => broken = {})

\* The list in which names are looked up, compared with the one the user saw.
Seen ==
  /\ pc = "start" => repos = before
  /\ pc \in {"services", "serviceRepos", "select"} =>
       \A a \in Known : \/ repos[a].name = a
                        \/ a \in DOMAIN before /\ repos[a].name = before[a].name
  /\ pc = "remove" => \A a \in Known : a \in DOMAIN before /\ repos[a] = before[a]
  /\ pc = "modify" /\ ~Aggregate =>
       \A a \in Known : \/ a \in Meant
                        \/ a \in DOMAIN before /\ repos[a].name = before[a].name

\* What an argument of refresh or clean was taken for is what it means.
Taken ==
  pc \in {"refresh", "clean"} =>
    /\ RepoArgs = <<>> => specified = {} /\ ~notFound
    /\ specified \subseteq Meant
    /\ ~notFound => \A i \in DOMAIN RepoArgs : \E a \in Meanings(RepoArgs[i]) \cap specified :
                      a \in Known

\* Only what is named is queued.
NamedQueue ==
  pc \in {"refresh", "clean", "remove"} /\ RepoArgs # <<>> /\ cmd.plus = <<>> =>
    Range(queue) \subseteq Meant

\* What the loops have still to do.
RefreshTodo ==
  pc = "refresh" /\ failed = {} /\ ~notFound =>
    \A a \in Known : specified = {} \/ a \in specified => a \in Range(queue) \/ UpToDate(a)

CleanTodo ==
  pc = "clean" /\ failed = {} =>
    \A a \in IF RepoArgs = <<>> THEN Known ELSE specified : a \in Range(queue) \/ Cleaned(a)

-----------------------------------------------------------------------------
(* Lists in order                                                          *)

\* Nth goes through a finite set of numbers in order.
LEMMA NthFacts ==
  ASSUME NEW I, I \subseteq Nat, IsFiniteSet(I)
  PROVE  /\ Cardinality(I) \in Nat
         /\ \A k \in 1 .. Cardinality(I) : Nth(I, k) \in I
         /\ \A k, m \in 1 .. Cardinality(I) : Nth(I, k) = Nth(I, m) => k = m
         /\ \A i \in I : \E k \in 1 .. Cardinality(I) : Nth(I, k) = i
         /\ I # {} => \E i \in I : \A j \in I : i <= j
<1> DEFINE n == Cardinality(I)
           rank == [i \in I |-> Rank(I, i)]
<1>1. n \in Nat
  BY FS_CardinalityType
<1>2. \A i \in I : Rank(I, i) \in 1 .. n
  <2> TAKE i \in I
  <2> DEFINE L == {j \in I : j <= i}
  <2>1. L \in SUBSET I /\ i \in L
    OBVIOUS
  <2>2. IsFiniteSet(L) /\ Cardinality(L) <= n
    BY <2>1, FS_Subset
  <2>3. Cardinality(L) \in Nat /\ Cardinality(L) # 0
    BY <2>1, <2>2, FS_CardinalityType, FS_EmptySet
  <2>4. QED
    BY <1>1, <2>2, <2>3 DEF Rank
<1>3. ASSUME NEW i \in I, NEW j \in I, i < j
      PROVE  Rank(I, i) # Rank(I, j)
  <2> DEFINE L == {m \in I : m <= i}
             M == {m \in I : m <= j}
  <2>1. \A m \in I : m <= i => m <= j
    BY <1>3
  <2>2. L \in SUBSET M /\ M \in SUBSET I
    BY <2>1
  <2>3. j \in M /\ j \notin L
    BY <1>3
  <2>4. IsFiniteSet(M)
    BY <2>2, FS_Subset
  <2>5. Cardinality(M) # Cardinality(L)
    <3> HIDE DEF L, M
    <3> QED
      BY <2>2, <2>3, <2>4, FS_Subset
  <2>6. QED
    BY <2>5 DEF Rank
<1>4. \A i, j \in I : Rank(I, i) = Rank(I, j) => i = j
  <2> TAKE i, j \in I
  <2>1. i < j \/ j < i \/ i = j
    OBVIOUS
  <2>2. QED
    BY <1>3, <2>1
<1>5. rank \in Injection(I, 1 .. n)
  BY <1>2, <1>4 DEF Injection, IsInjective
<1>6. IsFiniteSet(1 .. n) /\ Cardinality(1 .. n) = n
  BY <1>1, FS_Interval
<1>7. rank \in Surjection(I, 1 .. n)
  <2> HIDE DEF rank
  <2> QED
    BY <1>5, <1>6, FS_Injection
<1>8. \A k \in 1 .. n : \E i \in I : Rank(I, i) = k
  BY <1>7 DEF Surjection
<1>9. \A k \in 1 .. n : Nth(I, k) \in I /\ Rank(I, Nth(I, k)) = k
  BY <1>8 DEF Nth
<1>10. \A i \in I : Nth(I, Rank(I, i)) = i
  BY <1>2, <1>4, <1>9
<1>11. ASSUME I # {}
       PROVE  \E i \in I : \A j \in I : i <= j
  <2>0. 1 \in 1 .. n
    <3>1. PICK x \in I : Rank(I, x) \in 1 .. n
      BY <1>2, <1>11
    <3>2. QED
      BY <1>1, <3>1
  <2>1. PICK i \in I : Rank(I, i) = 1
    BY <1>8, <2>0
  <2> DEFINE L == {j \in I : j <= i}
  <2>2. IsFiniteSet(L) /\ i \in L
    BY FS_Subset
  <2>3. \E x : L = {x}
    BY <2>1, <2>2, FS_Singleton DEF Rank
  <2>4. ASSUME NEW j \in I, j < i
        PROVE  FALSE
    BY <2>2, <2>3, <2>4
  <2>5. QED
    BY <2>4
<1>12. QED
  BY <1>1, <1>2, <1>9, <1>10, <1>11

\* The list of a set of words has its elements and nothing else.
LEMMA SortedFacts ==
  ASSUME NEW S, S \subseteq Words
  PROVE  /\ Sorted(S) \in Seq(S) /\ Range(Sorted(S)) = S /\ Sorted(S) \in Seq(Words)
         /\ S # {} => Min(S) \in S
<1> DEFINE n == Cardinality(S)
<1>1. S \subseteq Nat /\ IsFiniteSet(S)
  BY RepoManagementAssumption, FS_Subset
<1>2. /\ n \in Nat
      /\ \A k \in 1 .. n : Nth(S, k) \in S
      /\ \A a \in S : \E k \in 1 .. n : Nth(S, k) = a
      /\ S # {} => \E a \in S : \A b \in S : a <= b
  BY <1>1, NthFacts
<1>3. Sorted(S) = [k \in 1 .. n |-> Nth(S, k)]
  BY DEF Sorted
<1> HIDE DEF n
<1>4. Sorted(S) \in Seq(S) /\ DOMAIN Sorted(S) = 1 .. n
  BY <1>2, <1>3
<1>5. Range(Sorted(S)) = S
  BY <1>2, <1>3 DEF Range
<1>6. Sorted(S) \in Seq(Words)
  <2>1. Sorted(S) \in [1 .. n -> Words]
    BY <1>2, <1>3
  <2>2. QED
    BY <1>2, <2>1
<1>7. S # {} => Min(S) \in S
  BY <1>2 DEF Min
<1>8. QED
  BY <1>4, <1>5, <1>6, <1>7

\* The queues of services and repositories.
LEMMA ItemsFacts ==
  ASSUME NEW S, NEW R, S \subseteq Words, R \subseteq Words
  PROVE  Items(S, R) \in Seq(Item)
<1> DEFINE m == Cardinality(S)
           n == Cardinality(R)
           first == [i \in 1 .. m |-> Service(Nth(S, i))]
           second == [i \in 1 .. n |-> PlainRepo(Nth(R, i))]
<1>1. IsFiniteSet(S) /\ IsFiniteSet(R) /\ S \subseteq Nat /\ R \subseteq Nat
  BY RepoManagementAssumption, FS_Subset
<1>2. /\ m \in Nat /\ \A k \in 1 .. m : Nth(S, k) \in Words
      /\ n \in Nat /\ \A k \in 1 .. n : Nth(R, k) \in Words
  BY <1>1, NthFacts
<1>3. /\ \A i \in 1 .. m : Service(Nth(S, i)) \in Item
      /\ \A i \in 1 .. n : PlainRepo(Nth(R, i)) \in Item
  BY <1>2 DEF Service, PlainRepo, Item
<1>4. Items(S, R) = first \o second
  BY DEF Items
<1> HIDE DEF m, n
<1>5. first \in Seq(Item) /\ second \in Seq(Item)
  BY <1>2, <1>3
<1> HIDE DEF first, second
<1>6. QED
  BY <1>4, <1>5

\* The rest of a queue has no more than the queue, and all of it but the head.
LEMMA TailFacts ==
  ASSUME NEW S, NEW q \in Seq(S), q # <<>>
  PROVE  /\ Head(q) \in S /\ Head(q) \in Range(q) /\ Tail(q) \in Seq(S)
         /\ Range(Tail(q)) \subseteq Range(q)
         /\ Range(q) \subseteq Range(Tail(q)) \cup {Head(q)}
<1>1. Head(q) \in S /\ Tail(q) \in Seq(S) /\ Len(q) \in Nat /\ Len(q) >= 1
  OBVIOUS
<1>2. /\ DOMAIN q = 1 .. Len(q) /\ DOMAIN Tail(q) = 1 .. Len(q) - 1 /\ Head(q) = q[1]
      /\ \A i \in 1 .. Len(q) - 1 : Tail(q)[i] = q[i + 1]
  BY <1>1
<1>3. Head(q) \in Range(q)
  BY <1>1, <1>2 DEF Range
<1>4. Range(Tail(q)) \subseteq Range(q)
  BY <1>1, <1>2 DEF Range
<1>5. ASSUME NEW i \in 1 .. Len(q), i # 1
      PROVE  q[i] \in Range(Tail(q))
  <2>1. i - 1 \in 1 .. Len(q) - 1 /\ Tail(q)[i - 1] = q[i]
    BY <1>1, <1>2, <1>5
  <2>2. QED
    BY <1>2, <2>1 DEF Range
<1>6. QED
  BY <1>1, <1>2, <1>3, <1>4, <1>5 DEF Range

-----------------------------------------------------------------------------
(* Arguments and rows                                                      *)

\* The command line has its type; --repo is given to refresh and clean only.
LEMMA LineType ==
  ASSUME Control
  PROVE  /\ cmd.verb \in STRING /\ cmd.args \in Seq(Arg) /\ cmd.repos \in Seq(Arg)
         /\ cmd.plus \in Seq(Arg) /\ cmd.name \in Words \cup {NoWord}
         /\ cmd.entries \in Seq(NewEntry)
         /\ cmd.repos # <<>> => cmd.verb \in {"refresh", "clean"}
         /\ "with-repos" \in cmd.flags => cmd.verb = "refresh-services"
         /\ cmd.verb = "addservice" =>
              /\ cmd.entries # <<>> /\ cmd.entries[1].alias # NoWord /\ cmd.entries[1].urls # <<>>
         /\ cmd.verb = "renamerepo" /\ Len(cmd.args) = 2 => cmd.args[2].word # NoWord
<1>1. cmd \in CommandLines /\ cmd \in CommandLine
  BY RepoManagementAssumption DEF Control
<1>2. QED
  BY <1>1, RepoManagementAssumption DEF CommandLine

\* match_repo: what it returns fits the argument.
LEMMA MatchFacts ==
  ASSUME Tables, NEW arg, NEW lq, NEW la, MatchRepo(arg, lq, la) # NoWord
  PROVE  /\ MatchRepo(arg, lq, la) \in Known
         /\ IF arg.word # NoWord
            THEN \/ MatchRepo(arg, lq, la) = arg.word
                 \/ MatchRepo(arg, lq, la) = RepoNumber(arg.word)
                 \/ repos[MatchRepo(arg, lq, la)].name = arg.word
            ELSE HasUrl(repos[MatchRepo(arg, lq, la)].urls, arg.url, lq, la)
<1> DEFINE w == arg.word
           fits == IF w # NoWord
                   THEN { a \in Known : a = w \/ a = RepoNumber(w) \/ repos[a].name = w }
                   ELSE { a \in Known : HasUrl(repos[a].urls, arg.url, lq, la) }
<1>1. MatchRepo(arg, lq, la) = IF fits = {} THEN NoWord ELSE Min(fits)
  BY DEF MatchRepo
<1>2. fits \subseteq Words
  BY DEF Tables
<1>3. MatchRepo(arg, lq, la) \in fits
  <2> HIDE DEF fits
  <2> QED
    BY <1>1, <1>2, SortedFacts
<1>4. QED
  BY <1>3

\* So do the repositories that several arguments name.
LEMMA GetReposFacts ==
  ASSUME Tables, NEW args
  PROVE  /\ GetRepos(args) \subseteq Known
         /\ \A a \in GetRepos(args) : \E i \in DOMAIN args : a = MatchRepo(args[i], FALSE, FALSE)
         /\ ~Unmatched(args) =>
              \A i \in DOMAIN args : MatchRepo(args[i], FALSE, FALSE) \in GetRepos(args)
BY MatchFacts DEF GetRepos, Unmatched

\* match_service finds what there is.
LEMMA MatchServiceFacts ==
  ASSUME Tables, NEW arg, NEW la, NEW lq
  PROVE  MatchService(arg, la, lq) \subseteq Item
<1> DEFINE known == GetAllServices
           UrlsOf(item) == IF item.kind = "service" THEN <<services[item.alias].url>>
                           ELSE repos[item.alias].urls
           fits == { n \in DOMAIN known :
                       IF arg.word # NoWord THEN known[n].alias = arg.word \/ n = arg.word
                       ELSE HasUrl(UrlsOf(known[n]), arg.url, lq, la) }
<1>1. MatchService(arg, la, lq) = IF fits = {} THEN {} ELSE {known[Min(fits)]}
  BY DEF MatchService
<1>2. known \in Seq(Item)
  BY ItemsFacts DEF GetAllServices, ServiceRepos, Tables
<1>3. fits \subseteq 1 .. Len(known) /\ Len(known) \in Nat
  BY <1>2
<1> HIDE DEF fits, known
<1>4. IsFiniteSet(1 .. Len(known))
  BY <1>3, FS_Interval
<1>5. fits \in SUBSET (1 .. Len(known)) /\ fits \subseteq Nat
  BY <1>3
<1>6. IsFiniteSet(fits)
  BY <1>4, <1>5, FS_Subset
<1>7. fits # {} => Min(fits) \in 1 .. Len(known)
  BY <1>5, <1>6, NthFacts DEF Min
<1>8. fits # {} => known[Min(fits)] \in Item
  BY <1>2, <1>7
<1>9. QED
  BY <1>1, <1>8

\* The settings leave the URLs and the service of a repository alone.
LEMMA ModifiedRow ==
  ASSUME Control, NEW r \in RepoRow
  PROVE  /\ Renamed(Modified(r)) \in RepoRow
         /\ Renamed(Modified(r)).urls = r.urls
<1>1. Modified(r) \in RepoRow /\ Modified(r).urls = r.urls
  BY DEF Modified, RepoRow
<1>2. cmd.name \in Words \cup {NoWord}
  BY LineType
<1>3. QED
  BY <1>1, <1>2 DEF Renamed, RepoRow

\* A repository made of an entry is a row of the table.
LEMMA NewRepoRow ==
  ASSUME NEW e \in NewEntry, e.urls # <<>>
  PROVE  NewRepo(e) \in RepoRow
<1>1. Modified(e) \in NewEntry
  BY DEF Modified, NewEntry
<1>2. Modified(e).enabled \in BOOLEAN /\ (Modified(e).auto /\ ~IsCd(e)) \in BOOLEAN
  BY <1>1 DEF NewEntry
<1>3. QED
  BY <1>2 DEF NewRepo, NewEntry, RepoRow

-----------------------------------------------------------------------------
(* The tables keep their types                                             *)

Data == /\ raw \in [Words -> {"none", "old", "new"}] /\ cache \in [Words -> {"none", "old", "new"}]
        /\ pkgs \subseteq Words

\* A refresh keeps the types of the caches, and blames repositories it was given.
LEMMA RefreshedTypes ==
  ASSUME Data, NEW R, NEW flags, NEW rawOk, NEW cacheOk, Refreshed(R, flags, rawOk, cacheOk)
  PROVE  /\ raw' \in [Words -> {"none", "old", "new"}]
         /\ cache' \in [Words -> {"none", "old", "new"}]
         /\ RefreshError(R, flags, rawOk, cacheOk) \subseteq R
BY DEF Data, Refreshed, RefreshError

\* Caches that are dropped leave a table of caches.
LEMMA ForgetTypes ==
  ASSUME NEW gone, NEW f \in [Words -> {"none", "old", "new"}]
  PROVE  Forget(gone, f) \in [Words -> {"none", "old", "new"}]
BY DEF Forget

\* The rows of other repositories stay as they are when some are removed.
LEMMA RemoveTypes ==
  ASSUME Tables, NEW gone, RemoveRepos(gone)
  PROVE  /\ Known' = Known \ gone /\ repos' \in [Known' -> RepoRow] /\ Data'
         /\ \A a \in Known' : repos'[a] = repos[a]
<1>1. /\ Known' = Known \ gone
      /\ \A a \in Known' : repos'[a] = repos[a]
      /\ repos' = [a \in Known' |-> repos'[a]]
  BY DEF RemoveRepos, Known
<1>2. repos' \in [Known' -> RepoRow]
  BY <1>1 DEF Tables
<1>3. Data'
  BY ForgetTypes DEF RemoveRepos, Tables, Data
<1>4. QED
  BY <1>1, <1>2, <1>3

\* A service refresh adds rows of its own offers and keeps the others.
LEMMA ServiceRefreshedTypes ==
  ASSUME Tables, NEW s \in Words, ServiceRefreshed(s)
  PROVE  /\ Known' \subseteq Words /\ repos' \in [Known' -> RepoRow] /\ Data'
         /\ \A a \in Known' : \/ repos'[a].name = a
                              \/ a \in Known /\ repos'[a] = repos[a]
<1>1. PICK listed \in SUBSET { a \in Offered[s] : a \in Known => repos[a].service = s } :
        LET gone == ServiceRepos(s) \ listed IN
        /\ repos' = [a \in (Known \ gone) \cup listed |->
                       IF a \in Known THEN repos[a]
                       ELSE [name |-> a, urls |-> <<CHOOSE u \in Urls : u.scheme # "cd">>,
                             enabled |-> TRUE, auto |-> TRUE, service |-> s]]
        /\ raw' = Forget(gone, raw) /\ cache' = Forget(gone, cache)
        /\ pkgs' = pkgs \ gone
  BY DEF ServiceRefreshed
<1> DEFINE gone == ServiceRepos(s) \ listed
           new(a) == [name |-> a, urls |-> <<CHOOSE u \in Urls : u.scheme # "cd">>,
                      enabled |-> TRUE, auto |-> TRUE, service |-> s]
<1>2. /\ repos' = [a \in (Known \ gone) \cup listed |-> IF a \in Known THEN repos[a] ELSE new(a)]
      /\ raw' = Forget(gone, raw) /\ cache' = Forget(gone, cache) /\ pkgs' = pkgs \ gone
  BY <1>1
<1>3. listed \subseteq Words
  BY RepoManagementAssumption
<1>4. (CHOOSE u \in Urls : u.scheme # "cd") \in Url
  BY RepoManagementAssumption
<1>5. <<CHOOSE u \in Urls : u.scheme # "cd">> \in Seq(Url) \ {<<>>}
  BY <1>4
<1>6. \A a \in Words : new(a) \in RepoRow /\ new(a).name = a
  BY <1>5 DEF RepoRow
<1> HIDE DEF new, gone
<1>7. Known' = (Known \ gone) \cup listed
  BY <1>2 DEF Known
<1>8. Known' \subseteq Words
  BY <1>3, <1>7 DEF Tables
<1>9. \A a \in Known' : repos'[a] = IF a \in Known THEN repos[a] ELSE new(a)
  BY <1>2, <1>7
<1>10. repos' \in [Known' -> RepoRow]
  <2>1. repos' = [a \in Known' |-> repos'[a]]
    BY <1>2, <1>7
  <2>2. \A a \in Known' : repos'[a] \in RepoRow
    BY <1>6, <1>8, <1>9 DEF Tables
  <2>3. QED
    BY <2>1, <2>2
<1>11. Data'
  BY <1>2, ForgetTypes DEF Tables, Data
<1>12. \A a \in Known' : \/ repos'[a].name = a
                         \/ a \in Known /\ repos'[a] = repos[a]
  BY <1>6, <1>8, <1>9
<1>13. QED
  BY <1>8, <1>10, <1>11, <1>12

\* modify_repo
LEMMA ModifyTypes ==
  ASSUME Tables, Control, NEW a, ModifyRepo(a)
  PROVE  /\ Known' = Known /\ repos' \in [Known' -> RepoRow] /\ services' = services
         /\ \A b \in Known : repos'[b].urls = repos[b].urls
         /\ \A b \in Known : b # a => repos'[b] = repos[b]
<1>1. CASE repos' = [repos EXCEPT ![a] = Renamed(Modified(repos[a]))] /\ services' = services
  <2>1. /\ Known' = Known
        /\ \A b \in Known : repos'[b] = IF b = a THEN Renamed(Modified(repos[b])) ELSE repos[b]
        /\ repos' = [b \in Known |-> repos'[b]]
    BY <1>1 DEF Known, Tables
  <2>2. \A b \in Known : repos[b] \in RepoRow
    BY DEF Tables
  <2>3. \A b \in Known : repos'[b] \in RepoRow /\ repos'[b].urls = repos[b].urls
    BY <2>1, <2>2, ModifiedRow
  <2>4. QED
    BY <1>1, <2>1, <2>3
<1>2. CASE repos' = repos /\ services' = services
  BY <1>2 DEF Tables, Known
<1>3. QED
  BY <1>1, <1>2 DEF ModifyRepo, config



\* The items that arguments name.
LEMMA MatchedServicesFacts ==
  ASSUME Tables, NEW la, NEW lq
  PROVE  MatchedServices(la, lq) \subseteq Item
<1>1. \A i \in DOMAIN cmd.args : MatchService(cmd.args[i], la, lq) \subseteq Item
  BY MatchServiceFacts
<1>2. QED
  BY <1>1 DEF MatchedServices

\* The next item of each loop.
LEMMA QueueFacts ==
  ASSUME Queues, queue # <<>>
  PROVE  /\ pc \in {"services", "serviceRepos", "removeServices", "modifyServices"} =>
              Head(queue) \in Item /\ Tail(queue) \in Seq(Item)
         /\ pc \in {"refresh", "clean", "remove"} =>
              Head(queue) \in Words /\ Tail(queue) \in Seq(Words)
         /\ pc = "add" => Head(queue) \in NewEntry /\ Tail(queue) \in Seq(NewEntry)
         /\ pc = "modify" =>
              IF Aggregate THEN Head(queue) \in Words /\ Tail(queue) \in Seq(Words)
              ELSE Head(queue) \in Arg /\ Tail(queue) \in Seq(Arg)
         /\ pc \in {"refresh", "clean", "remove", "modify"} =>
              /\ Head(queue) \in Range(queue)
              /\ Range(Tail(queue)) \subseteq Range(queue)
              /\ Range(queue) \subseteq Range(Tail(queue)) \cup {Head(queue)}
<1>1. \A S : queue \in Seq(S) =>
        /\ Head(queue) \in S /\ Tail(queue) \in Seq(S) /\ Head(queue) \in Range(queue)
        /\ Range(Tail(queue)) \subseteq Range(queue)
        /\ Range(queue) \subseteq Range(Tail(queue)) \cup {Head(queue)}
  BY TailFacts
<1>2. QED
  BY <1>1 DEF Queues

\* A repository that the user has disabled.
LEMMA DisabledRow ==
  ASSUME Tables, NEW a
  PROVE  /\ DOMAIN [repos EXCEPT ![a].enabled = FALSE] = Known
         /\ [repos EXCEPT ![a].enabled = FALSE] \in [Known -> RepoRow]
         /\ \A b \in Known :
              /\ [repos EXCEPT ![a].enabled = FALSE][b].urls = repos[b].urls
              /\ [repos EXCEPT ![a].enabled = FALSE][b].name = repos[b].name
              /\ b # a => [repos EXCEPT ![a].enabled = FALSE][b] = repos[b]
              /\ [repos EXCEPT ![a].enabled = FALSE][b].enabled => repos[b].enabled
BY DEF Tables, RepoRow

\* Every action keeps the tables typed.
LEMMA TablesStep == Tables /\ Control /\ Queues /\ [Next]_vars => Tables'
<1> SUFFICES ASSUME Tables /\ Control /\ Queues, [Next]_vars
             PROVE  Tables'
  OBVIOUS
<1> USE DEF config, data, given, work
<1>1. CASE \E c \in CommandLines : ReadCommand(c)
  <2>1. PICK c \in CommandLines : ReadCommand(c)
    BY <1>1
  <2>2. Sorted(Known) \in Seq(Words)
    BY SortedFacts DEF Tables
  <2>3. QED
    BY <2>1, <2>2 DEF ReadCommand, Tables, Known
<1>2. CASE StartRefresh
  BY <1>2 DEF StartRefresh, Start, Enqueue, Return, Tables, Known
<1>3. CASE StartRefreshServices
  <2>1. CASE NullRepo
    BY <1>3, <2>1 DEF StartRefreshServices, Tables, Known
  <2>2. CASE ~NullRepo
    <3>1. MatchedServices(FALSE, FALSE) \subseteq Item
      BY MatchedServicesFacts
    <3>2. specified' = { item.alias : item \in MatchedServices(FALSE, FALSE) }
      BY <1>3, <2>2 DEF StartRefreshServices
    <3>3. specified' \subseteq Words
      BY <3>1, <3>2 DEF Item
    <3>4. QED
      BY <1>3, <2>2, <3>3 DEF StartRefreshServices, Enqueue, Tables, Known
  <2>3. QED
    BY <2>1, <2>2
<1>4. CASE RefreshService
  <2> DEFINE s == Head(queue).alias
  <2>1. s \in Words
    BY <1>4, QueueFacts DEF RefreshService, Item
  <2>2. UNCHANGED <<initial, specified, tried>>
    BY <1>4 DEF RefreshService
  <2>3. CASE ServiceRefreshed(s) /\ UNCHANGED <<failed, services>>
    BY <2>1, <2>2, <2>3, ServiceRefreshedTypes DEF Tables, Data
  <2>4. CASE UNCHANGED <<config, data>> /\ failed' \in {failed, failed \cup {s}}
    BY <2>1, <2>2, <2>4 DEF Tables, Known
  <2>5. QED
    BY <1>4, <2>3, <2>4 DEF RefreshService
<1>5. CASE RefreshServiceRepos
  <2> DEFINE R == ServiceRepos(Head(queue).alias)
  <2>1. R \subseteq Words
    BY DEF ServiceRepos, Tables
  <2>2. PICK rawOk, cacheOk \in SUBSET R : Refreshed(R, cmd.flags, rawOk, cacheOk)
    BY <1>5 DEF RefreshServiceRepos
  <2>3. Data'
    BY <1>5, <2>2, RefreshedTypes DEF Data, Tables, RefreshServiceRepos
  <2>4. UNCHANGED <<config, initial, specified, failed>> /\ tried' = tried \cup R
    BY <1>5 DEF RefreshServiceRepos
  <2>5. QED
    BY <2>1, <2>3, <2>4 DEF Tables, Data, Known
<1>6. CASE RefreshPlainRepo
  <2> DEFINE R == {Head(queue).alias}
  <2>1. R \subseteq Words
    BY <1>6, QueueFacts DEF RefreshPlainRepo, Item
  <2>2. PICK rawOk, cacheOk \in SUBSET R :
          /\ Refreshed(R, cmd.flags, rawOk, cacheOk)
          /\ failed' = failed \cup RefreshError(R, cmd.flags, rawOk, cacheOk)
    BY <1>6 DEF RefreshPlainRepo
  <2>3. /\ raw' \in [Words -> {"none", "old", "new"}] /\ cache' \in [Words -> {"none", "old", "new"}]
        /\ failed' \subseteq failed \cup R
    BY <2>2, RefreshedTypes DEF Data, Tables
  <2>4. UNCHANGED <<config, pkgs, initial, specified>> /\ tried' = tried \cup R
    BY <1>6 DEF RefreshPlainRepo
  <2>5. QED
    BY <2>1, <2>3, <2>4 DEF Tables, Known
<1>7. CASE EndServices
  BY <1>7 DEF EndServices, Return, Tables, Known
<1>8. CASE SelectRepos
  <2>1. specified' \subseteq Words
    BY <1>8, GetReposFacts DEF SelectRepos, Tables
  <2>2. QED
    BY <1>8, <2>1 DEF SelectRepos, Enqueue, Tables, Known
<1>9. CASE RefreshRepo
  <2> DEFINE R == {Head(queue)}
  <2>1. R \subseteq Words
    BY <1>9, QueueFacts DEF RefreshRepo
  <2>2. PICK rawOk, cacheOk \in SUBSET R :
          /\ Refreshed(R, cmd.flags, rawOk, cacheOk)
          /\ failed' = failed \cup RefreshError(R, cmd.flags, rawOk, cacheOk)
    BY <1>9 DEF RefreshRepo
  <2>3. /\ raw' \in [Words -> {"none", "old", "new"}] /\ cache' \in [Words -> {"none", "old", "new"}]
        /\ failed' \subseteq failed \cup R
    BY <2>2, RefreshedTypes DEF Data, Tables
  <2>4. UNCHANGED <<services, pkgs, initial, specified>> /\ tried' = tried \cup R
    BY <1>9 DEF RefreshRepo
  <2>5. repos' = repos \/ repos' = [repos EXCEPT ![Head(queue)].enabled = FALSE]
    BY <1>9 DEF RefreshRepo
  <2>6. Known' = Known /\ repos' \in [Known' -> RepoRow]
    BY <2>5, DisabledRow DEF Tables, Known
  <2>7. QED
    BY <2>1, <2>3, <2>4, <2>6 DEF Tables
<1>10. CASE EndRefresh
  BY <1>10 DEF EndRefresh, Return, RefreshCode, Tables, Known
<1>11. CASE StartClean
  <2>1. specified' \subseteq Words
    BY <1>11, GetReposFacts DEF StartClean, Tables
  <2>2. QED
    BY <1>11, <2>1 DEF StartClean, Enqueue, Tables, Known
<1>12. CASE CleanRepo
  <2>1. Head(queue) \in Words
    BY <1>12, QueueFacts DEF CleanRepo
  <2>2. UNCHANGED <<config, initial, specified>> /\ tried' = tried \cup {Head(queue)}
    BY <1>12 DEF CleanRepo
  <2>3. /\ cache' \in {cache, [cache EXCEPT ![Head(queue)] = "none"]}
        /\ raw' \in {raw, [raw EXCEPT ![Head(queue)] = "none"]}
        /\ pkgs' \in {pkgs, pkgs \ {Head(queue)}}
        /\ failed' \in {failed, failed \cup {Head(queue)}}
    BY <1>12 DEF CleanRepo
  <2>4. Data'
    BY <2>3 DEF Data, Tables
  <2>5. QED
    BY <2>1, <2>2, <2>3, <2>4 DEF Tables, Data, Known
<1>13. CASE EndClean
  BY <1>13 DEF EndClean, Return, Tables, Known
<1>14. CASE StartAdd
  BY <1>14 DEF StartAdd, Start, Enqueue, Return, Tables, Known
<1>15. CASE SkipEntry
  BY <1>15 DEF SkipEntry, Tables, Known
<1>16. CASE AddFails
  <2>1. Head(queue).alias \in Words
    BY <1>16, QueueFacts DEF AddFails, Addable, NewEntry
  <2>2. QED
    BY <1>16, <2>1 DEF AddFails, Tables, Known
<1>17. CASE AddRepo
  <2> DEFINE e == Head(queue)
             R == {e.alias}
  <2>1. e \in NewEntry /\ e.urls # <<>> /\ e.alias \in Words
    BY <1>17, QueueFacts DEF AddRepo, Addable, NewEntry
  <2>2. /\ repos' = [a \in Known \cup R |-> IF a = e.alias THEN NewRepo(e) ELSE repos[a]]
        /\ tried' = tried \cup R /\ UNCHANGED <<services, pkgs, initial, specified>>
    BY <1>17 DEF AddRepo
  <2>3. Known' = Known \cup R /\ repos' \in [Known' -> RepoRow]
    BY <2>1, <2>2, NewRepoRow DEF Known, Tables
  <2>4. \/ UNCHANGED <<raw, cache, failed>>
        \/ \E rawOk, cacheOk \in SUBSET R :
             /\ Refreshed(R, {}, rawOk, cacheOk)
             /\ failed' = failed \cup RefreshError(R, {}, rawOk, cacheOk)
    BY <1>17 DEF AddRepo
  <2>5. /\ raw' \in [Words -> {"none", "old", "new"}] /\ cache' \in [Words -> {"none", "old", "new"}]
        /\ failed' \subseteq failed \cup R
    BY <2>4, RefreshedTypes DEF Data, Tables
  <2>6. QED
    BY <2>1, <2>2, <2>3, <2>5 DEF Tables
<1>18. CASE EndAdd
  BY <1>18 DEF EndAdd, Return, Tables, Known
<1>19. CASE StartRemove
  BY <1>19 DEF StartRemove, Start, Enqueue, Return, Tables, Known
<1>20. CASE RemoveRepo
  <2>1. UNCHANGED <<services, initial, specified, failed, tried>>
    BY <1>20 DEF RemoveRepo
  <2>2. CASE RemoveRepos({Head(queue)})
    BY <2>1, <2>2, RemoveTypes DEF Tables, Data
  <2>3. CASE UNCHANGED <<repos, data>>
    BY <2>1, <2>3 DEF Tables, Known
  <2>4. QED
    BY <1>20, <2>2, <2>3 DEF RemoveRepo
<1>21. CASE StartModify
  BY <1>21 DEF StartModify, Start, Enqueue, Return, Tables, Known
<1>22. CASE Modify
  <2>1. UNCHANGED <<data, initial, specified, failed, tried>>
    BY <1>22 DEF Modify
  <2>2. \/ UNCHANGED config
        \/ \E a : ModifyRepo(a)
    BY <1>22 DEF Modify
  <2>3. QED
    BY <2>1, <2>2, ModifyTypes DEF Tables, Known
<1>23. CASE EndRemoveOrModify
  BY <1>23 DEF EndRemoveOrModify, Return, Tables, Known
<1>24. CASE RenameWrongly
  BY <1>24 DEF RenameWrongly, Start, Return, Tables, Known
<1>25. CASE RenameRepo
  <2> DEFINE a == MatchRepo(cmd.args[1], FALSE, FALSE)
             new == cmd.args[2].word
  <2>1. UNCHANGED <<services, initial, specified, failed, tried>>
    BY <1>25 DEF RenameRepo
  <2>2. CASE UNCHANGED <<repos, data>>
    BY <2>1, <2>2 DEF Tables, Known
  <2>3. CASE /\ a # NoWord
             /\ repos' = [b \in (Known \ {a}) \cup {new} |-> IF b = new THEN repos[a] ELSE repos[b]]
             /\ raw' = Forget({a}, raw) /\ cache' = Forget({a}, cache) /\ pkgs' = pkgs \ {a}
    <3>1. a \in Known
      BY <2>3, MatchFacts
    <3>2. new \in Words
      <4>1. cmd.args \in Seq(Arg) /\ Len(cmd.args) = 2 /\ cmd.verb = "renamerepo"
        BY <1>25, LineType DEF RenameRepo, Start
      <4>2. cmd.args[2] \in Arg
        BY <4>1
      <4>3. QED
        BY <4>1, <4>2, LineType DEF Arg
    <3>3. Known' = (Known \ {a}) \cup {new} /\ repos' \in [Known' -> RepoRow]
      BY <2>3, <3>1, <3>2 DEF Tables, Known
    <3>4. QED
      BY <2>1, <2>3, <3>2, <3>3, ForgetTypes DEF Tables
  <2>4. QED
    BY <1>25, <2>2, <2>3 DEF RenameRepo
<1>26. CASE AddService
  <2>1. Head(cmd.entries).alias \in Words
    <3>1. /\ cmd.entries \in Seq(NewEntry) /\ cmd.entries # <<>>
          /\ cmd.entries[1].alias # NoWord
      BY <1>26, LineType DEF AddService, Start
    <3>2. Head(cmd.entries) = cmd.entries[1] /\ cmd.entries[1] \in NewEntry
      BY <3>1
    <3>3. QED
      BY <3>1, <3>2 DEF NewEntry
  <2>2. DOMAIN services' \subseteq DOMAIN services \cup {Head(cmd.entries).alias}
    BY <1>26 DEF AddService
  <2>3. UNCHANGED <<repos, data, initial, specified, failed, tried>>
    BY <1>26 DEF AddService
  <2>4. QED
    BY <2>1, <2>2, <2>3 DEF Tables, Known
<1>27. CASE StartRemoveServices
  BY <1>27 DEF StartRemoveServices, Start, Enqueue, Return, Tables, Known
<1>28. CASE RemoveService
  <2>1. UNCHANGED <<initial, specified, failed, tried>>
    BY <1>28 DEF RemoveService
  <2>2. DOMAIN services' \subseteq DOMAIN services
    BY <1>28 DEF RemoveService
  <2>3. \/ UNCHANGED <<repos, data>>
        \/ \E gone : RemoveRepos(gone)
    BY <1>28 DEF RemoveService
  <2>4. QED
    BY <2>1, <2>2, <2>3, RemoveTypes DEF Tables, Data, Known
<1>29. CASE StartModifyServices
  BY <1>29 DEF StartModifyServices, Start, Enqueue, Return, Tables, Known
<1>30. CASE ModifyOneService
  <2>1. UNCHANGED <<data, initial, specified, failed, tried>>
    BY <1>30 DEF ModifyOneService
  <2>2. CASE ModifyService(Head(queue).alias)
    BY <2>1, <2>2 DEF ModifyService, Tables, Known
  <2>3. CASE ModifyRepo(Head(queue).alias)
    BY <2>1, <2>3, ModifyTypes DEF Tables
  <2>4. QED
    BY <1>30, <2>2, <2>3 DEF ModifyOneService
<1>31. CASE EndServicesEdit
  BY <1>31 DEF EndServicesEdit, Return, Tables, Known
<1>32. CASE UNCHANGED vars
  BY <1>32 DEF vars, Tables, Known
<1>33. QED
  BY <1>1, <1>2, <1>3, <1>4, <1>5, <1>6, <1>7, <1>8, <1>9, <1>10, <1>11, <1>12,
     <1>13, <1>14, <1>15, <1>16, <1>17, <1>18, <1>19, <1>20, <1>21, <1>22, <1>23,
     <1>24, <1>25, <1>26, <1>27, <1>28, <1>29, <1>30, <1>31, <1>32
  DEF Next, Refresh, Clean, Edit, EditServices


\* Every action keeps each command in its place.
LEMMA ControlStep == Control /\ [Next]_vars => Control'
<1> SUFFICES ASSUME Control, [Next]_vars
             PROVE  Control'
  OBVIOUS
<1> USE DEF config, data, given, work
<1>1. CASE \E c \in CommandLines : ReadCommand(c)
  <2>1. PICK c \in CommandLines : ReadCommand(c)
    BY <1>1
  <2>2. commands + 1 \in 0 .. MaxCommands
    BY <2>1, RepoManagementAssumption DEF ReadCommand, Control
  <2>3. QED
    BY <2>1, <2>2 DEF ReadCommand, Control
<1>2. CASE StartRefresh
  BY <1>2 DEF StartRefresh, Start, Enqueue, Return, Control, Aggregate
<1>3. CASE StartRefreshServices
  BY <1>3 DEF StartRefreshServices, Start, Enqueue, Control, Aggregate
<1>4. CASE RefreshService
  <2>1. "with-repos" \in cmd.flags => cmd.verb = "refresh-services"
    BY LineType
  <2>2. exitCode' \in {exitCode, ERR_ZYPP}
    BY <1>4 DEF RefreshService
  <2>3. QED
    BY <1>4, <2>1, <2>2 DEF RefreshService, Control, Flag, Aggregate
<1>5. CASE RefreshServiceRepos
  BY <1>5 DEF RefreshServiceRepos, Control, Aggregate
<1>6. CASE RefreshPlainRepo
  BY <1>6 DEF RefreshPlainRepo, Control, Aggregate
<1>7. CASE EndServices
  BY <1>7 DEF EndServices, Return, Control, Aggregate
<1>8. CASE SelectRepos
  BY <1>8 DEF SelectRepos, Enqueue, Unmatched, Control, Aggregate
<1>9. CASE RefreshRepo
  BY <1>9 DEF RefreshRepo, Leave, Control, Aggregate
<1>10. CASE EndRefresh
  BY <1>10 DEF EndRefresh, Return, RefreshCode, Control, Aggregate
<1>11. CASE StartClean
  BY <1>11 DEF StartClean, Start, Enqueue, Unmatched, Control, Aggregate
<1>12. CASE CleanRepo
  BY <1>12 DEF CleanRepo, Control, Aggregate
<1>13. CASE EndClean
  BY <1>13 DEF EndClean, Return, Control, Aggregate
<1>14. CASE StartAdd
  BY <1>14 DEF StartAdd, Start, Enqueue, Return, Control, Aggregate
<1>15. CASE SkipEntry
  BY <1>15 DEF SkipEntry, Control, Aggregate
<1>16. CASE AddFails
  BY <1>16 DEF AddFails, Addable, Control, Aggregate
<1>17. CASE AddRepo
  BY <1>17 DEF AddRepo, Addable, Control, Aggregate
<1>18. CASE EndAdd
  BY <1>18 DEF EndAdd, Return, Control, Aggregate
<1>19. CASE StartRemove
  BY <1>19 DEF StartRemove, Start, Enqueue, Return, Control, Aggregate
<1>20. CASE RemoveRepo
  BY <1>20 DEF RemoveRepo, Leave, Control, Aggregate
<1>21. CASE StartModify
  BY <1>21 DEF StartModify, Start, Enqueue, Return, Control, Aggregate
<1>22. CASE Modify
  BY <1>22 DEF Modify, Return, Control, Aggregate
<1>23. CASE EndRemoveOrModify
  BY <1>23 DEF EndRemoveOrModify, Return, Control, Aggregate
<1>24. CASE RenameWrongly
  BY <1>24 DEF RenameWrongly, Start, Return, Control, Aggregate
<1>25. CASE RenameRepo
  BY <1>25 DEF RenameRepo, Start, Return, Control, Aggregate
<1>26. CASE AddService
  BY <1>26 DEF AddService, Start, Return, Control, Aggregate
<1>27. CASE StartRemoveServices
  BY <1>27 DEF StartRemoveServices, Start, Enqueue, Return, Control, Aggregate
<1>28. CASE RemoveService
  BY <1>28 DEF RemoveService, Leave, Control, Aggregate
<1>29. CASE StartModifyServices
  BY <1>29 DEF StartModifyServices, Start, Enqueue, Return, Control, Aggregate
<1>30. CASE ModifyOneService
  BY <1>30 DEF ModifyOneService, Control, Aggregate
<1>31. CASE EndServicesEdit
  BY <1>31 DEF EndServicesEdit, Return, Control, Aggregate
<1>32. CASE UNCHANGED vars
  BY <1>32 DEF vars, Control, Aggregate
<1>33. QED
  BY <1>1, <1>2, <1>3, <1>4, <1>5, <1>6, <1>7, <1>8, <1>9, <1>10, <1>11, <1>12,
     <1>13, <1>14, <1>15, <1>16, <1>17, <1>18, <1>19, <1>20, <1>21, <1>22, <1>23,
     <1>24, <1>25, <1>26, <1>27, <1>28, <1>29, <1>30, <1>31, <1>32
  DEF Next, Refresh, Clean, Edit, EditServices


\* What fails is counted, and what has been counted decides the exit code.
LEMMA ErrorsStep == Errors /\ Control /\ [Next]_vars => Errors'
<1> SUFFICES ASSUME Errors /\ Control, [Next]_vars
             PROVE  Errors'
  OBVIOUS
<1> USE DEF config, data, given, work
<1>1. CASE \E c \in CommandLines : ReadCommand(c)
  BY <1>1 DEF ReadCommand, Errors, Control
<1>2. CASE StartRefresh
  BY <1>2 DEF StartRefresh, Start, Enqueue, Return, Errors, Control
<1>3. CASE StartRefreshServices
  BY <1>3 DEF StartRefreshServices, Start, Enqueue, Errors, Control
<1>4. CASE RefreshService
  BY <1>4 DEF RefreshService, Errors, Control
<1>5. CASE RefreshServiceRepos
  BY <1>5 DEF RefreshServiceRepos, Errors, Control
<1>6. CASE RefreshPlainRepo
  <2> DEFINE R == {Head(queue).alias}
  <2>1. PICK rawOk, cacheOk \in SUBSET R :
          /\ failed' = failed \cup RefreshError(R, cmd.flags, rawOk, cacheOk)
          /\ broken' = broken \cup RefreshError(R, cmd.flags, rawOk, cacheOk)
    BY <1>6 DEF RefreshPlainRepo
  <2>2. pc = "services" /\ UNCHANGED <<pc, cmd, exitCode>>
    BY <1>6 DEF RefreshPlainRepo
  <2>3. QED
    BY <2>1, <2>2 DEF Errors
<1>7. CASE EndServices
  BY <1>7 DEF EndServices, Return, Errors, Control
<1>8. CASE SelectRepos
  BY <1>8 DEF SelectRepos, Enqueue, Errors, Control
<1>9. CASE RefreshRepo
  <2> DEFINE R == {Head(queue)}
  <2>1. PICK rawOk, cacheOk \in SUBSET R :
          /\ failed' = failed \cup RefreshError(R, cmd.flags, rawOk, cacheOk)
          /\ broken' = broken \cup RefreshError(R, cmd.flags, rawOk, cacheOk)
    BY <1>9 DEF RefreshRepo
  <2>2. pc = "refresh" /\ pc' \in {"refresh", "left"} /\ tried' = tried \cup R /\ cmd' = cmd
    BY <1>9 DEF RefreshRepo, Leave
  <2>3. RefreshError(R, cmd.flags, rawOk, cacheOk) \subseteq R
    BY DEF RefreshError
  <2>4. QED
    BY <2>1, <2>2, <2>3 DEF Errors
<1>10. CASE EndRefresh
  BY <1>10 DEF EndRefresh, Return, RefreshCode, Errors, Control
<1>11. CASE StartClean
  BY <1>11 DEF StartClean, Start, Enqueue, Errors, Control
<1>12. CASE CleanRepo
  BY <1>12 DEF CleanRepo, Errors, Control
<1>13. CASE EndClean
  BY <1>13 DEF EndClean, Return, Errors, Control
<1>14. CASE StartAdd
  BY <1>14 DEF StartAdd, Start, Enqueue, Return, Errors, Control
<1>15. CASE SkipEntry
  BY <1>15 DEF SkipEntry, Errors, Control
<1>16. CASE AddFails
  BY <1>16 DEF AddFails, Addable, Errors, Control
<1>17. CASE AddRepo
  <2> DEFINE R == {Head(queue).alias}
  <2>1. pc = "add" /\ UNCHANGED <<pc, cmd>>
    BY <1>17 DEF AddRepo, Addable
  <2>2. CASE UNCHANGED <<failed, broken, exitCode>>
    BY <2>1, <2>2 DEF Errors
  <2>3. CASE \E rawOk, cacheOk \in SUBSET R :
               /\ failed' = failed \cup RefreshError(R, {}, rawOk, cacheOk)
               /\ broken' = broken \cup RefreshError(R, {}, rawOk, cacheOk)
               /\ exitCode' = IF RefreshError(R, {}, rawOk, cacheOk) = {} THEN exitCode ELSE ERR_ZYPP
    BY <2>1, <2>3 DEF Errors
  <2>4. QED
    BY <1>17, <2>2, <2>3 DEF AddRepo
<1>18. CASE EndAdd
  BY <1>18 DEF EndAdd, Return, Errors, Control
<1>19. CASE StartRemove
  BY <1>19 DEF StartRemove, Start, Enqueue, Return, Errors, Control
<1>20. CASE RemoveRepo
  BY <1>20 DEF RemoveRepo, Leave, Errors, Control
<1>21. CASE StartModify
  BY <1>21 DEF StartModify, Start, Enqueue, Return, Errors, Control
<1>22. CASE Modify
  BY <1>22 DEF Modify, Return, Errors, Control
<1>23. CASE EndRemoveOrModify
  BY <1>23 DEF EndRemoveOrModify, Return, Errors, Control
<1>24. CASE RenameWrongly
  BY <1>24 DEF RenameWrongly, Start, Return, Errors, Control
<1>25. CASE RenameRepo
  BY <1>25 DEF RenameRepo, Start, Return, Errors, Control
<1>26. CASE AddService
  BY <1>26 DEF AddService, Start, Return, Errors, Control
<1>27. CASE StartRemoveServices
  BY <1>27 DEF StartRemoveServices, Start, Enqueue, Return, Errors, Control
<1>28. CASE RemoveService
  BY <1>28 DEF RemoveService, Leave, Errors, Control
<1>29. CASE StartModifyServices
  BY <1>29 DEF StartModifyServices, Start, Enqueue, Return, Errors, Control
<1>30. CASE ModifyOneService
  BY <1>30 DEF ModifyOneService, Errors, Control
<1>31. CASE EndServicesEdit
  BY <1>31 DEF EndServicesEdit, Return, Errors, Control
<1>32. CASE UNCHANGED vars
  BY <1>32 DEF vars, Errors, Control
<1>33. QED
  BY <1>1, <1>2, <1>3, <1>4, <1>5, <1>6, <1>7, <1>8, <1>9, <1>10, <1>11, <1>12,
     <1>13, <1>14, <1>15, <1>16, <1>17, <1>18, <1>19, <1>20, <1>21, <1>22, <1>23,
     <1>24, <1>25, <1>26, <1>27, <1>28, <1>29, <1>30, <1>31, <1>32
  DEF Next, Refresh, Clean, Edit, EditServices


\* The actions by which each loop is entered and goes on.
Loops ==
  /\ pc' = "start" => \/ \E c \in CommandLines : ReadCommand(c)
                      \/ UNCHANGED vars
  /\ pc' \in {"services", "serviceRepos"} =>
       \/ StartRefresh \/ StartRefreshServices
       \/ RefreshService \/ RefreshServiceRepos \/ RefreshPlainRepo \/ UNCHANGED vars
  /\ pc' = "select" => EndServices \/ UNCHANGED vars
  /\ pc' = "refresh" => SelectRepos \/ RefreshRepo \/ UNCHANGED vars
  /\ pc' = "clean" => StartClean \/ CleanRepo \/ UNCHANGED vars
  /\ pc' = "add" => StartAdd \/ SkipEntry \/ AddFails \/ AddRepo \/ UNCHANGED vars
  /\ pc' = "remove" => StartRemove \/ RemoveRepo \/ UNCHANGED vars
  /\ pc' = "modify" => StartModify \/ Modify \/ UNCHANGED vars
  /\ pc' = "removeServices" => StartRemoveServices \/ RemoveService \/ UNCHANGED vars
  /\ pc' = "modifyServices" => StartModifyServices \/ ModifyOneService \/ UNCHANGED vars
  /\ pc' = "done" /\ exitCode' = EXIT_OK /\ cmd'.verb \in {"refresh", "clean"} =>
       EndRefresh \/ EndClean \/ UNCHANGED vars

\* No other action leads there.
LEMMA LoopsStep == Control /\ [Next]_vars => Loops
<1> SUFFICES ASSUME Control, [Next]_vars
             PROVE  Loops
  OBVIOUS
<1> USE DEF given
<1>1. CASE \E c \in CommandLines : ReadCommand(c)
  BY <1>1 DEF ReadCommand, Control, Loops
<1>2. CASE StartRefresh
  BY <1>2 DEF StartRefresh, Start, Enqueue, Return, Control, Loops
<1>3. CASE StartRefreshServices
  BY <1>3 DEF StartRefreshServices, Start, Enqueue, Control, Loops
<1>4. CASE RefreshService
  BY <1>4 DEF RefreshService, Control, Loops
<1>5. CASE RefreshServiceRepos
  BY <1>5 DEF RefreshServiceRepos, Control, Loops
<1>6. CASE RefreshPlainRepo
  BY <1>6 DEF RefreshPlainRepo, Control, Loops
<1>7. CASE EndServices
  BY <1>7 DEF EndServices, Return, Control, Loops
<1>8. CASE SelectRepos
  BY <1>8 DEF SelectRepos, Enqueue, Control, Loops
<1>9. CASE RefreshRepo
  BY <1>9 DEF RefreshRepo, Leave, Control, Loops
<1>10. CASE EndRefresh
  BY <1>10 DEF EndRefresh, Return, RefreshCode, Control, Loops
<1>11. CASE StartClean
  BY <1>11 DEF StartClean, Start, Enqueue, Control, Loops
<1>12. CASE CleanRepo
  BY <1>12 DEF CleanRepo, Control, Loops
<1>13. CASE EndClean
  BY <1>13 DEF EndClean, Return, Control, Loops
<1>14. CASE StartAdd
  BY <1>14 DEF StartAdd, Start, Enqueue, Return, Control, Loops
<1>15. CASE SkipEntry
  BY <1>15 DEF SkipEntry, Control, Loops
<1>16. CASE AddFails
  BY <1>16 DEF AddFails, Addable, Control, Loops
<1>17. CASE AddRepo
  BY <1>17 DEF AddRepo, Addable, Control, Loops
<1>18. CASE EndAdd
  BY <1>18 DEF EndAdd, Return, Control, Loops
<1>19. CASE StartRemove
  BY <1>19 DEF StartRemove, Start, Enqueue, Return, Control, Loops
<1>20. CASE RemoveRepo
  BY <1>20 DEF RemoveRepo, Leave, Control, Loops
<1>21. CASE StartModify
  BY <1>21 DEF StartModify, Start, Enqueue, Return, Control, Loops
<1>22. CASE Modify
  BY <1>22 DEF Modify, Return, Control, Loops
<1>23. CASE EndRemoveOrModify
  BY <1>23 DEF EndRemoveOrModify, Return, Control, Loops
<1>24. CASE RenameWrongly
  BY <1>24 DEF RenameWrongly, Start, Return, Control, Loops
<1>25. CASE RenameRepo
  BY <1>25 DEF RenameRepo, Start, Return, Control, Loops
<1>26. CASE AddService
  BY <1>26 DEF AddService, Start, Return, Control, Loops
<1>27. CASE StartRemoveServices
  BY <1>27 DEF StartRemoveServices, Start, Enqueue, Return, Control, Loops
<1>28. CASE RemoveService
  BY <1>28 DEF RemoveService, Leave, Control, Loops
<1>29. CASE StartModifyServices
  BY <1>29 DEF StartModifyServices, Start, Enqueue, Return, Control, Loops
<1>30. CASE ModifyOneService
  BY <1>30 DEF ModifyOneService, Control, Loops
<1>31. CASE EndServicesEdit
  BY <1>31 DEF EndServicesEdit, Return, Control, Loops
<1>32. CASE UNCHANGED vars
  BY <1>32 DEF vars, Control, Loops
<1>33. QED
  BY <1>1, <1>2, <1>3, <1>4, <1>5, <1>6, <1>7, <1>8, <1>9, <1>10, <1>11, <1>12,
     <1>13, <1>14, <1>15, <1>16, <1>17, <1>18, <1>19, <1>20, <1>21, <1>22, <1>23,
     <1>24, <1>25, <1>26, <1>27, <1>28, <1>29, <1>30, <1>31, <1>32
  DEF Next, Refresh, Clean, Edit, EditServices

\* What these loops, and a command that is just started, do to a repository.
Changes ==
  /\ pc' \notin {"idle", "start"} => UNCHANGED <<cmd, initial, before>>
  /\ pc \in {"refresh", "clean", "remove", "modify", "start"} =>
       \/ UNCHANGED <<repos, data>>
       \/ RefreshRepo \/ CleanRepo \/ RemoveRepo \/ Modify \/ RenameRepo

\* Other actions do nothing to it.
LEMMA ChangesStep == Control /\ [Next]_vars => Changes
<1> SUFFICES ASSUME Control, [Next]_vars
             PROVE  Changes
  OBVIOUS
<1> USE DEF config, data, given, work
<1>1. CASE \E c \in CommandLines : ReadCommand(c)
  BY <1>1 DEF ReadCommand, Control, Changes
<1>2. CASE StartRefresh
  BY <1>2 DEF StartRefresh, Start, Enqueue, Return, Control, Changes
<1>3. CASE StartRefreshServices
  BY <1>3 DEF StartRefreshServices, Start, Enqueue, Control, Changes
<1>4. CASE RefreshService
  BY <1>4 DEF RefreshService, Control, Changes
<1>5. CASE RefreshServiceRepos
  BY <1>5 DEF RefreshServiceRepos, Control, Changes
<1>6. CASE RefreshPlainRepo
  BY <1>6 DEF RefreshPlainRepo, Control, Changes
<1>7. CASE EndServices
  BY <1>7 DEF EndServices, Return, Control, Changes
<1>8. CASE SelectRepos
  BY <1>8 DEF SelectRepos, Enqueue, Control, Changes
<1>9. CASE RefreshRepo
  BY <1>9 DEF RefreshRepo, Leave, Control, Changes
<1>10. CASE EndRefresh
  BY <1>10 DEF EndRefresh, Return, RefreshCode, Control, Changes
<1>11. CASE StartClean
  BY <1>11 DEF StartClean, Start, Enqueue, Control, Changes
<1>12. CASE CleanRepo
  BY <1>12 DEF CleanRepo, Control, Changes
<1>13. CASE EndClean
  BY <1>13 DEF EndClean, Return, Control, Changes
<1>14. CASE StartAdd
  BY <1>14 DEF StartAdd, Start, Enqueue, Return, Control, Changes
<1>15. CASE SkipEntry
  BY <1>15 DEF SkipEntry, Control, Changes
<1>16. CASE AddFails
  BY <1>16 DEF AddFails, Addable, Control, Changes
<1>17. CASE AddRepo
  BY <1>17 DEF AddRepo, Addable, Control, Changes
<1>18. CASE EndAdd
  BY <1>18 DEF EndAdd, Return, Control, Changes
<1>19. CASE StartRemove
  BY <1>19 DEF StartRemove, Start, Enqueue, Return, Control, Changes
<1>20. CASE RemoveRepo
  BY <1>20 DEF RemoveRepo, Leave, Control, Changes
<1>21. CASE StartModify
  BY <1>21 DEF StartModify, Start, Enqueue, Return, Control, Changes
<1>22. CASE Modify
  BY <1>22 DEF Modify, Return, Control, Changes
<1>23. CASE EndRemoveOrModify
  BY <1>23 DEF EndRemoveOrModify, Return, Control, Changes
<1>24. CASE RenameWrongly
  BY <1>24 DEF RenameWrongly, Start, Return, Control, Changes
<1>25. CASE RenameRepo
  BY <1>25 DEF RenameRepo, Start, Return, Control, Changes
<1>26. CASE AddService
  BY <1>26 DEF AddService, Start, Return, Control, Changes
<1>27. CASE StartRemoveServices
  BY <1>27 DEF StartRemoveServices, Start, Enqueue, Return, Control, Changes
<1>28. CASE RemoveService
  BY <1>28 DEF RemoveService, Leave, Control, Changes
<1>29. CASE StartModifyServices
  BY <1>29 DEF StartModifyServices, Start, Enqueue, Return, Control, Changes
<1>30. CASE ModifyOneService
  BY <1>30 DEF ModifyOneService, Control, Changes
<1>31. CASE EndServicesEdit
  BY <1>31 DEF EndServicesEdit, Return, Control, Changes
<1>32. CASE UNCHANGED vars
  BY <1>32 DEF vars, Control, Changes
<1>33. QED
  BY <1>1, <1>2, <1>3, <1>4, <1>5, <1>6, <1>7, <1>8, <1>9, <1>10, <1>11, <1>12,
     <1>13, <1>14, <1>15, <1>16, <1>17, <1>18, <1>19, <1>20, <1>21, <1>22, <1>23,
     <1>24, <1>25, <1>26, <1>27, <1>28, <1>29, <1>30, <1>31, <1>32
  DEF Next, Refresh, Clean, Edit, EditServices


\* The queues hold what their loops expect.
LEMMA QueuesStep ==
  ASSUME Tables, Control, Queues, [Next]_vars
  PROVE  Queues'
<1> USE DEF config, data, given, work
<1>0. Loops
  BY LoopsStep
<1>1. CASE UNCHANGED vars
  BY <1>1 DEF vars, Queues, Aggregate
<1>2. ASSUME pc' \in {"services", "serviceRepos"}, ~UNCHANGED vars
      PROVE  queue' \in Seq(Item) /\ (pc' = "serviceRepos" => queue' # <<>>)
  <2>1. CASE StartRefresh
    <3> DEFINE S == { s \in DOMAIN services : /\ services[s].enabled
                                              /\ Flag("services") \/ services[s].auto }
    <3>1. pc' = "services" /\ queue' = Items(S, {})
      BY <1>2, <2>1 DEF StartRefresh, Start, Return, Enqueue
    <3>2. S \subseteq Words
      BY DEF Tables
    <3>3. QED
      BY <3>1, <3>2, ItemsFacts
  <2>2. CASE StartRefreshServices
    <3> DEFINE S == { s \in DOMAIN services : ToServe(s) /\ services[s].enabled }
               R == { a \in ServiceRepos(NoWord) :
                        ToServe(a) /\ repos[a].enabled /\ Flag("with-repos") }
    <3>1. pc' = "services" /\ queue' = Items(S, R)
      BY <1>2, <2>2 DEF StartRefreshServices, Start, Enqueue
    <3>2. S \subseteq Words /\ R \subseteq Words
      BY DEF Tables, ServiceRepos
    <3>3. QED
      BY <3>1, <3>2, ItemsFacts
  <2>3. CASE RefreshService
    BY <2>3, QueueFacts DEF RefreshService, Queues
  <2>4. CASE RefreshServiceRepos
    BY <2>4, QueueFacts DEF RefreshServiceRepos, Queues
  <2>5. CASE RefreshPlainRepo
    BY <2>5, QueueFacts DEF RefreshPlainRepo
  <2>6. QED
    BY <1>0, <1>2, <2>1, <2>2, <2>3, <2>4, <2>5 DEF Loops
<1>3. ASSUME pc' = "removeServices", ~UNCHANGED vars
      PROVE  queue' \in Seq(Item)
  <2>1. CASE StartRemoveServices
    <3> DEFINE found == MatchedServices(Flag("loose-auth"), Flag("loose-query"))
               S == { s \in DOMAIN services : Service(s) \in found }
               R == { a \in ServiceRepos(NoWord) : PlainRepo(a) \in found }
    <3>1. queue' = Items(S, R)
      BY <1>3, <2>1 DEF StartRemoveServices, Start, Return, Enqueue
    <3>2. S \subseteq Words /\ R \subseteq Words
      BY DEF Tables, ServiceRepos
    <3>3. QED
      BY <3>1, <3>2, ItemsFacts
  <2>2. CASE RemoveService
    BY <1>3, <2>2, QueueFacts DEF RemoveService, Leave
  <2>3. QED
    BY <1>0, <1>3, <2>1, <2>2 DEF Loops
<1>4. ASSUME pc' = "modifyServices", ~UNCHANGED vars
      PROVE  queue' \in Seq(Item)
  <2>1. CASE StartModifyServices
    <3> DEFINE found == MatchedServices(FALSE, FALSE)
               S == { s \in DOMAIN services : IF Aggregate THEN Selected(services[s].url)
                                              ELSE Service(s) \in found }
               R == { a \in ServiceRepos(NoWord) :
                        IF Aggregate THEN Selected(Head(repos[a].urls))
                        ELSE PlainRepo(a) \in found }
    <3>1. queue' = Items(S, R)
      BY <1>4, <2>1 DEF StartModifyServices, Start, Return, Enqueue
    <3>2. S \subseteq Words /\ R \subseteq Words
      BY DEF Tables, ServiceRepos
    <3>3. QED
      BY <3>1, <3>2, ItemsFacts
  <2>2. CASE ModifyOneService
    BY <1>4, <2>2, QueueFacts DEF ModifyOneService
  <2>3. QED
    BY <1>0, <1>4, <2>1, <2>2 DEF Loops
<1>5. ASSUME pc' = "refresh", ~UNCHANGED vars
      PROVE  queue' \in Seq(Words)
  <2>1. CASE SelectRepos
    <3>1. queue' = Sorted(ToRefresh(specified', notFound'))
      BY <2>1 DEF SelectRepos, Enqueue
    <3>2. ToRefresh(specified', notFound') \subseteq Words
      BY DEF ToRefresh, Tables
    <3>3. QED
      BY <3>1, <3>2, SortedFacts
  <2>2. CASE RefreshRepo
    BY <1>5, <2>2, QueueFacts DEF RefreshRepo, Leave
  <2>3. QED
    BY <1>0, <1>5, <2>1, <2>2 DEF Loops
<1>6. ASSUME pc' = "clean", ~UNCHANGED vars
      PROVE  queue' \in Seq(Words)
  <2>1. CASE StartClean
    <3>1. GetRepos(RepoArgs) \subseteq Words /\ Known \subseteq Words
      BY GetReposFacts DEF Tables
    <3>2. queue' \in {Sorted(GetRepos(RepoArgs)), <<>>, Sorted(Known)}
      BY <2>1 DEF StartClean, Enqueue
    <3>3. Sorted(GetRepos(RepoArgs)) \in Seq(Words) /\ Sorted(Known) \in Seq(Words)
      BY <3>1, SortedFacts
    <3>4. <<>> \in Seq(Words)
      OBVIOUS
    <3>5. QED
      BY <3>2, <3>3, <3>4
  <2>2. CASE CleanRepo
    BY <2>2, QueueFacts DEF CleanRepo
  <2>3. QED
    BY <1>0, <1>6, <2>1, <2>2 DEF Loops
<1>7. ASSUME pc' = "remove", ~UNCHANGED vars
      PROVE  queue' \in Seq(Words)
  <2>1. CASE StartRemove
    <3>1. CollectRepos \subseteq Words /\ Matches \subseteq Words
      BY MatchFacts DEF CollectRepos, Matches, Tables
    <3>2. queue' \in {Sorted(CollectRepos), Sorted(Matches)}
      BY <1>7, <2>1 DEF StartRemove, Start, Enqueue, Return
    <3>3. QED
      BY <3>1, <3>2, SortedFacts
  <2>2. CASE RemoveRepo
    BY <1>7, <2>2, QueueFacts DEF RemoveRepo, Leave
  <2>3. QED
    BY <1>0, <1>7, <2>1, <2>2 DEF Loops
<1>8. ASSUME pc' = "add", ~UNCHANGED vars
      PROVE  queue' \in Seq(NewEntry)
  <2>1. CASE StartAdd
    BY <1>8, <2>1, LineType DEF StartAdd, Enqueue, Return
  <2>2. CASE SkipEntry
    BY <2>2, QueueFacts DEF SkipEntry
  <2>3. CASE AddFails
    BY <2>3, QueueFacts DEF AddFails, Addable
  <2>4. CASE AddRepo
    BY <2>4, QueueFacts DEF AddRepo, Addable
  <2>5. QED
    BY <1>0, <1>8, <2>1, <2>2, <2>3, <2>4 DEF Loops
<1>9. ASSUME pc' = "modify", ~UNCHANGED vars
      PROVE  IF Aggregate' THEN queue' \in Seq(Words)
             ELSE queue' \in Seq(Arg) /\ Range(queue') \subseteq Range(cmd'.args)
  <2>1. CASE StartModify
    <3>1. CollectRepos \subseteq Words
      BY DEF CollectRepos, Tables
    <3>2. Sorted(CollectRepos) \in Seq(Words) /\ cmd.args \in Seq(Arg)
      BY <3>1, SortedFacts, LineType
    <3>3. cmd' = cmd /\ queue' = IF Aggregate THEN Sorted(CollectRepos) ELSE cmd.args
      BY <1>9, <2>1 DEF StartModify, Start, Enqueue, Return
    <3>4. QED
      BY <3>2, <3>3 DEF Aggregate
  <2>2. CASE Modify
    <3>1. pc = "modify" /\ queue # <<>> /\ queue' = Tail(queue) /\ cmd' = cmd
      BY <1>9, <2>2 DEF Modify, Return
    <3>2. QED
      BY <3>1, QueueFacts DEF Queues, Aggregate
  <2>3. QED
    BY <1>0, <1>9, <2>1, <2>2 DEF Loops
<1>10. QED
  BY <1>1, <1>2, <1>3, <1>4, <1>5, <1>6, <1>7, <1>8, <1>9 DEF Queues


-----------------------------------------------------------------------------
(* What the arguments mean                                                 *)

\* Two lists put together have the elements of the second.
LEMMA ConcatFacts ==
  ASSUME NEW S, NEW s \in Seq(S), NEW t \in Seq(S)
  PROVE  /\ s \o t \in Seq(S)
         /\ \A e \in Range(t) : e \in Range(s \o t)
         /\ s = <<>> => s \o t = t
<1>1. /\ s \o t \in Seq(S) /\ Len(s) \in Nat /\ Len(t) \in Nat
      /\ DOMAIN t = 1 .. Len(t) /\ DOMAIN (s \o t) = 1 .. Len(s) + Len(t)
  OBVIOUS
<1>2. ASSUME NEW i \in 1 .. Len(t)
      PROVE  t[i] \in Range(s \o t)
  <2>1. Len(s) + i \in 1 .. Len(s) + Len(t)
    BY <1>1
  <2>2. (s \o t)[Len(s) + i] = t[i]
    BY <1>1, <2>1
  <2>3. QED
    BY <1>1, <2>1, <2>2 DEF Range
<1>3. s = <<>> => s \o t = t
  OBVIOUS
<1>4. QED
  BY <1>1, <1>2, <1>3 DEF Range

\* The arguments that may name repositories.
LEMMA ArgsFacts ==
  ASSUME Control
  PROVE  /\ RepoArgs \in Seq(Arg)
         /\ \A arg \in Range(cmd.args) : arg \in Range(RepoArgs)
         /\ cmd.verb \notin {"refresh", "clean"} => RepoArgs = cmd.args
<1>1. cmd.args \in Seq(Arg) /\ cmd.repos \in Seq(Arg)
  BY LineType
<1>2. cmd.verb \notin {"refresh", "clean"} => cmd.repos = <<>>
  BY LineType
<1>3. \A s, t \in Seq(Arg) : /\ s \o t \in Seq(Arg)
                             /\ \A arg \in Range(t) : arg \in Range(s \o t)
                             /\ s = <<>> => s \o t = t
  BY ConcatFacts
<1>4. QED
  BY <1>1, <1>2, <1>3 DEF RepoArgs

\* Query and user of a URL are compared strictly or loosely.
LEMMA LooseUrl ==
  ASSUME NEW urls, NEW u, NEW lq \in BOOLEAN, NEW la \in BOOLEAN, HasUrl(urls, u, lq, la)
  PROVE  HasUrl(urls, u, TRUE, TRUE)
<1>1. PICK i \in DOMAIN urls : View(urls[i], lq, la) = View(u, lq, la)
  BY DEF HasUrl
<1>2. urls[i].path = u.path
  BY <1>1 DEF View
<1>3. View(urls[i], TRUE, TRUE) = View(u, TRUE, TRUE)
  BY <1>2 DEF View
<1>4. QED
  BY <1>3 DEF HasUrl

\* A repository whose name the user saw, or whose name is its alias, is found only by
\* an argument that means it.
LEMMA MatchMeant ==
  ASSUME Tables, NEW arg, NEW lq \in BOOLEAN, NEW la \in BOOLEAN,
         NEW a, a = MatchRepo(arg, lq, la), a # NoWord,
         \/ repos[a].name = a
         \/ a \in DOMAIN before /\ repos[a].name = before[a].name
  PROVE  a \in Meanings(arg)
<1>1. /\ a \in Known
      /\ IF arg.word # NoWord
         THEN a = arg.word \/ a = RepoNumber(arg.word) \/ repos[a].name = arg.word
         ELSE HasUrl(repos[a].urls, arg.url, lq, la)
  BY MatchFacts
<1>2. CASE arg.word # NoWord
  <2>1. a = RepoNumber(arg.word) => arg.word \in DOMAIN initial /\ a = initial[arg.word]
    BY DEF RepoNumber
  <2>2. QED
    BY <1>1, <1>2, <2>1 DEF Meanings
<1>3. CASE arg.word = NoWord
  <2>1. HasUrl(repos[a].urls, arg.url, TRUE, TRUE)
    BY <1>1, <1>3, LooseUrl
  <2>2. QED
    BY <1>1, <1>3, <2>1 DEF Meanings
<1>4. QED
  BY <1>2, <1>3

\* What an argument means it goes on to mean while URLs stay what they are, or what they
\* were when the command started.
LEMMA MeaningsKept ==
  ASSUME UNCHANGED <<cmd, initial, before>>,
         \A a \in Known : \/ a \in DOMAIN before /\ repos[a].urls = before[a].urls
                          \/ a \in Known' /\ repos'[a].urls = repos[a].urls
  PROVE  /\ \A arg : Meanings(arg) \subseteq Meanings(arg)'
         /\ RepoArgs' = RepoArgs /\ Meant \subseteq Meant'
<1>1. RepoArgs' = RepoArgs
  BY DEF RepoArgs
<1>2. ASSUME NEW arg
      PROVE  Meanings(arg) \subseteq Meanings(arg)'
  <2>1. CASE arg.word # NoWord
    BY <2>1 DEF Meanings
  <2>2. CASE arg.word = NoWord
    <3>1. SUFFICES ASSUME NEW a \in Known, HasUrl(repos[a].urls, arg.url, TRUE, TRUE)
                   PROVE  a \in Meanings(arg)'
      BY <2>2 DEF Meanings
    <3>2. CASE a \in DOMAIN before /\ repos[a].urls = before[a].urls
      BY <2>2, <3>1, <3>2 DEF Meanings
    <3>3. CASE a \in Known' /\ repos'[a].urls = repos[a].urls
      BY <2>2, <3>1, <3>3 DEF Meanings
    <3>4. QED
      BY <3>2, <3>3
  <2>3. QED
    BY <2>1, <2>2
<1>3. Meant \subseteq Meant'
  BY <1>1, <1>2 DEF Meant
<1>4. QED
  BY <1>1, <1>2, <1>3

\* The argument on which modifyrepo works next means what it is taken for.
LEMMA NextModified ==
  ASSUME Tables, Control, Queues, Seen, pc = "modify", queue # <<>>, ~Aggregate,
         NEW a, a = MatchRepo(Head(queue), FALSE, FALSE), a # NoWord
  PROVE  a \in Known /\ a \in Meant
<1>1. a \in Known
  BY MatchFacts
<1>2. Head(queue) \in Range(RepoArgs)
  BY QueueFacts, ArgsFacts DEF Queues
<1>3. CASE a \in Meant
  BY <1>1, <1>3
<1>4. CASE a \in DOMAIN before /\ repos[a].name = before[a].name
  <2>1. a \in Meanings(Head(queue))
    BY <1>4, MatchMeant
  <2>2. QED
    BY <1>1, <1>2, <2>1 DEF Meant
<1>5. QED
  BY <1>1, <1>3, <1>4 DEF Seen

\* The list in which names are looked up stays close to the one the user saw.
LEMMA SeenStep ==
  ASSUME Tables, Control, Queues, Seen, [Next]_vars
  PROVE  Seen'
<1> USE DEF config, data, given, work
<1>0. Loops
  BY LoopsStep
<1>1. CASE UNCHANGED vars
  <2>1. UNCHANGED <<repos, cmd, pc, initial, before>> /\ Known' = Known
    BY <1>1 DEF vars, Known
  <2>2. Meant' = Meant /\ Aggregate' = Aggregate
    BY <2>1 DEF Meant, Meanings, RepoArgs, Aggregate
  <2>3. QED
    BY <2>1, <2>2 DEF Seen
<1>2. ASSUME pc' = "start", ~UNCHANGED vars
      PROVE  repos' = before'
  BY <1>0, <1>2 DEF Loops, ReadCommand
<1>3. ASSUME pc' \in {"services", "serviceRepos", "select"}, ~UNCHANGED vars,
             NEW a \in Known'
      PROVE  \/ repos'[a].name = a
             \/ a \in DOMAIN before' /\ repos'[a].name = before'[a].name
  <2>1. CASE UNCHANGED repos
    <3>1. pc \in {"start", "services", "serviceRepos"} /\ before' = before /\ Known' = Known
      BY <1>0, <1>3, <2>1 DEF Loops, StartRefresh, StartRefreshServices, Start, Return, Enqueue,
           RefreshService, RefreshServiceRepos, RefreshPlainRepo, EndServices, Known
    <3>2. QED
      BY <1>3, <2>1, <3>1 DEF Seen, Known
  <2>2. CASE RefreshService /\ ServiceRefreshed(Head(queue).alias)
    <3>1. Head(queue).alias \in Words
      BY <2>2, QueueFacts DEF RefreshService, Item
    <3>2. \/ repos'[a].name = a
          \/ a \in Known /\ repos'[a] = repos[a]
      BY <1>3, <2>2, <3>1, ServiceRefreshedTypes
    <3>3. pc = "services" /\ before' = before
      BY <2>2 DEF RefreshService
    <3>4. QED
      BY <3>2, <3>3 DEF Seen
  <2>3. QED
    BY <1>0, <1>3, <2>1, <2>2 DEF Loops, StartRefresh, StartRefreshServices, Return, Enqueue,
         RefreshService, RefreshServiceRepos, RefreshPlainRepo, EndServices
<1>4. ASSUME pc' = "remove", ~UNCHANGED vars, NEW a \in Known'
      PROVE  a \in DOMAIN before' /\ repos'[a] = before'[a]
  <2>1. CASE StartRemove
    BY <1>4, <2>1 DEF StartRemove, Start, Return, Enqueue, Seen, Known
  <2>2. CASE RemoveRepo
    <3>1. RemoveRepos({Head(queue)}) /\ pc = "remove" /\ before' = before
      BY <1>4, <2>2 DEF RemoveRepo, Leave
    <3>2. a \in Known /\ repos'[a] = repos[a]
      BY <1>4, <3>1, RemoveTypes
    <3>3. QED
      BY <3>1, <3>2 DEF Seen
  <2>3. QED
    BY <1>0, <1>4, <2>1, <2>2 DEF Loops
<1>5. ASSUME pc' = "modify", ~Aggregate', ~UNCHANGED vars, NEW a \in Known'
      PROVE  \/ a \in Meant'
             \/ a \in DOMAIN before' /\ repos'[a].name = before'[a].name
  <2>1. CASE StartModify
    BY <1>5, <2>1 DEF StartModify, Start, Return, Enqueue, Seen, Known
  <2>2. CASE Modify
    <3> DEFINE m == MatchRepo(Head(queue), FALSE, FALSE)
    <3>1. /\ pc = "modify" /\ queue # <<>> /\ UNCHANGED <<cmd, initial, before>>
          /\ ~Aggregate /\ m # NoWord /\ ModifyRepo(m)
      BY <1>5, <2>2 DEF Modify, Return, Aggregate
    <3>2. /\ Known' = Known /\ \A b \in Known : repos'[b].urls = repos[b].urls
          /\ \A b \in Known : b # m => repos'[b] = repos[b]
      <4> HIDE DEF m
      <4> QED
        BY <3>1, ModifyTypes
    <3>3. Meant \subseteq Meant'
      BY <3>1, <3>2, MeaningsKept
    <3>4. m \in Meant
      BY <3>1, NextModified
    <3>5. CASE a = m
      BY <3>3, <3>4, <3>5
    <3>6. CASE a # m
      BY <1>5, <3>1, <3>2, <3>3, <3>6 DEF Seen
    <3>7. QED
      BY <3>5, <3>6
  <2>3. QED
    BY <1>0, <1>5, <2>1, <2>2 DEF Loops
<1>6. QED
  BY <1>1, <1>2, <1>3, <1>4, <1>5 DEF Seen


-----------------------------------------------------------------------------
(* What refresh, clean and remove have to do                               *)

\* What the arguments are taken for, looked up in a list close to the one the user saw.
LEMMA NamesMeant ==
  ASSUME Tables, Control,
         \A a \in Known : \/ repos[a].name = a
                          \/ a \in DOMAIN before /\ repos[a].name = before[a].name
  PROVE  /\ GetRepos(RepoArgs) \subseteq Meant
         /\ ~Unmatched(RepoArgs) =>
              \A i \in DOMAIN RepoArgs :
                \E a \in Meanings(RepoArgs[i]) \cap GetRepos(RepoArgs) : a \in Known
         /\ RepoArgs = <<>> => GetRepos(RepoArgs) = {} /\ ~Unmatched(RepoArgs)
         /\ RepoArgs # <<>> /\ GetRepos(RepoArgs) = {} => Unmatched(RepoArgs)
<1> DEFINE M(i) == MatchRepo(RepoArgs[i], FALSE, FALSE)
<1>1. RepoArgs \in Seq(Arg)
  BY ArgsFacts
<1>2. \A i \in DOMAIN RepoArgs : M(i) # NoWord =>
        M(i) \in Known /\ M(i) \in Meanings(RepoArgs[i])
  <2> SUFFICES ASSUME NEW i \in DOMAIN RepoArgs, NEW a, a = M(i), a # NoWord
               PROVE  a \in Known /\ a \in Meanings(RepoArgs[i])
    OBVIOUS
  <2>1. a \in Known
    BY MatchFacts
  <2>2. QED
    BY <2>1, MatchMeant
<1>3. /\ \A a \in GetRepos(RepoArgs) : \E i \in DOMAIN RepoArgs : a = M(i) /\ a # NoWord
      /\ \A i \in DOMAIN RepoArgs : M(i) # NoWord => M(i) \in GetRepos(RepoArgs)
      /\ ~Unmatched(RepoArgs) => \A i \in DOMAIN RepoArgs : M(i) # NoWord
      /\ Unmatched(RepoArgs) => \E i \in DOMAIN RepoArgs : M(i) = NoWord
  BY DEF GetRepos, Unmatched
<1> HIDE DEF M
<1>4. GetRepos(RepoArgs) \subseteq Meant
  BY <1>2, <1>3 DEF Meant, Range
<1>5. RepoArgs = <<>> => DOMAIN RepoArgs = {}
  OBVIOUS
<1>6. RepoArgs # <<>> => 1 \in DOMAIN RepoArgs
  BY <1>1
<1>7. QED
  BY <1>2, <1>3, <1>4, <1>5, <1>6

\* While repositories are refreshed or cleaned no URL changes, and none comes or goes.
LEMMA SameUrls ==
  ASSUME Tables, RefreshRepo \/ CleanRepo
  PROVE  /\ UNCHANGED <<cmd, initial, before, specified, notFound>> /\ Known' = Known
         /\ \A a \in Known : repos'[a].urls = repos[a].urls /\ (repos'[a].enabled => repos[a].enabled)
<1>1. UNCHANGED <<cmd, initial, before, specified, notFound>>
  BY DEF RefreshRepo, CleanRepo, given
<1>2. \/ repos' = repos
      \/ repos' = [repos EXCEPT ![Head(queue)].enabled = FALSE]
  BY DEF RefreshRepo, CleanRepo, config
<1>3. CASE repos' = repos
  BY <1>1, <1>3 DEF Known
<1>4. CASE repos' = [repos EXCEPT ![Head(queue)].enabled = FALSE]
  BY <1>1, <1>4, DisabledRow DEF Known
<1>5. QED
  BY <1>2, <1>3, <1>4

\* refresh and clean take arguments for what they mean.
LEMMA TakenStep ==
  ASSUME Tables, Control, Seen, Taken, [Next]_vars
  PROVE  Taken'
<1> USE DEF config, data, given, work
<1>0. Loops
  BY LoopsStep
<1>1. CASE UNCHANGED vars
  <2>1. UNCHANGED <<repos, cmd, pc, initial, before, specified, notFound>> /\ Known' = Known
    BY <1>1 DEF vars, Known
  <2>2. Meant' = Meant /\ RepoArgs' = RepoArgs /\ \A arg : Meanings(arg)' = Meanings(arg)
    BY <2>1 DEF Meant, Meanings, RepoArgs
  <2>3. QED
    BY <2>1, <2>2 DEF Taken
<1>2. CASE SelectRepos \/ StartClean
  <2>1. UNCHANGED <<repos, cmd, initial, before>> /\ Known' = Known
    BY <1>2 DEF SelectRepos, StartClean, Enqueue, Known
  <2>2. specified' = GetRepos(RepoArgs) /\ notFound' = Unmatched(RepoArgs)
    BY <1>2 DEF SelectRepos, StartClean
  <2>3. Meant' = Meant /\ RepoArgs' = RepoArgs /\ \A arg : Meanings(arg)' = Meanings(arg)
    BY <2>1 DEF Meant, Meanings, RepoArgs
  <2>4. \A a \in Known : \/ repos[a].name = a
                         \/ a \in DOMAIN before /\ repos[a].name = before[a].name
    BY <1>2 DEF Seen, SelectRepos, StartClean, Start, Known
  <2>5. QED
    BY <2>1, <2>2, <2>3, <2>4, NamesMeant DEF Taken
<1>3. CASE pc' \in {"refresh", "clean"} /\ (RefreshRepo \/ CleanRepo)
  <2>1. /\ UNCHANGED <<cmd, initial, before, specified, notFound>> /\ Known' = Known
        /\ \A a \in Known : repos'[a].urls = repos[a].urls
    BY <1>3, SameUrls
  <2>2. /\ \A arg : Meanings(arg) \subseteq Meanings(arg)'
        /\ RepoArgs' = RepoArgs /\ Meant \subseteq Meant'
    BY <2>1, MeaningsKept
  <2>3. pc \in {"refresh", "clean"}
    BY <1>3 DEF RefreshRepo, CleanRepo
  <2>4. QED
    BY <2>1, <2>2, <2>3 DEF Taken
<1>4. QED
  BY <1>0, <1>1, <1>2, <1>3 DEF Loops, Taken

\* Only what is named is queued.
LEMMA NamedQueueStep ==
  ASSUME Tables, Control, Queues, Seen, Taken, NamedQueue, Taken', [Next]_vars
  PROVE  NamedQueue'
<1> USE DEF config, data, given, work
<1>0. Loops
  BY LoopsStep
<1>1. CASE UNCHANGED vars
  <2>1. UNCHANGED <<repos, cmd, pc, initial, before, queue>> /\ Known' = Known
    BY <1>1 DEF vars, Known
  <2>2. Meant' = Meant /\ RepoArgs' = RepoArgs
    BY <2>1 DEF Meant, Meanings, RepoArgs
  <2>3. QED
    BY <2>1, <2>2 DEF NamedQueue
<1>2. SUFFICES ASSUME ~UNCHANGED vars, pc' \in {"refresh", "clean", "remove"},
                      RepoArgs' # <<>>, cmd'.plus = <<>>
               PROVE  Range(queue') \subseteq Meant'
  BY <1>1 DEF NamedQueue
<1>3. CASE SelectRepos
  <2>1. /\ cmd' = cmd /\ RepoArgs' = RepoArgs /\ pc' = "refresh"
        /\ specified' = GetRepos(RepoArgs) /\ notFound' = Unmatched(RepoArgs)
        /\ queue' = Sorted(ToRefresh(specified', notFound'))
    BY <1>3 DEF SelectRepos, Enqueue, RepoArgs
  <2>2. specified' = {} => notFound'
    BY <1>2, <1>3, <2>1, NamesMeant DEF Seen, SelectRepos
  <2>3. PlusContent = {} /\ ~Unmatched(cmd.plus)
    <3>1. DOMAIN cmd.plus = {}
      BY <1>2, <2>1
    <3>2. QED
      BY <3>1 DEF PlusContent, GetRepos, Unmatched
  <2>4. ToRefresh(specified', notFound') \subseteq specified'
    BY <2>2, <2>3 DEF ToRefresh
  <2>5. ToRefresh(specified', notFound') \subseteq Words
    BY DEF ToRefresh, Tables
  <2>6. Range(queue') = ToRefresh(specified', notFound')
    BY <2>1, <2>5, SortedFacts
  <2>7. specified' \subseteq Meant'
    BY <2>1 DEF Taken
  <2>8. QED
    BY <2>4, <2>6, <2>7
<1>4. CASE StartClean
  <2>1. /\ RepoArgs' = RepoArgs /\ pc' = "clean" /\ UNCHANGED <<repos, before>> /\ pc = "start"
        /\ specified' = GetRepos(RepoArgs) /\ notFound' = Unmatched(RepoArgs)
        /\ queue' = IF specified' # {} THEN Sorted(specified')
                    ELSE IF notFound' THEN <<>> ELSE Sorted(Known)
    BY <1>4 DEF StartClean, Start, Enqueue, RepoArgs
  <2>2. repos = before
    BY <2>1 DEF Seen
  <2>3. specified' = {} => notFound'
    BY <1>2, <2>1, <2>2, NamesMeant DEF Known
  <2>4. CASE specified' = {}
    BY <2>1, <2>3, <2>4 DEF Range
  <2>5. CASE specified' # {}
    <3>1. specified' \subseteq Words
      BY <2>1, GetReposFacts DEF Tables
    <3>2. Range(queue') = specified'
      BY <2>1, <2>5, <3>1, SortedFacts
    <3>3. QED
      BY <2>1, <3>2 DEF Taken
  <2>6. QED
    BY <2>4, <2>5
<1>5. CASE RefreshRepo \/ CleanRepo
  <2>1. /\ UNCHANGED <<cmd, initial, before>> /\ Known' = Known
        /\ \A a \in Known : repos'[a].urls = repos[a].urls
    BY <1>5, SameUrls
  <2>2. RepoArgs' = RepoArgs /\ Meant \subseteq Meant'
    BY <2>1, MeaningsKept
  <2>3. pc \in {"refresh", "clean"} /\ queue # <<>> /\ queue' = Tail(queue)
    BY <1>2, <1>5 DEF RefreshRepo, CleanRepo, Leave
  <2>4. QED
    BY <1>2, <2>1, <2>2, <2>3, QueueFacts DEF NamedQueue
<1>6. CASE StartRemove
  <2>1. /\ UNCHANGED <<repos, cmd, initial, before>> /\ pc = "start" /\ cmd.verb = "removerepo"
        /\ Known' = Known
        /\ cmd.args = <<>> <=> Aggregate
        /\ queue' = Sorted(IF Aggregate THEN CollectRepos ELSE Matches)
    BY <1>2, <1>6 DEF StartRemove, Start, Return, Enqueue, Known
  <2>2. Meant' = Meant /\ RepoArgs' = RepoArgs /\ RepoArgs = cmd.args
    <3>1. RepoArgs = cmd.args
      BY <2>1, ArgsFacts
    <3>2. Meant' = Meant /\ RepoArgs' = RepoArgs
      BY <2>1 DEF Meant, Meanings, RepoArgs
    <3>3. QED
      BY <3>1, <3>2
  <2>3. Matches \subseteq Meant
    <3>1. SUFFICES ASSUME NEW i \in DOMAIN cmd.args, NEW a,
                          a = MatchRepo(cmd.args[i], Flag("loose-query"), Flag("loose-auth")), a # NoWord
                   PROVE  a \in Meant
      BY DEF Matches
    <3>2. a \in Known /\ repos = before
      BY <2>1, <3>1, MatchFacts DEF Seen
    <3>3. Flag("loose-query") \in BOOLEAN /\ Flag("loose-auth") \in BOOLEAN
      BY DEF Flag
    <3>4. a \in Meanings(cmd.args[i])
      BY <3>1, <3>2, <3>3, MatchMeant DEF Known
    <3>5. QED
      BY <2>2, <3>4 DEF Meant, Range
  <2>4. Matches \subseteq Words
    BY MatchFacts DEF Matches, Tables
  <2>5. QED
    BY <1>2, <2>1, <2>2, <2>3, <2>4, SortedFacts
<1>7. CASE RemoveRepo
  <2>1. /\ UNCHANGED <<cmd, initial, before>> /\ pc = "remove"
        /\ queue # <<>> /\ queue' = Tail(queue)
    BY <1>2, <1>7 DEF RemoveRepo, Leave
  <2>2. \A a \in Known : a \in DOMAIN before /\ repos[a] = before[a]
    BY <2>1 DEF Seen
  <2>3. RepoArgs' = RepoArgs /\ Meant \subseteq Meant'
    BY <2>1, <2>2, MeaningsKept
  <2>4. QED
    BY <1>2, <2>1, <2>3, QueueFacts DEF NamedQueue
<1>8. QED
  BY <1>0, <1>2, <1>3, <1>4, <1>5, <1>6, <1>7 DEF Loops


\* As long as nothing has failed, what is not queued any more is up to date.
LEMMA RefreshTodoStep ==
  ASSUME Tables, Control, Queues, RefreshTodo, [Next]_vars
  PROVE  RefreshTodo'
<1> USE DEF config, data, given, work
<1>0. Loops
  BY LoopsStep
<1>1. CASE UNCHANGED vars
  BY <1>1 DEF vars, RefreshTodo, Known, UpToDate
<1>2. SUFFICES ASSUME ~UNCHANGED vars, pc' = "refresh", failed' = {}, ~notFound',
                      NEW a \in Known', specified' = {} \/ a \in specified'
               PROVE  a \in Range(queue') \/ UpToDate(a)'
  BY <1>1 DEF RefreshTodo
<1>3. CASE SelectRepos
  <2>1. /\ UNCHANGED <<repos, raw, cache, cmd>> /\ a \in Known
        /\ queue' = Sorted(ToRefresh(specified', notFound'))
    BY <1>2, <1>3 DEF SelectRepos, Enqueue, Known
  <2>2. ToRefresh(specified', notFound') \subseteq Words
    BY DEF ToRefresh, Tables
  <2>3. Range(queue') = ToRefresh(specified', notFound')
    BY <2>1, <2>2, SortedFacts
  <2>4. repos[a].enabled => a \in ToRefresh(specified', notFound')
    BY <1>2, <2>1 DEF ToRefresh
  <2>5. ~repos[a].enabled => UpToDate(a)'
    BY <1>2, <2>1 DEF UpToDate
  <2>6. QED
    BY <2>3, <2>4, <2>5
<1>4. CASE RefreshRepo
  <2> DEFINE R == {Head(queue)}
  <2>1. /\ pc = "refresh" /\ queue # <<>> /\ queue' = Tail(queue)
        /\ UNCHANGED <<cmd, specified, notFound>>
    BY <1>2, <1>4 DEF RefreshRepo, Leave
  <2>2. PICK rawOk, cacheOk \in SUBSET R :
          /\ Refreshed(R, cmd.flags, rawOk, cacheOk)
          /\ failed' = failed \cup RefreshError(R, cmd.flags, rawOk, cacheOk)
          /\ \/ UNCHANGED repos
             \/ rawOk = {} /\ repos' = [repos EXCEPT ![Head(queue)].enabled = FALSE]
    BY <1>4 DEF RefreshRepo
  <2>3. failed = {} /\ rawOk = R /\ ("download-only" \in cmd.flags \/ cacheOk = R)
    BY <1>2, <2>2 DEF RefreshError
  <2>4. repos' = repos /\ a \in Known /\ a \in Words
    BY <1>2, <2>2, <2>3 DEF Known, Tables
  <2>5. CASE a = Head(queue)
    <3>1. /\ "build-only" \in cmd.flags \/ raw'[a] = "new"
          /\ "download-only" \in cmd.flags \/ cache'[a] = "new"
      BY <2>2, <2>3, <2>4, <2>5 DEF Refreshed
    <3>2. QED
      BY <1>2, <2>1, <3>1 DEF UpToDate
  <2>6. CASE a # Head(queue)
    <3>1. raw'[a] = raw[a] /\ cache'[a] = cache[a]
      BY <2>2, <2>4, <2>6 DEF Refreshed
    <3>2. a \in Range(queue) \/ UpToDate(a)
      BY <1>2, <2>1, <2>3, <2>4 DEF RefreshTodo
    <3>3. UpToDate(a) => UpToDate(a)'
      BY <1>2, <2>1, <2>4, <3>1 DEF UpToDate
    <3>4. a \in Range(queue) => a \in Range(queue')
      BY <2>1, <2>6, QueueFacts
    <3>5. QED
      BY <3>2, <3>3, <3>4
  <2>7. QED
    BY <2>5, <2>6
<1>5. QED
  BY <1>0, <1>2, <1>3, <1>4 DEF Loops

\* As long as nothing has failed, what is not queued any more is clean.
LEMMA CleanTodoStep ==
  ASSUME Tables, Control, Queues, Taken, CleanTodo, [Next]_vars
  PROVE  CleanTodo'
<1> USE DEF config, data, given, work
<1>0. Loops
  BY LoopsStep
<1>1. CASE UNCHANGED vars
  BY <1>1 DEF vars, CleanTodo, Known, Cleaned, RepoArgs, CleanMetadata, CleanRaw, CleanPackages, Flag
<1>2. SUFFICES ASSUME ~UNCHANGED vars, pc' = "clean", failed' = {},
                      NEW a, a \in IF RepoArgs' = <<>> THEN Known' ELSE specified'
               PROVE  a \in Range(queue') \/ Cleaned(a)'
  BY <1>1 DEF CleanTodo
<1>3. CASE StartClean
  <2>1. /\ RepoArgs' = RepoArgs /\ Known' = Known
        /\ specified' = GetRepos(RepoArgs) /\ notFound' = Unmatched(RepoArgs)
        /\ queue' = IF specified' # {} THEN Sorted(specified')
                    ELSE IF notFound' THEN <<>> ELSE Sorted(Known)
    BY <1>3 DEF StartClean, Start, Enqueue, RepoArgs, Known
  <2>2. specified' \subseteq Words /\ Known \subseteq Words
    BY <2>1, GetReposFacts DEF Tables
  <2>3. CASE RepoArgs = <<>>
    <3>1. DOMAIN RepoArgs = {}
      BY <2>3
    <3>2. specified' = {} /\ ~notFound'
      BY <2>1, <3>1 DEF GetRepos, Unmatched
    <3>3. QED
      BY <1>2, <2>1, <2>2, <2>3, <3>2, SortedFacts
  <2>4. CASE RepoArgs # <<>>
    BY <1>2, <2>1, <2>2, <2>4, SortedFacts
  <2>5. QED
    BY <2>3, <2>4
<1>4. CASE CleanRepo
  <2> DEFINE h == Head(queue)
  <2>1. /\ pc = "clean" /\ queue # <<>> /\ queue' = Tail(queue)
        /\ UNCHANGED <<repos, cmd, specified>> /\ Known' = Known
    BY <1>4 DEF CleanRepo, Known
  <2>2. RepoArgs' = RepoArgs /\ CleanMetadata' = CleanMetadata /\ CleanRaw' = CleanRaw
        /\ CleanPackages' = CleanPackages /\ Flag("all")' = Flag("all")
    BY <2>1 DEF RepoArgs, CleanMetadata, CleanRaw, CleanPackages, Flag
  <2>3. /\ failed = {}
        /\ cache' = IF CleanMetadata THEN [cache EXCEPT ![h] = "none"] ELSE cache
        /\ raw' = IF CleanRaw /\ ~KeepsRaw(h) THEN [raw EXCEPT ![h] = "none"] ELSE raw
        /\ pkgs' = IF CleanPackages THEN pkgs \ {h} ELSE pkgs
    <3>1. PICK done \in 0 .. 3 :
            /\ cache' = IF CleanMetadata /\ done >= 1 THEN [cache EXCEPT ![h] = "none"] ELSE cache
            /\ raw' = IF CleanRaw /\ ~KeepsRaw(h) /\ done >= 2
                      THEN [raw EXCEPT ![h] = "none"] ELSE raw
            /\ pkgs' = IF CleanPackages /\ done >= 3 THEN pkgs \ {h} ELSE pkgs
            /\ failed' = IF done < 3 THEN failed \cup {h} ELSE failed
      BY <1>4 DEF CleanRepo
    <3>2. done >= 1 /\ done >= 2 /\ done >= 3 /\ failed = {}
      BY <1>2, <3>1
    <3>3. QED
      BY <3>1, <3>2
  <2>4. h \in Words
    BY <2>1, QueueFacts
  <2>5. CASE a = h
    <3>1. (CleanMetadata => cache'[a] = "none") /\ (CleanPackages => a \notin pkgs')
      BY <2>3, <2>4, <2>5 DEF Tables
    <3>2. CleanRaw => raw'[a] = "none" \/ KeepsRaw(a)
      BY <2>3, <2>4, <2>5 DEF Tables
    <3>3. KeepsRaw(a) => IsCd(repos[a]) /\ ~(Flag("all") /\ RepoArgs # <<>>)
      BY <1>2, <2>1, <2>2 DEF KeepsRaw
    <3>4. IsCd(repos[a])' = IsCd(repos[a])
      BY <2>1 DEF IsCd
    <3>5. QED
      BY <2>2, <3>1, <3>2, <3>3, <3>4 DEF Cleaned
  <2>6. CASE a # h
    <3>1. raw'[a] = raw[a] /\ cache'[a] = cache[a] /\ (a \in pkgs' <=> a \in pkgs)
      BY <2>3, <2>6 DEF Tables
    <3>2. a \in Range(queue) \/ Cleaned(a)
      BY <1>2, <2>1, <2>2, <2>3 DEF CleanTodo
    <3>3. IsCd(repos[a])' = IsCd(repos[a])
      BY <2>1 DEF IsCd
    <3>4. Cleaned(a) => Cleaned(a)'
      BY <2>2, <3>1, <3>3 DEF Cleaned
    <3>5. a \in Range(queue) => a \in Range(queue')
      BY <2>1, <2>6, QueueFacts
    <3>6. QED
      BY <3>2, <3>4, <3>5
  <2>7. QED
    BY <2>5, <2>6
<1>5. QED
  BY <1>0, <1>2, <1>3, <1>4 DEF Loops

-----------------------------------------------------------------------------
(* The theorems                                                            *)

FullInv ==
  /\ Tables /\ Control /\ Queues /\ Errors /\ Seen /\ Taken /\ NamedQueue
  /\ RefreshTodo /\ CleanTodo /\ ZeroMeansServed

\* A loop that ends with code 0 has served what it was asked for.
LEMMA ServedStep ==
  ASSUME Tables, Control, Queues, Errors, Taken, RefreshTodo, CleanTodo, ZeroMeansServed,
         Errors', [Next]_vars
  PROVE  ZeroMeansServed'
<1> USE DEF config, data, given, work
<1>0. Loops
  BY LoopsStep
<1>1. CASE UNCHANGED vars
  <2>1. UNCHANGED <<repos, raw, cache, pkgs, pc, exitCode, cmd, initial, before, specified,
                    failed, broken>> /\ Known' = Known
    BY <1>1 DEF vars, Known
  <2>2. /\ RepoArgs' = RepoArgs /\ \A arg : Meanings(arg)' = Meanings(arg)
        /\ \A a : UpToDate(a)' = UpToDate(a) /\ Cleaned(a)' = Cleaned(a)
    BY <2>1 DEF Meanings, RepoArgs, UpToDate, Cleaned, IsCd, CleanMetadata, CleanRaw,
         CleanPackages, Flag
  <2>3. QED
    BY <2>1, <2>2 DEF ZeroMeansServed
<1>2. ASSUME ~UNCHANGED vars, pc' = "done", exitCode' = EXIT_OK, cmd'.verb = "refresh"
      PROVE  IF RepoArgs' = <<>> THEN \A a \in Known' : UpToDate(a)'
             ELSE \A i \in DOMAIN RepoArgs' : \E a \in Meanings(RepoArgs[i])' : UpToDate(a)'
  <2>1. EndRefresh
    BY <1>0, <1>2 DEF Loops, EndClean, Control
  <2>2. /\ pc = "refresh" /\ queue = <<>> /\ exitCode' = RefreshCode
        /\ UNCHANGED <<repos, raw, cache, cmd, initial, before>> /\ Known' = Known
    BY <2>1 DEF EndRefresh, Return, Known
  <2>3. ~notFound /\ failed = {}
    BY <1>2, <2>2 DEF RefreshCode, Errors
  <2>4. Range(queue) = {}
    BY <2>2 DEF Range
  <2>5. \A a \in Known : specified = {} \/ a \in specified => UpToDate(a)
    BY <2>2, <2>3, <2>4 DEF RefreshTodo
  <2>6. RepoArgs' = RepoArgs /\ \A a : UpToDate(a)' = UpToDate(a)
    BY <2>2 DEF RepoArgs, UpToDate
  <2>7. \A i \in DOMAIN RepoArgs : Meanings(RepoArgs[i])' = Meanings(RepoArgs[i])
    BY <2>2 DEF RepoArgs, Meanings
  <2>8. QED
    BY <2>2, <2>3, <2>5, <2>6, <2>7 DEF Taken
<1>3. ASSUME ~UNCHANGED vars, pc' = "done", exitCode' = EXIT_OK, cmd'.verb = "clean"
      PROVE  \A a \in IF RepoArgs' = <<>> THEN Known' ELSE specified' : Cleaned(a)'
  <2>1. EndClean
    BY <1>0, <1>3 DEF Loops, EndRefresh, Control
  <2>2. /\ pc = "clean" /\ queue = <<>>
        /\ UNCHANGED <<repos, raw, cache, pkgs, cmd, specified, failed>> /\ Known' = Known
    BY <2>1 DEF EndClean, Return, Known
  <2>3. failed = {}
    BY <1>3, <2>1 DEF EndClean, Return
  <2>4. Range(queue) = {}
    BY <2>2 DEF Range
  <2>5. \A a \in IF RepoArgs = <<>> THEN Known ELSE specified : Cleaned(a)
    BY <2>2, <2>3, <2>4 DEF CleanTodo
  <2>6. RepoArgs' = RepoArgs /\ \A a : Cleaned(a)' = Cleaned(a)
    BY <2>2 DEF RepoArgs, Cleaned, IsCd, CleanMetadata, CleanRaw, CleanPackages, Flag
  <2>7. QED
    BY <2>2, <2>5, <2>6
<1>4. QED
  BY <1>1, <1>2, <1>3 DEF ZeroMeansServed, Errors


\* At the start nothing runs.
LEMMA InitFull == Init => FullInv
<1> SUFFICES ASSUME Init
             PROVE  FullInv
  OBVIOUS
<1>1. cmd \in CommandLines /\ pc = "idle"
  BY RepoManagementAssumption DEF Init
<1>2. Tables
  <2>1. initial \in Seq(Words)
    BY DEF Init
  <2>2. QED
    BY <2>1, RepoManagementAssumption DEF Init, Tables, Known
<1>3. Control
  <2>1. commands \in 0 .. MaxCommands
    BY RepoManagementAssumption DEF Init
  <2>2. exitCode = EXIT_OK /\ notFound = FALSE
    BY DEF Init
  <2>3. QED
    BY <1>1, <2>1, <2>2 DEF Control
<1>4. QED
  BY <1>1, <1>2, <1>3 DEF Init, FullInv, Queues, Errors, Seen, Taken, NamedQueue, RefreshTodo,
     CleanTodo, ZeroMeansServed

\* Every step keeps the invariant.
LEMMA FullInvStep == FullInv /\ [Next]_vars => FullInv'
<1> SUFFICES ASSUME FullInv, [Next]_vars
             PROVE  FullInv'
  OBVIOUS
<1> USE DEF FullInv
<1>1. Tables'
  BY TablesStep
<1>2. Control'
  BY ControlStep
<1>3. Queues'
  BY QueuesStep
<1>4. Errors'
  BY ErrorsStep
<1>5. Seen'
  BY SeenStep
<1>6. Taken'
  BY TakenStep
<1>7. NamedQueue'
  BY <1>6, NamedQueueStep
<1>8. RefreshTodo'
  BY RefreshTodoStep
<1>9. CleanTodo'
  BY CleanTodoStep
<1>10. ZeroMeansServed'
  BY <1>4, ServedStep
<1>11. QED
  BY <1>1, <1>2, <1>3, <1>4, <1>5, <1>6, <1>7, <1>8, <1>9, <1>10

\* The invariant holds throughout.
THEOREM FullInvAlways == Spec => []FullInv
BY InitFull, FullInvStep, PTL DEF Spec

\* The tables of repositories and services, the metadata and the exit code keep their types.
THEOREM TypeCorrect == Spec => []TypeOK
<1>1. FullInv => TypeOK
  <2> SUFFICES ASSUME FullInv
               PROVE  TypeOK
    OBVIOUS
  <2>1. Range(initial) \subseteq Words
    BY DEF FullInv, Tables, Range
  <2>2. \A a \in Known : repos[a].service \in Words \cup {NoWord} /\ repos[a].urls # <<>>
    BY DEF FullInv, Tables, RepoRow
  <2>3. QED
    BY <2>1, <2>2 DEF FullInv, Tables, Control, TypeOK
<1>2. QED
  BY <1>1, FullInvAlways, PTL

\* refresh and clean return 0 only if everything they were asked for has been refreshed or
\* cleaned, and no command that counts its failures returns 0 after one: for any
\* repositories, services and arguments, and whatever downloads, parsers and services do.
THEOREM ServedAlways == Spec => []ZeroMeansServed
<1>1. FullInv => ZeroMeansServed
  BY DEF FullInv
<1>2. QED
  BY <1>1, FullInvAlways, PTL

\* refresh, clean, removerepo, modifyrepo and renamerepo change only repositories that an
\* argument names in the list the user saw, however the positions shift underneath.
THEOREM OnlyNamed == Spec => OnlyNamedChange
<1> DEFINE P == /\ pc \in {"refresh", "clean", "remove", "modify", "start"}
                /\ RepoArgs # <<>> /\ cmd.plus = <<>> /\ pc' # "start"
                => \A a \in Words : Entry(a)' # Entry(a) => a \in Meant
<1>1. FullInv /\ [Next]_vars => [P]_vars
  <2> SUFFICES ASSUME FullInv, [Next]_vars,
                      pc \in {"refresh", "clean", "remove", "modify", "start"},
                      RepoArgs # <<>>, cmd.plus = <<>>, pc' # "start",
                      NEW a \in Words, Entry(a)' # Entry(a)
               PROVE  a \in Meant
    OBVIOUS
  <2> USE DEF FullInv, data, given
  <2>0. Changes
    BY ChangesStep
  <2>1. CASE UNCHANGED <<repos, data>>
    BY <2>1 DEF Entry, Known
  <2>2. CASE RefreshRepo
    <3> DEFINE R == {Head(queue)}
    <3>1. /\ pc = "refresh" /\ queue # <<>> /\ pkgs' = pkgs
          /\ repos' = repos \/ repos' = [repos EXCEPT ![Head(queue)].enabled = FALSE]
      BY <2>2 DEF RefreshRepo
    <3>2. PICK rawOk, cacheOk \in SUBSET R : Refreshed(R, cmd.flags, rawOk, cacheOk)
      BY <2>2 DEF RefreshRepo
    <3>3. ASSUME a # Head(queue)
          PROVE  FALSE
      <4>1. raw'[a] = raw[a] /\ cache'[a] = cache[a]
        BY <3>2, <3>3 DEF Refreshed
      <4>2. Known' = Known /\ (a \in Known => repos'[a] = repos[a])
        BY <3>1, <3>3, DisabledRow DEF Known
      <4>3. QED
        BY <3>1, <4>1, <4>2 DEF Entry
    <3>4. QED
      BY <3>1, <3>3, QueueFacts DEF NamedQueue
  <2>3. CASE CleanRepo
    <3>1. pc = "clean" /\ queue # <<>> /\ repos' = repos
      BY <2>3 DEF CleanRepo, config
    <3>2. /\ cache' \in {cache, [cache EXCEPT ![Head(queue)] = "none"]}
          /\ raw' \in {raw, [raw EXCEPT ![Head(queue)] = "none"]}
          /\ pkgs' \in {pkgs, pkgs \ {Head(queue)}}
      BY <2>3 DEF CleanRepo
    <3>3. a # Head(queue) => Entry(a)' = Entry(a)
      BY <3>1, <3>2 DEF Entry, Known, Tables
    <3>4. QED
      BY <3>1, <3>3, QueueFacts DEF NamedQueue
  <2>4. CASE RemoveRepo
    <3>1. pc = "remove" /\ queue # <<>>
      BY <2>4 DEF RemoveRepo
    <3>2. CASE RemoveRepos({Head(queue)})
      <4>1. a # Head(queue) => Entry(a)' = Entry(a)
        <5>1. Known' = Known \ {Head(queue)} /\ \A b \in Known' : repos'[b] = repos[b]
          BY <3>2, RemoveTypes
        <5>2. a # Head(queue) => /\ raw'[a] = raw[a] /\ cache'[a] = cache[a]
                                 /\ (a \in pkgs') = (a \in pkgs)
          BY <3>2 DEF RemoveRepos, Forget
        <5>3. a # Head(queue) => /\ a \in Known' <=> a \in Known
                                 /\ a \in Known => repos'[a] = repos[a]
          BY <5>1
        <5>4. QED
          BY <5>2, <5>3 DEF Entry
      <4>2. QED
        BY <3>1, <4>1, QueueFacts DEF NamedQueue
    <3>3. CASE UNCHANGED <<repos, data>>
      BY <2>1, <3>3
    <3>4. QED
      BY <2>4, <3>2, <3>3 DEF RemoveRepo
  <2>5. CASE Modify
    <3> DEFINE m == MatchRepo(Head(queue), FALSE, FALSE)
    <3>1. pc = "modify" /\ queue # <<>> /\ UNCHANGED data
      BY <2>5 DEF Modify
    <3>2. ~Aggregate
      BY <3>1, ArgsFacts DEF Control
    <3>3. CASE m # NoWord /\ ModifyRepo(m)
      <4>1. m \in Meant
        BY <3>1, <3>2, <3>3, NextModified
      <4>2. Known' = Known /\ \A b \in Known : b # m => repos'[b] = repos[b]
        <5> HIDE DEF m
        <5> QED
          BY <3>3, ModifyTypes
      <4>3. a # m => Entry(a)' = Entry(a)
        BY <3>1, <4>2 DEF Entry
      <4>4. QED
        BY <4>1, <4>3
    <3>4. CASE UNCHANGED config
      BY <2>1, <3>1, <3>4 DEF config
    <3>5. QED
      BY <2>5, <3>2, <3>3, <3>4 DEF Modify
  <2>6. CASE RenameRepo
    <3> DEFINE m == MatchRepo(cmd.args[1], FALSE, FALSE)
               new == cmd.args[2].word
    <3>1. pc = "start" /\ cmd.verb = "renamerepo" /\ Len(cmd.args) = 2
      BY <2>6 DEF RenameRepo, Start
    <3>2. CASE UNCHANGED <<repos, data>>
      BY <2>1, <3>2
    <3>3. CASE /\ m # NoWord
               /\ repos' = [b \in (Known \ {m}) \cup {new} |-> IF b = new THEN repos[m] ELSE repos[b]]
               /\ raw' = Forget({m}, raw) /\ cache' = Forget({m}, cache) /\ pkgs' = pkgs \ {m}
      <4>1. cmd.args \in Seq(Arg) /\ RepoArgs = cmd.args /\ new # NoWord
        BY <3>1, LineType, ArgsFacts
      <4>2. cmd.args[1] \in Range(RepoArgs) /\ cmd.args[2] \in Range(RepoArgs)
        BY <3>1, <4>1 DEF Range
      <4>3. new \in Meant
        <5>1. new \in Meanings(cmd.args[2])
          BY <4>1 DEF Meanings
        <5>2. QED
          BY <4>2, <5>1 DEF Meant
      <4>4. m \in Meant
        <5>1. repos = before /\ m \in Known
          BY <3>1, <3>3, MatchFacts DEF Seen
        <5>2. m \in Meanings(cmd.args[1])
          BY <3>3, <5>1, MatchMeant DEF Known
        <5>3. QED
          BY <4>2, <5>2 DEF Meant
      <4>5. a # m /\ a # new => Entry(a)' = Entry(a)
        <5>1. /\ Known' = (Known \ {m}) \cup {new}
              /\ \A b \in Known' : b # new => repos'[b] = repos[b]
          BY <3>3 DEF Known
        <5>2. a # m => /\ raw'[a] = raw[a] /\ cache'[a] = cache[a]
                       /\ (a \in pkgs') = (a \in pkgs)
          <6> HIDE DEF m
          <6> QED
            BY <3>3 DEF Forget
        <5>3. a # m /\ a # new => /\ a \in Known' <=> a \in Known
                                  /\ a \in Known => repos'[a] = repos[a]
          BY <5>1
        <5>4. QED
          BY <5>2, <5>3 DEF Entry
      <4>6. QED
        BY <4>3, <4>4, <4>5
    <3>4. QED
      BY <2>6, <3>2, <3>3 DEF RenameRepo, config
  <2>7. QED
    BY <2>0, <2>1, <2>2, <2>3, <2>4, <2>5, <2>6 DEF Changes
<1>2. QED
  BY <1>1, FullInvAlways, PTL DEF Spec, OnlyNamedChange

=============================================================================
