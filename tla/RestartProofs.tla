---------------------------- MODULE RestartProofs ----------------------------
(***************************************************************************)
(* Theorems about Restart, for every workflow graph and any number of      *)
(* requests that trigger at once.                                          *)
(*                                                                         *)
(* One build of a job per event (OneBuild): a request that is about to     *)
(* create a build has found none in its event while it held the lock of    *)
(* the group event, and there still is none.  The lock keeps the other     *)
(* requests out, a restart creates its build in an event of its own, and a *)
(* row that was removed does not come back.                                *)
(*                                                                         *)
(* A join starts from successes (JoinFromSuccess): the parents a request   *)
(* merges and a row records are rows of the sources that cannot vanish     *)
(* once they have ended.                                                   *)
(*                                                                         *)
(* With one restart no join is lost (JoinRuns, RestartedJoinRuns): every   *)
(* success of a source is seen by the join or still has a request at work, *)
(* and whoever writes the last of the parents decides.                     *)
(***************************************************************************)
EXTENDS Restart, Integers, FiniteSetTheorems, SequenceTheorems, NaturalsInduction,
        WellFoundedInduction, TLAPS

(* The latest build a request finds exists.                                *)

(* The order of the numbers as the relation the library speaks of. *)
LEMMA LessRelation == OpToRel(<, Nat) = {p \in Nat \X Nat : p[1] < p[2]}
BY Zenon DEF OpToRel

(* A non-empty set of numbers has a least one. *)
LEMMA LeastExists ==
  ASSUME NEW T, T \subseteq Nat, T # {}
  PROVE  \E x \in T : \A y \in T : x <= y
<1> DEFINE R == {p \in Nat \X Nat : p[1] < p[2]}
<1>1. PICK x \in T : \A y \in T : ~(<<y, x>> \in R)
  <2>1. IsWellFoundedOn(R, Nat) BY NatLessThanWellFounded, LessRelation
  <2> QED BY <2>1, WFMin
<1>2. \A y \in T : x <= y
  <2>1. SUFFICES ASSUME NEW y \in T, y < x PROVE FALSE OBVIOUS
  <2>2. <<y, x>> \in R BY <2>1
  <2> QED BY <1>1, <2>2
<1> QED BY <1>2

(* A non-empty set of ids below a bound has a largest one: what "the latest *)
(* build" of getLatestBuilds relies on.                                     *)
LEMMA MaxExists ==
  ASSUME NEW n \in Nat, NEW S, S \subseteq 1..n, S # {}
  PROVE  \E i \in S : \A k \in S : k <= i
<1> DEFINE T == {m \in Nat : \E i \in S : m = n - i}
<1>1. T \subseteq Nat OBVIOUS
<1>2. T # {}
  <2>1. PICK i \in S : TRUE OBVIOUS
  <2>2. n - i \in T BY <2>1
  <2> QED BY <2>2
<1>3. \E y \in T : \A z \in T : y <= z
  <2> HIDE DEF T
  <2> QED BY <1>1, <1>2, LeastExists
<1>4. PICK x \in T : \A y \in T : x <= y
  BY <1>3
<1>5. PICK i \in S : x = n - i OBVIOUS
<1>6. \A k \in S : k <= i
  <2> SUFFICES ASSUME NEW k \in S PROVE k <= i OBVIOUS
  <2>1. n - k \in T OBVIOUS
  <2>2. x <= n - k BY <2>1, <1>4
  <2> QED BY <2>2, <1>5
<1> QED BY <1>6

-----------------------------------------------------------------------------
Rows(n) == [event : 1 .. n, job : Jobs, status : Status,
            parents : Parents, used : Parents]

\* What is held fast of the objects of a request at work.
ObjectsOK ==
  \A w \in Requests :
    /\ pc[w] # "idle" => cur[w] # NoId
    /\ pc[w] \in {"store", "check"} => tgt[w] \in Jobs

TypeInv == TypeOK /\ ObjectsOK

\* The rows found by a read are among the rows, and so is the latest.
LEMMA NewestType ==
  ASSUME NEW n \in Nat, NEW S, S \subseteq 1 .. n
  PROVE  /\ Newest(S) \in 0 .. n
         /\ S # {} => Newest(S) \in S
<1>1. CASE S = {}
  BY <1>1 DEF Newest, NoId
<1>2. CASE S # {}
  <2>1. \E i \in S : \A k \in S : k <= i
    BY <1>2, MaxExists
  <2>2. Newest(S) \in S
    BY <1>2, <2>1 DEF Newest
  <2>3. Newest(S) \in 1 .. n
    BY <2>2
  <2> QED
    BY <2>2, <2>3
<1> QED
  BY <1>1, <1>2

\* The rows and their ids.
LEMMA TableType ==
  ASSUME TypeOK
  PROVE  /\ Len(builds) \in Nat /\ DOMAIN builds = 1 .. Len(builds)
         /\ builds \in [1 .. Len(builds) -> Rows(Len(events))]
         /\ \A i \in DOMAIN builds : builds[i] \in Rows(Len(events))
         /\ Len(events) \in Nat /\ DOMAIN events = 1 .. Len(events)
BY LenProperties, ElementOfSeq DEF TypeOK, Rows

\* What a read finds are ids of builds, and it finds one if there is one.
LEMMA ReadType ==
  ASSUME TypeOK, NEW e \in Nat, NEW k \in Jobs
  PROVE  /\ Latest(k) \in 0 .. Len(builds)
         /\ CurrentBuild(e, k) \in 0 .. Len(builds)
         /\ CurrentBuild(e, k) = NoId => IdsIn(e, k) = {}
<1>1. Len(builds) \in Nat /\ DOMAIN builds = 1 .. Len(builds)
  BY TableType
<1>2. Ids(k) \subseteq 1 .. Len(builds) /\ IdsIn(e, k) \subseteq 1 .. Len(builds)
  BY <1>1 DEF Ids, IdsIn
<1>3. Latest(k) \in 0 .. Len(builds) /\ CurrentBuild(e, k) \in 0 .. Len(builds)
  BY <1>1, <1>2, NewestType DEF Latest, CurrentBuild
<1>4. IdsIn(e, k) # {} => CurrentBuild(e, k) \in 1 .. Len(builds)
  BY <1>1, <1>2, NewestType DEF CurrentBuild
<1> QED
  BY <1>3, <1>4 DEF NoId

LEMMA ChildType ==
  ASSUME TypeOK, NEW e \in Nat, NEW k \in Jobs
  PROVE  ChildBuild(e, k) \in 0 .. Len(builds)
<1> DEFINE S == {i \in Ids(k) : events[builds[i].event].parent = e}
           T == {builds[i].event : i \in S}
<1>1. /\ Len(builds) \in Nat /\ DOMAIN builds = 1 .. Len(builds) /\ Len(events) \in Nat
      /\ \A i \in DOMAIN builds : builds[i] \in Rows(Len(events))
  BY TableType
<1>2. CASE S = {}
  BY <1>1, <1>2 DEF ChildBuild, NoId
<1>3. CASE S # {}
  <2>1. S \subseteq 1 .. Len(builds)
    BY <1>1 DEF Ids
  <2>2. T \subseteq 1 .. Len(events) /\ T # {}
    BY <1>1, <1>3, <2>1 DEF Rows
  <2>3. PICK m \in T : \A l \in T : l <= m
    BY <1>1, <2>2, MaxExists
  <2>4. \E i \in S : \A l \in S : builds[l].event <= builds[i].event
    BY <2>3
  <2>5. ChildBuild(e, k) \in S
    BY <1>3, <2>4 DEF ChildBuild
  <2> QED
    BY <2>1, <2>5
<1> QED
  BY <1>2, <1>3

LEMMA NextType ==
  ASSUME TypeOK, NEW e \in Nat, NEW k \in Jobs
  PROVE  /\ NextBuild(e, k) \in 0 .. Len(builds)
         /\ NextBuild(e, k) = NoId => IdsIn(e, k) = {}
<1>1. GroupBuild(e, k) \in 0 .. Len(builds)
  BY ReadType, TableType DEF GroupBuild, NoId
<1> QED
  BY <1>1, ReadType, ChildType DEF NextBuild

\* The parents of the next build: a build or none for each job.
LEMMA ParentsType ==
  ASSUME TypeOK, NEW c \in DOMAIN builds, NEW k \in Jobs
  PROVE  OwnParents(c) \in Parents /\ FilledParents(c, k) \in Parents
<1>1. /\ c \in Nat /\ builds[c] \in Rows(Len(events)) /\ Len(events) \in Nat
      /\ Len(builds) \in Nat
  BY TableType
<1>2. OwnParents(c) \in Parents
  BY <1>1 DEF OwnParents, Parents, Rows
<1>3. builds[c].event \in Nat
  BY <1>1 DEF Rows
<1>4. \A j \in Jobs : Related(builds[c].event, j) \in Nat
  BY <1>1, <1>3, ReadType DEF Related, NoId
<1> QED
  BY <1>2, <1>4 DEF FilledParents, Parents

-----------------------------------------------------------------------------
(* Rows written and rows added *)

\* Rows may get another status or other parents, but stay where they are, and
\* one that was removed stays removed.
Rewritten ==
  /\ events' = events
  /\ builds' \in [DOMAIN builds -> Rows(Len(events))]
  /\ \A i \in DOMAIN builds :
       /\ builds'[i].event = builds[i].event /\ builds'[i].job = builds[i].job
       /\ builds[i].status = "REMOVED" => builds'[i].status = "REMOVED"

LEMMA RewrittenTable ==
  ASSUME TypeOK, Rewritten
  PROVE  /\ builds' \in Seq(Rows(Len(events)))
         /\ Len(builds') = Len(builds) /\ DOMAIN builds' = DOMAIN builds
<1>1. builds' \in [1 .. Len(builds) -> Rows(Len(events))] /\ Len(builds) \in Nat
  BY TableType DEF Rewritten
<1>2. builds' \in Seq(Rows(Len(events)))
  BY <1>1, SeqDef
<1>3. DOMAIN builds' = 1 .. Len(builds') /\ Len(builds') \in Nat
  BY <1>2, LenProperties
<1>4. 1 .. Len(builds') = 1 .. Len(builds)
  BY <1>1, <1>3
<1>5. Len(builds') = Len(builds)
  BY <1>1, <1>3, <1>4
<1> QED
  BY <1>2, <1>3, <1>5, TableType

LEMMA SameRows == ASSUME TypeOK, UNCHANGED <<events, builds>> PROVE Rewritten
BY TableType DEF Rewritten

\* The write of one row.
LEMMA OneRow ==
  ASSUME TypeOK, events' = events, NEW b \in DOMAIN builds, NEW r \in Rows(Len(events)),
         builds' = [builds EXCEPT ![b] = r],
         r.event = builds[b].event, r.job = builds[b].job,
         builds[b].status = "REMOVED" => r.status = "REMOVED"
  PROVE  Rewritten
BY TableType DEF Rewritten

LEMMA RemoveRewrites ==
  ASSUME TypeOK, events' = events, NEW b, NEW k, builds' = RemoveNext(b, k)
  PROVE  Rewritten
<1>1. \A i \in DOMAIN builds :
        builds'[i] = IF i \in IdsIn(builds[b].event, k) /\ builds[i].status = "CREATED"
                     THEN [builds[i] EXCEPT !.status = "REMOVED"] ELSE builds[i]
  BY DEF RemoveNext
<1>2. \A i \in DOMAIN builds :
        /\ builds'[i] \in Rows(Len(events))
        /\ builds'[i].event = builds[i].event /\ builds'[i].job = builds[i].job
        /\ builds[i].status = "REMOVED" => builds'[i].status = "REMOVED"
  BY <1>1, TableType DEF Rows, Status
<1>3. builds' \in [DOMAIN builds -> Rows(Len(events))]
  BY <1>2 DEF RemoveNext
<1> QED
  BY <1>2, <1>3 DEF Rewritten

\* A row is added at the end.
Added(e, k) ==
  \E s \in Status, p \in Parents : builds' = Append(builds, Row(e, k, s, p))

LEMMA AddedTable ==
  ASSUME TypeOK, NEW n \in Nat, Len(events) <= n, NEW e \in 1 .. n, NEW k \in Jobs, Added(e, k)
  PROVE  /\ builds' \in Seq(Rows(n))
         /\ Len(builds') = Len(builds) + 1 /\ DOMAIN builds' = 1 .. Len(builds) + 1
         /\ \A i \in DOMAIN builds : builds'[i] = builds[i]
         /\ builds'[Len(builds) + 1].event = e /\ builds'[Len(builds) + 1].job = k
<1>1. PICK s \in Status, p \in Parents : builds' = Append(builds, Row(e, k, s, p))
  BY DEF Added
<1>2. Row(e, k, s, p) \in Rows(n)
  BY DEF Row, Rows, NoParents, Parents, NoId
<1>3. Rows(Len(events)) \subseteq Rows(n)
  BY TableType DEF Rows
<1>4. builds \in Seq(Rows(n))
  <2>1. builds \in Seq(Rows(Len(events)))
    BY DEF TypeOK, Rows
  <2> QED
    BY <1>3, <2>1, SeqMonotonic
<1>5. builds' \in Seq(Rows(n)) /\ Len(builds') = Len(builds) + 1
  BY <1>1, <1>2, <1>4
<1>6. DOMAIN builds' = 1 .. Len(builds) + 1
  BY <1>5, LenProperties
<1>7. \A i \in 1 .. Len(builds) : builds'[i] = builds[i]
  BY <1>1, <1>2, <1>4
<1>8. builds'[Len(builds) + 1] = Row(e, k, s, p)
  BY <1>1, <1>2, <1>4
<1> QED
  BY <1>5, <1>6, <1>7, <1>8, TableType DEF Row

-----------------------------------------------------------------------------
(* Type correctness *)

\* With rows rewritten or added it is left to show the types of the rest.
LEMMA TablesTyped ==
  ASSUME TypeOK, events' = events,
         builds' \in Seq(Rows(Len(events))), Len(builds') \in {Len(builds), Len(builds) + 1},
         lock' \in Requests \cup {None},
         pc' \in [Requests -> {"idle", "remove", "next", "store", "check"}],
         cur' \in [Requests -> 0 .. Len(builds)], nb' \in [Requests -> 0 .. Len(builds')],
         todo' \in [Requests -> SUBSET Jobs], tgt' \in [Requests -> Jobs \cup {None}],
         par' \in [Requests -> Parents]
  PROVE  TypeOK'
<1>1. Len(builds) \in Nat
  BY TableType
<1>2. cur' \in [Requests -> 0 .. Len(builds')]
  BY <1>1
<1> QED
  BY <1>2 DEF TypeOK, Rows

LEMMA AnsweredType == ASSUME TypeInv, NEW w \in Requests, Answered(w) PROVE TypeInv' /\ Rewritten
<1>1. Rewritten
  BY SameRows DEF TypeInv, Answered
<1>2. TypeOK'
  BY <1>1, RewrittenTable, TablesTyped DEF TypeInv, TypeOK, Answered, NoId
<1>3. ObjectsOK'
  BY DEF TypeInv, TypeOK, ObjectsOK, Answered
<1> QED
  BY <1>1, <1>2, <1>3 DEF TypeInv

LEMMA FinishType ==
  ASSUME TypeInv, NEW w \in Requests, NEW b \in DOMAIN builds, NEW s \in Ended, Finish(w, b, s)
  PROVE  TypeInv' /\ Rewritten
<1>1. builds[b] \in Rows(Len(events)) /\ b \in 1 .. Len(builds) /\ Len(builds) \in Nat
  BY TableType DEF TypeInv
<1> DEFINE r == [builds[b] EXCEPT !.status = s]
<1>2. /\ r \in Rows(Len(events)) /\ r.event = builds[b].event /\ r.job = builds[b].job
      /\ builds[b].status # "REMOVED"
  BY <1>1 DEF Rows, Status, Ended, Finish
<1>3. builds' = [builds EXCEPT ![b] = r] /\ events' = events
  BY DEF Finish
<1> HIDE DEF r
<1>4. Rewritten
  BY <1>2, <1>3, OneRow DEF TypeInv
<1>5. NextJobs(builds[b].job) \subseteq Jobs
  BY DEF NextJobs
<1>6. TypeOK'
  <2>1. builds' \in Seq(Rows(Len(events))) /\ Len(builds') = Len(builds)
    BY <1>4, RewrittenTable DEF TypeInv
  <2>2. /\ pc' \in [Requests -> {"idle", "remove", "next", "store", "check"}]
        /\ cur' \in [Requests -> 0 .. Len(builds)]
        /\ todo' \in [Requests -> SUBSET Jobs]
    BY <1>1, <1>5 DEF TypeInv, TypeOK, Finish
  <2>3. lock' = lock /\ tgt' = tgt /\ nb' = nb /\ par' = par
    BY DEF Finish
  <2> QED
    BY <1>3, <2>1, <2>2, <2>3, TablesTyped DEF TypeInv, TypeOK
<1>7. ObjectsOK'
  BY <1>1 DEF TypeInv, TypeOK, ObjectsOK, Finish, NoId
<1> QED
  BY <1>4, <1>6, <1>7 DEF TypeInv

LEMMA RemoveType == ASSUME TypeInv, NEW w \in Requests, RemoveJoin(w) PROVE TypeInv' /\ Rewritten
<1>1. PICK k \in todo[w] : todo' = [todo EXCEPT ![w] = @ \ {k}] /\ builds' = RemoveNext(cur[w], k)
  BY DEF RemoveJoin
<1>2. Rewritten
  BY <1>1, RemoveRewrites DEF TypeInv, RemoveJoin
<1>3. TypeOK'
  BY <1>1, <1>2, RewrittenTable, TablesTyped DEF TypeInv, TypeOK, RemoveJoin
<1>4. ObjectsOK'
  BY DEF TypeInv, ObjectsOK, RemoveJoin
<1> QED
  BY <1>2, <1>3, <1>4 DEF TypeInv

\* A request at work has a build that has ended.
LEMMA CurType ==
  ASSUME TypeInv, NEW w \in Requests, pc[w] # "idle"
  PROVE  /\ cur[w] \in DOMAIN builds
         /\ builds[cur[w]].event \in 1 .. Len(events) /\ builds[cur[w]].job \in Jobs
<1>1. cur[w] \in DOMAIN builds
  BY TableType DEF TypeInv, TypeOK, ObjectsOK, NoId
<1>2. builds[cur[w]] \in Rows(Len(events))
  BY <1>1, TableType DEF TypeInv
<1> QED
  BY <1>1, <1>2 DEF Rows

\* What a request knows when it has looked for the next build.
LEMMA FindType ==
  ASSUME TypeInv, NEW w \in Requests, Find(w)
  PROVE  /\ TypeInv' /\ Rewritten
         /\ nb'[w] = NoId => IdsIn(builds[cur[w]].event, tgt'[w]) = {}
<1> DEFINE c == cur[w]
           e == builds[cur[w]].event
<1>1. c \in DOMAIN builds /\ e \in 1 .. Len(events)
  BY CurType DEF Find
<1>2. Len(events) \in Nat /\ Len(builds) \in Nat
  BY TableType DEF TypeInv
<1>3. PICK k \in todo[w] :
        /\ tgt'  = [tgt EXCEPT ![w] = k]
        /\ todo' = [todo EXCEPT ![w] = @ \ {k}]
        /\ IF IsOr(builds[c].job, k)
           THEN nb' = [nb EXCEPT ![w] = CurrentBuild(e, k)] /\ par' = [par EXCEPT ![w] = OwnParents(c)]
           ELSE nb' = [nb EXCEPT ![w] = NextBuild(e, k)] /\ par' = [par EXCEPT ![w] = FilledParents(c, k)]
  BY DEF Find
<1>4. k \in Jobs
  BY DEF TypeInv, TypeOK
<1>5. PICK n \in 0 .. Len(builds), p \in Parents :
        /\ nb' = [nb EXCEPT ![w] = n] /\ par' = [par EXCEPT ![w] = p]
        /\ n = NoId => IdsIn(e, k) = {}
  <2>1. /\ CurrentBuild(e, k) \in 0 .. Len(builds) /\ NextBuild(e, k) \in 0 .. Len(builds)
        /\ CurrentBuild(e, k) = NoId => IdsIn(e, k) = {}
        /\ NextBuild(e, k) = NoId => IdsIn(e, k) = {}
    <3>1. e \in Nat /\ TypeOK
      BY <1>1, <1>2 DEF TypeInv
    <3> HIDE DEF c, e
    <3> QED
      BY <1>4, <3>1, ReadType, NextType
  <2>2. OwnParents(c) \in Parents /\ FilledParents(c, k) \in Parents
    BY <1>1, <1>4, ParentsType DEF TypeInv
  <2> HIDE DEF c, e
  <2> QED
    BY <1>3, <2>1, <2>2
<1>6. Rewritten
  BY SameRows DEF TypeInv, Find
<1>7. TypeOK'
  <2>1. builds' = builds /\ events' = events /\ cur' = cur /\ lock' = w
        /\ pc' = [pc EXCEPT ![w] = "store"]
    BY DEF Find
  <2> QED
    BY <1>3, <1>4, <1>5, <2>1 DEF TypeInv, TypeOK
<1>8. ObjectsOK'
  BY <1>3, <1>4 DEF TypeInv, TypeOK, ObjectsOK, Find
<1>9. nb'[w] = n /\ tgt'[w] = k
  BY <1>3, <1>5 DEF TypeInv, TypeOK
<1> QED
  BY <1>5, <1>6, <1>7, <1>8, <1>9 DEF TypeInv

\* The build created is the first of its job in the event, unless it found one.
Creates(w) == nb[w] = NoId /\ Added(builds[cur[w]].event, tgt[w])

LEMMA StoreOrType ==
  ASSUME TypeInv, NEW w \in Requests, StoreOr(w)
  PROVE  TypeInv' /\ (Rewritten \/ Creates(w))
<1>1. /\ builds[cur[w]].event \in 1 .. Len(events) /\ tgt[w] \in Jobs /\ par[w] \in Parents
      /\ Len(events) \in Nat
  BY CurType, TableType DEF TypeInv, TypeOK, ObjectsOK, StoreOr
<1>2. /\ pc' \in [Requests -> {"idle", "remove", "next", "store", "check"}]
      /\ lock' \in Requests \cup {None}
      /\ UNCHANGED <<events, cur, todo, tgt, nb, par>>
  BY DEF TypeInv, TypeOK, StoreOr, Free
<1>3. CASE nb[w] = NoId
  <2>1. Creates(w)
    BY <1>1, <1>3 DEF Creates, Added, StoreOr, Status
  <2>2. builds' \in Seq(Rows(Len(events))) /\ Len(builds') = Len(builds) + 1
    BY <1>1, <2>1, AddedTable DEF TypeInv, Creates
  <2>3. nb' \in [Requests -> 0 .. Len(builds')]
    BY <1>2, <2>2, TableType DEF TypeInv, TypeOK
  <2>4. TypeOK'
    BY <1>2, <2>2, <2>3, TablesTyped DEF TypeInv, TypeOK
  <2> QED
    BY <1>2, <2>1, <2>4 DEF TypeInv, TypeOK, ObjectsOK, StoreOr, Free
<1>4. CASE nb[w] # NoId
  <2>1. nb[w] \in DOMAIN builds
    BY <1>4, TableType DEF TypeInv, TypeOK, NoId
  <2> DEFINE r == Started(builds[nb[w]])
  <2>2. /\ r \in Rows(Len(events))
        /\ r.event = builds[nb[w]].event /\ r.job = builds[nb[w]].job
    BY <2>1, TableType DEF TypeInv, Started, Rows, Status
  <2>3. ASSUME builds[nb[w]].status = "CREATED" PROVE Rewritten
    <3>1. builds' = [builds EXCEPT ![nb[w]] = r]
      BY <1>4, <2>3 DEF StoreOr
    <3>2. builds[nb[w]].status = "REMOVED" => r.status = "REMOVED"
      BY <2>3
    <3>3. TypeOK /\ events' = events
      BY <1>2 DEF TypeInv
    <3> HIDE DEF r
    <3> QED
      BY <2>1, <2>2, <3>1, <3>2, <3>3, OneRow
  <2>4. ASSUME builds[nb[w]].status # "CREATED" PROVE Rewritten
    <3>1. builds' = builds
      BY <1>4, <2>4 DEF StoreOr
    <3> QED
      BY <1>2, <3>1, SameRows DEF TypeInv
  <2>5. Rewritten
    BY <2>3, <2>4
  <2>6. TypeOK'
    BY <1>2, <2>5, RewrittenTable, TablesTyped DEF TypeInv, TypeOK
  <2>7. ObjectsOK'
    BY <1>2 DEF TypeInv, TypeOK, ObjectsOK, StoreOr, Free
  <2> QED
    BY <2>5, <2>6, <2>7 DEF TypeInv
<1> QED
  BY <1>3, <1>4

LEMMA StoreAndType ==
  ASSUME TypeInv, NEW w \in Requests, StoreAnd(w)
  PROVE  TypeInv' /\ (Rewritten \/ Creates(w))
<1>1. /\ builds[cur[w]].event \in 1 .. Len(events) /\ tgt[w] \in Jobs /\ par[w] \in Parents
      /\ Len(events) \in Nat /\ Len(builds) \in Nat
  BY CurType, TableType DEF TypeInv, TypeOK, ObjectsOK, StoreAnd
<1>2. /\ pc' \in [Requests -> {"idle", "remove", "next", "store", "check"}]
      /\ lock' \in Requests \cup {None}
      /\ UNCHANGED <<events, cur, todo, tgt, par>>
  BY DEF TypeInv, TypeOK, StoreAnd, Free
<1>3. ObjectsOK'
  BY <1>2 DEF TypeInv, TypeOK, ObjectsOK, StoreAnd, Free
<1>4. CASE nb[w] = NoId
  <2>1. /\ builds' = Append(builds, Row(builds[cur[w]].event, tgt[w], "CREATED", par[w]))
        /\ nb' = [nb EXCEPT ![w] = Len(builds')]
    BY <1>4 DEF StoreAnd
  <2>2. Creates(w)
    BY <1>1, <1>4, <2>1 DEF Creates, Added, Status
  <2>3. builds' \in Seq(Rows(Len(events))) /\ Len(builds') = Len(builds) + 1
    BY <1>1, <2>2, AddedTable DEF TypeInv, Creates
  <2>4. nb' \in [Requests -> 0 .. Len(builds')]
    BY <1>1, <2>1, <2>3 DEF TypeInv, TypeOK
  <2>5. TypeOK'
    BY <1>2, <2>3, <2>4, TablesTyped DEF TypeInv, TypeOK
  <2> QED
    BY <1>3, <2>2, <2>5 DEF TypeInv
<1>5. CASE nb[w] # NoId /\ builds[nb[w]].status # "REMOVED"
  <2>1. nb[w] \in DOMAIN builds
    BY <1>5, TableType DEF TypeInv, TypeOK, NoId
  <2> DEFINE r == [builds[nb[w]] EXCEPT !.parents = MergedParents(par[w], @)]
  <2>2. builds[nb[w]] \in Rows(Len(events))
    BY <2>1, TableType DEF TypeInv
  <2>3. MergedParents(par[w], builds[nb[w]].parents) \in Parents
    BY <1>1, <2>2 DEF MergedParents, Rows, Parents
  <2>4. /\ r \in Rows(Len(events))
        /\ r.event = builds[nb[w]].event /\ r.job = builds[nb[w]].job
    BY <2>2, <2>3 DEF Rows
  <2>5. builds' = [builds EXCEPT ![nb[w]] = r] /\ nb' = nb
    BY <1>5 DEF StoreAnd
  <2> HIDE DEF r
  <2>6. Rewritten
    BY <1>2, <1>5, <2>1, <2>4, <2>5, OneRow DEF TypeInv
  <2>7. TypeOK'
    BY <1>2, <2>5, <2>6, RewrittenTable, TablesTyped DEF TypeInv, TypeOK
  <2> QED
    BY <1>3, <2>6, <2>7 DEF TypeInv
<1>6. CASE nb[w] # NoId /\ builds[nb[w]].status = "REMOVED"
  <2>1. builds' = builds /\ nb' = nb
    BY <1>6 DEF StoreAnd
  <2>2. Rewritten
    BY <1>2, <2>1, SameRows DEF TypeInv
  <2>3. TypeOK'
    BY <1>2, <2>1, <2>2, RewrittenTable, TablesTyped DEF TypeInv, TypeOK
  <2> QED
    BY <1>3, <2>2, <2>3 DEF TypeInv
<1> QED
  BY <1>4, <1>5, <1>6

LEMMA CheckType ==
  ASSUME TypeInv, NEW w \in Requests, Check(w)
  PROVE  TypeInv' /\ Rewritten
<1> DEFINE b == nb[w]
<1>1. /\ pc' \in [Requests -> {"idle", "remove", "next", "store", "check"}]
      /\ lock' \in Requests \cup {None}
      /\ UNCHANGED <<events, cur, todo, tgt, nb, par>>
      /\ builds' = Verdict(tgt[w], b)
  BY DEF TypeInv, TypeOK, Check, Free
<1>2. CASE builds' = builds
  BY <1>1, <1>2, SameRows, RewrittenTable, TablesTyped
  DEF TypeInv, TypeOK, ObjectsOK, Check, Free
<1>3. CASE builds' # builds
  <2>1. /\ builds[b].status = "CREATED"
        /\ \/ builds' = [builds EXCEPT ![b].status = "REMOVED"]
           \/ builds' = [builds EXCEPT ![b] = Started(@)]
    BY <1>1, <1>3 DEF Verdict
  <2>2. b \in DOMAIN builds
    <3>1. CASE b \notin DOMAIN builds
      BY <1>3, <2>1, <3>1, TableType DEF TypeInv
    <3> QED
      BY <3>1
  <2>3. builds[b] \in Rows(Len(events))
    BY <2>2, TableType DEF TypeInv
  <2>4. \E r \in Rows(Len(events)) :
          /\ builds' = [builds EXCEPT ![b] = r]
          /\ r.event = builds[b].event /\ r.job = builds[b].job
    <3>1. /\ [builds[b] EXCEPT !.status = "REMOVED"] \in Rows(Len(events))
          /\ Started(builds[b]) \in Rows(Len(events))
          /\ Started(builds[b]).event = builds[b].event /\ Started(builds[b]).job = builds[b].job
          /\ [builds[b] EXCEPT !.status = "REMOVED"].event = builds[b].event
          /\ [builds[b] EXCEPT !.status = "REMOVED"].job = builds[b].job
      BY <2>3 DEF Rows, Started, Status
    <3> QED
      BY <2>1, <3>1
  <2>5. Rewritten
    BY <1>1, <2>1, <2>2, <2>4, OneRow DEF TypeInv
  <2>6. TypeOK'
    BY <1>1, <2>5, RewrittenTable, TablesTyped DEF TypeInv, TypeOK
  <2>7. ObjectsOK'
    BY <1>1 DEF TypeInv, TypeOK, ObjectsOK, Check, Free
  <2> QED
    BY <2>5, <2>6, <2>7 DEF TypeInv
<1> QED
  BY <1>2, <1>3

\* The build of a restart is in the event of the restart.
LEMMA RestartType ==
  ASSUME TypeInv, NEW b \in DOMAIN builds, RestartFrom(b)
  PROVE  TypeInv' /\ Added(Len(events) + 1, builds[b].job)
<1>1. builds[b] \in Rows(Len(events)) /\ Len(events) \in Nat /\ Len(builds) \in Nat
  BY TableType DEF TypeInv
<1> DEFINE ev == [from |-> builds[b].job, parent |-> builds[b].event]
<1>2. /\ builds[b].job \in Jobs /\ builds[b].event \in 1 .. Len(events)
      /\ builds[b].parents \in Parents
  BY <1>1 DEF Rows
<1>3. Len(events) \in 1 .. MaxEvents /\ Len(events) < MaxEvents /\ MaxEvents \in Nat
  BY RestartAssumption DEF TypeInv, TypeOK, RestartFrom
<1>4. ev \in [from : Jobs \cup {"~commit"}, parent : 0 .. MaxEvents]
  BY <1>2, <1>3
<1>5. events' = Append(events, ev)
      /\ events \in Seq([from : Jobs \cup {"~commit"}, parent : 0 .. MaxEvents])
  BY DEF RestartFrom, TypeInv, TypeOK
<1> HIDE DEF ev
<1>6. /\ events' \in Seq([from : Jobs \cup {"~commit"}, parent : 0 .. MaxEvents])
      /\ Len(events') = Len(events) + 1
  BY <1>4, <1>5
<1>7. Added(Len(events) + 1, builds[b].job)
  BY <1>2, <1>6 DEF Added, RestartFrom, Status
<1>8. /\ builds' \in Seq(Rows(Len(events) + 1)) /\ Len(builds') = Len(builds) + 1
  BY <1>1, <1>2, <1>7, AddedTable DEF TypeInv
<1>9. /\ cur' \in [Requests -> 0 .. Len(builds')] /\ nb' \in [Requests -> 0 .. Len(builds')]
      /\ UNCHANGED <<lock, pc, todo, tgt, par>>
  BY <1>1, <1>8 DEF TypeInv, TypeOK, RestartFrom, locals
<1>10. TypeOK'
  <2>1. Len(events') \in 1 .. MaxEvents
    BY <1>3, <1>6
  <2>2. builds' \in Seq(Rows(Len(events')))
    BY <1>6, <1>8
  <2> QED
    BY <1>6, <1>9, <2>1, <2>2 DEF TypeInv, TypeOK, Rows
<1>11. ObjectsOK'
  BY DEF TypeInv, ObjectsOK, RestartFrom, locals
<1> QED
  BY <1>7, <1>10, <1>11 DEF TypeInv

\* The first event has the builds of the jobs that wait for nothing.
LEMMA InitRows ==
  ASSUME Init
  PROVE  /\ Len(events) = 1 /\ builds \in Seq(Rows(1))
         /\ \A i, n \in DOMAIN builds : builds[i].job = builds[n].job => i = n
<1>1. PICK o \in SetToSeqs(Roots) : builds = [i \in DOMAIN o |-> Row(1, o[i], "QUEUED", NoParents)]
  BY DEF Init
<1>2. IsFiniteSet(Roots) /\ Roots \subseteq Jobs
  BY RestartAssumption, FS_Subset DEF Roots
<1> DEFINE n == Cardinality(Roots)
<1>3. n \in Nat
  BY <1>2, FS_CardinalityType
<1>4. o \in [1 .. n -> Roots] /\ \A i, j \in 1 .. n : i # j => o[i] # o[j]
  BY <1>1 DEF SetToSeqs
<1>5. \A j \in Jobs : Row(1, j, "QUEUED", NoParents) \in Rows(1)
  BY DEF Row, Rows, Status, NoParents, Parents, NoId
<1> HIDE DEF n
<1>6. builds \in [1 .. n -> Rows(1)]
  BY <1>1, <1>2, <1>4, <1>5
<1>7. builds \in Seq(Rows(1))
  BY <1>3, <1>6, SeqDef
<1>8. \A i \in DOMAIN builds : i \in 1 .. n /\ builds[i].job = o[i]
  BY <1>1, <1>4 DEF Row
<1> QED
  BY <1>4, <1>7, <1>8 DEF Init

LEMMA InitType == ASSUME Init PROVE TypeInv
<1>1. Len(events) = 1 /\ builds \in Seq(Rows(1)) /\ Len(builds) \in Nat
  BY InitRows, LenProperties
<1>2. events \in Seq([from : Jobs \cup {"~commit"}, parent : 0 .. MaxEvents])
  BY RestartAssumption DEF Init
<1>3. 1 \in 1 .. MaxEvents
  BY RestartAssumption
<1>4. /\ lock \in Requests \cup {None}
      /\ pc \in [Requests -> {"idle", "remove", "next", "store", "check"}]
      /\ cur \in [Requests -> 0 .. Len(builds)] /\ nb \in [Requests -> 0 .. Len(builds)]
      /\ todo \in [Requests -> SUBSET Jobs] /\ tgt \in [Requests -> Jobs \cup {None}]
  BY <1>1 DEF Init, NoId
<1>5. par \in [Requests -> Parents]
  <2>1. NoParents \in Parents
    BY DEF NoParents, Parents, NoId
  <2> QED
    BY <2>1 DEF Init
<1>6. ObjectsOK
  BY DEF Init, ObjectsOK
<1>7. TypeOK
  BY <1>1, <1>2, <1>3, <1>4, <1>5 DEF TypeOK, Rows
<1> QED
  BY <1>6, <1>7 DEF TypeInv

-----------------------------------------------------------------------------
(* One build of a job per event *)

\* A request that has looked for the next build holds the lock.
LockHeld == \A w \in Requests : pc[w] \in {"store", "check"} => lock = w

\* If it has found none there is none, until it has created it.
AbsentAtStore ==
  \A w \in Requests :
    pc[w] = "store" /\ nb[w] = NoId => IdsIn(builds[cur[w]].event, tgt[w]) = {}

SafeInv == TypeInv /\ LockHeld /\ AbsentAtStore /\ OneBuildPerEvent

\* A step of one request that leaves the others' objects alone.
Alone(w) ==
  \A q \in Requests \ {w} :
    pc'[q] = pc[q] /\ nb'[q] = nb[q] /\ cur'[q] = cur[q] /\ tgt'[q] = tgt[q]

LEMMA RewrittenReads ==
  ASSUME TypeInv, Rewritten
  PROVE  /\ \A e, k : IdsIn(e, k)' \subseteq IdsIn(e, k)
         /\ OneBuildPerEvent => OneBuildPerEvent'
<1>1. DOMAIN builds' = DOMAIN builds
  BY RewrittenTable DEF TypeInv
<1>2. \A e, k : IdsIn(e, k)' \subseteq IdsIn(e, k)
  BY <1>1 DEF Rewritten, IdsIn, Ids
<1>3. OneBuildPerEvent => OneBuildPerEvent'
  BY <1>1 DEF Rewritten, OneBuildPerEvent
<1> QED
  BY <1>2, <1>3

\* A step that adds no row keeps the invariant if it keeps the lock for those
\* who have it.
LEMMA RewrittenSafe ==
  ASSUME SafeInv, TypeInv', Rewritten, NEW w \in Requests, Alone(w),
         lock' = lock \/ lock \in {w, None},
         pc'[w] \in {"store", "check"} => lock' = w,
         pc'[w] = "store" /\ nb'[w] = NoId =>
           \E e, k : e = builds'[cur'[w]].event /\ k = tgt'[w] /\ IdsIn(e, k) = {}
  PROVE  SafeInv'
<1>1. LockHeld'
  BY RestartAssumption DEF SafeInv, LockHeld, Alone
<1>2. AbsentAtStore'
  <2> SUFFICES ASSUME NEW q \in Requests, pc'[q] = "store", nb'[q] = NoId
               PROVE  IdsIn(builds[cur[q]].event, tgt[q])' = {}
    BY DEF AbsentAtStore
  <2>1. \A e, k : IdsIn(e, k)' \subseteq IdsIn(e, k)
    BY RewrittenReads DEF SafeInv
  <2>2. CASE q = w
    <3>1. PICK e, k : e = builds'[cur'[w]].event /\ k = tgt'[w] /\ IdsIn(e, k) = {}
      BY <2>2
    <3>2. IdsIn(e, k)' = {}
      BY <2>1, <3>1
    <3> QED
      BY <2>2, <3>1, <3>2
  <2>3. CASE q # w
    <3>1. pc[q] = "store" /\ nb[q] = NoId /\ cur'[q] = cur[q] /\ tgt'[q] = tgt[q]
      BY <2>3 DEF Alone
    <3>2. builds'[cur[q]].event = builds[cur[q]].event
      BY <3>1, CurType DEF SafeInv, Rewritten
    <3>3. IdsIn(builds[cur[q]].event, tgt[q]) = {}
      BY <3>1 DEF SafeInv, AbsentAtStore
    <3> QED
      BY <2>1, <3>1, <3>2, <3>3
  <2> QED
    BY <2>2, <2>3
<1>3. OneBuildPerEvent'
  BY RewrittenReads DEF SafeInv
<1> QED
  BY <1>1, <1>2, <1>3 DEF SafeInv

\* A row added for a job that has none in its event is the only one there, and
\* the rows of other events and jobs are those there were.
LEMMA AddedReads ==
  ASSUME TypeInv, NEW n \in Nat, Len(events) <= n, NEW e \in 1 .. n, NEW k \in Jobs,
         Added(e, k), IdsIn(e, k) = {}
  PROVE  /\ OneBuildPerEvent => OneBuildPerEvent'
         /\ \A d, j : d # e => IdsIn(d, j)' = IdsIn(d, j)
<1>1. /\ Len(builds) \in Nat /\ DOMAIN builds = 1 .. Len(builds)
      /\ DOMAIN builds' = 1 .. Len(builds) + 1
      /\ \A i \in DOMAIN builds : builds'[i] = builds[i]
      /\ builds'[Len(builds) + 1].event = e /\ builds'[Len(builds) + 1].job = k
  BY AddedTable, TableType DEF TypeInv
<1>2. \A i \in DOMAIN builds :
        ~(builds[i].event = e /\ builds[i].job = k /\ builds[i].status # "REMOVED")
  BY DEF IdsIn, Ids
<1>3. OneBuildPerEvent => OneBuildPerEvent'
  BY <1>1, <1>2 DEF OneBuildPerEvent
<1>4. \A d, j : d # e => IdsIn(d, j)' = IdsIn(d, j)
  BY <1>1 DEF IdsIn, Ids
<1> QED
  BY <1>3, <1>4

\* The build that a request adds is the only one, and nobody else was about to
\* add one.
LEMMA CreatesSafe ==
  ASSUME SafeInv, TypeInv', NEW w \in Requests, pc[w] = "store", Creates(w), Alone(w),
         \/ lock' = lock /\ pc'[w] = "check"
         \/ lock' = None /\ pc'[w] = "next"
  PROVE  SafeInv'
<1>1. /\ Len(events) \in Nat /\ tgt[w] \in Jobs
      /\ builds[cur[w]].event \in 1 .. Len(events)
  BY CurType, TableType DEF SafeInv, TypeInv, ObjectsOK
<1>2. IdsIn(builds[cur[w]].event, tgt[w]) = {} /\ lock = w
  BY DEF SafeInv, AbsentAtStore, LockHeld, Creates
<1>3. OneBuildPerEvent'
  BY <1>1, <1>2, AddedReads DEF SafeInv, Creates
<1>4. \A q \in Requests : q # w => pc'[q] \notin {"store", "check"}
  BY <1>2 DEF SafeInv, LockHeld, Alone
<1>5. LockHeld' /\ AbsentAtStore'
  BY <1>2, <1>4 DEF LockHeld, AbsentAtStore
<1> QED
  BY <1>3, <1>5 DEF SafeInv

\* The build of a restart is alone in its event, and no request looks there yet.
LEMMA RestartSafe ==
  ASSUME SafeInv, NEW b \in DOMAIN builds, RestartFrom(b)
  PROVE  SafeInv'
<1> DEFINE n == Len(events) + 1
<1>1. /\ TypeInv' /\ Added(n, builds[b].job)
  BY RestartType DEF SafeInv
<1>2. /\ Len(events) \in Nat /\ builds[b].job \in Jobs
      /\ \A i \in DOMAIN builds : builds[i].event \in 1 .. Len(events)
  BY TableType DEF SafeInv, TypeInv, Rows
<1>3. n \in Nat /\ Len(events) <= n /\ n \in 1 .. n /\ n \notin 1 .. Len(events)
  BY <1>2
<1> HIDE DEF n
<1>4. IdsIn(n, builds[b].job) = {}
  BY <1>2, <1>3 DEF IdsIn, Ids
<1>5. /\ OneBuildPerEvent'
      /\ \A d, j : d # n => IdsIn(d, j)' = IdsIn(d, j)
  BY <1>1, <1>2, <1>3, <1>4, AddedReads DEF SafeInv
<1>6. \A i \in DOMAIN builds : builds'[i] = builds[i]
  BY <1>1, <1>2, <1>3, AddedTable DEF SafeInv, TypeInv
<1>7. UNCHANGED <<lock, pc, cur, tgt, nb>>
  BY DEF RestartFrom, locals
<1>8. AbsentAtStore'
  <2> SUFFICES ASSUME NEW q \in Requests, pc[q] = "store", nb[q] = NoId
               PROVE  IdsIn(builds[cur[q]].event, tgt[q])' = {}
    BY <1>7 DEF AbsentAtStore
  <2>1. cur[q] \in DOMAIN builds
    BY CurType DEF SafeInv
  <2>2. builds'[cur[q]].event = builds[cur[q]].event /\ builds[cur[q]].event # n
    BY <1>2, <1>3, <1>6, <2>1
  <2>3. IdsIn(builds[cur[q]].event, tgt[q]) = {}
    BY DEF SafeInv, AbsentAtStore
  <2> QED
    BY <1>5, <1>7, <2>2, <2>3
<1>9. LockHeld'
  BY <1>7 DEF SafeInv, LockHeld
<1> QED
  BY <1>1, <1>5, <1>8, <1>9 DEF SafeInv

LEMMA FinishSafe ==
  ASSUME SafeInv, NEW w \in Requests, NEW b \in DOMAIN builds, NEW s \in Ended, Finish(w, b, s)
  PROVE  SafeInv'
<1>1. TypeInv' /\ Rewritten
  BY FinishType DEF SafeInv
<1>2. Alone(w) /\ lock' = lock /\ pc'[w] \in {"next", "remove"}
  BY DEF SafeInv, TypeInv, TypeOK, Finish, Alone
<1> QED
  BY <1>1, <1>2, RewrittenSafe

LEMMA FindSafe == ASSUME SafeInv, NEW w \in Requests, Find(w) PROVE SafeInv'
<1>1. /\ TypeInv' /\ Rewritten
      /\ nb'[w] = NoId => IdsIn(builds[cur[w]].event, tgt'[w]) = {}
  BY FindType DEF SafeInv
<1>2. Alone(w) /\ lock' = w /\ lock = None /\ cur' = cur /\ builds' = builds
  BY DEF SafeInv, TypeInv, TypeOK, Find, Alone
<1> QED
  BY <1>1, <1>2, RewrittenSafe

LEMMA StepSafe == ASSUME SafeInv, NEW w \in Requests, Step(w) PROVE SafeInv'
<1>1. CASE Answered(w)
  <2>1. TypeInv' /\ Rewritten
    BY <1>1, AnsweredType DEF SafeInv
  <2>2. Alone(w) /\ lock' = lock /\ pc'[w] = "idle"
    BY <1>1 DEF SafeInv, TypeInv, TypeOK, Answered, Alone
  <2> QED
    BY <2>1, <2>2, RewrittenSafe
<1>2. CASE RemoveJoin(w)
  <2>1. TypeInv' /\ Rewritten
    BY <1>2, RemoveType DEF SafeInv
  <2>2. Alone(w) /\ lock' = lock /\ pc'[w] = "remove"
    BY <1>2 DEF RemoveJoin, Alone
  <2> QED
    BY <2>1, <2>2, RewrittenSafe
<1>3. CASE Find(w)
  BY <1>3, FindSafe
<1>4. CASE StoreOr(w) \/ StoreAnd(w)
  <2>1. TypeInv' /\ (Rewritten \/ Creates(w)) /\ pc[w] = "store"
    BY <1>4, StoreOrType, StoreAndType DEF SafeInv, StoreOr, StoreAnd
  <2>2. Alone(w)
    BY <1>4 DEF SafeInv, TypeInv, TypeOK, StoreOr, StoreAnd, Free, Alone
  <2>3. \/ lock' = lock /\ pc'[w] = "check"
        \/ lock' = None /\ pc'[w] = "next"
    BY <1>4 DEF SafeInv, TypeInv, TypeOK, StoreOr, StoreAnd, Free
  <2>4. lock = w
    BY <2>1 DEF SafeInv, LockHeld
  <2>5. CASE Rewritten
    BY <2>1, <2>2, <2>3, <2>4, <2>5, RewrittenSafe
  <2>6. CASE Creates(w)
    BY <2>1, <2>2, <2>3, <2>6, CreatesSafe
  <2> QED
    BY <2>1, <2>5, <2>6
<1>5. CASE Check(w)
  <2>1. TypeInv' /\ Rewritten
    BY <1>5, CheckType DEF SafeInv
  <2>2. Alone(w) /\ lock' = None /\ lock = w /\ pc'[w] = "next"
    BY <1>5 DEF SafeInv, TypeInv, TypeOK, LockHeld, Check, Free, Alone
  <2> QED
    BY <2>1, <2>2, RewrittenSafe
<1> QED
  BY <1>1, <1>2, <1>3, <1>4, <1>5 DEF Step

LEMMA InitSafe == ASSUME Init PROVE SafeInv
<1>1. TypeInv
  BY InitType
<1>2. OneBuildPerEvent
  BY InitRows DEF OneBuildPerEvent
<1> QED
  BY <1>1, <1>2 DEF Init, SafeInv, LockHeld, AbsentAtStore

LEMMA SafeInductive == SafeInv /\ [Next]_vars => SafeInv'
<1> SUFFICES ASSUME SafeInv, [Next]_vars PROVE SafeInv'
  OBVIOUS
<1>1. ASSUME NEW b \in DOMAIN builds, RestartFrom(b) PROVE SafeInv'
  BY <1>1, RestartSafe
<1>2. ASSUME NEW w \in Requests, NEW b \in DOMAIN builds, NEW s \in Ended, Finish(w, b, s)
      PROVE  SafeInv'
  BY <1>2, FinishSafe
<1>3. ASSUME NEW w \in Requests, Step(w) PROVE SafeInv'
  BY <1>3, StepSafe
<1>4. CASE UNCHANGED vars
  BY <1>4 DEF vars, locals, SafeInv, TypeInv, TypeOK, ObjectsOK, LockHeld, AbsentAtStore,
              OneBuildPerEvent, IdsIn, Ids
<1> QED
  BY <1>1, <1>2, <1>3, <1>4 DEF Next

LEMMA SafeAlways == Spec => []SafeInv
<1>1. Init => SafeInv
  BY InitSafe
<1>2. SafeInv /\ [Next]_vars => SafeInv'
  BY SafeInductive
<1> QED
  BY <1>1, <1>2, PTL DEF Spec

\* The variables of Restart keep their types, whatever is restarted.
THEOREM TypeCorrect == Spec => []TypeOK
<1>1. SafeInv => TypeOK
  BY DEF SafeInv, TypeInv
<1> QED
  BY <1>1, SafeAlways, PTL

\* An event never holds two builds of a job, however many builds of the group
\* are restarted while others end, are joined, removed or started
\* (triggers/and.js, or.js, events/create.js).
THEOREM OneBuild == Spec => []OneBuildPerEvent
<1>1. SafeInv => OneBuildPerEvent
  BY DEF SafeInv
<1> QED
  BY <1>1, SafeAlways, PTL

-----------------------------------------------------------------------------
(* What a join is started with *)

\* Facts about a table t of builds of the events ev.
InTable(t, p)  == \A j \in Jobs : p[j] = NoId \/ p[j] \in DOMAIN t
Succeeded(t, i) == i \in DOMAIN t /\ t[i].status = "SUCCESS"

\* The parents of a row are rows, and a join was started with ones that have
\* succeeded, unless the event began with it.
RowSound(ev, t, r) ==
  /\ InTable(t, r.parents)
  /\ JoinOnly(r.job) /\ r.status \in {"QUEUED"} \cup Ended /\ ev[r.event].from # r.job
       => \A j \in JoinSrc(r.job) : Succeeded(t, r.used[j])

\* The build a request has found is one of the job it looked for.
FoundWell(w) ==
  /\ InTable(builds, par[w])
  /\ pc[w] \in {"store", "check"} /\ nb[w] # NoId => builds[nb[w]].job = tgt[w]

SourceInv ==
  /\ SafeInv
  /\ \A i \in DOMAIN builds : RowSound(events, builds, builds[i])
  /\ \A w \in Requests : FoundWell(w)

\* Rows stay in their place, and those that have succeeded do not change.
Advances ==
  /\ \A i \in DOMAIN builds :
       /\ i \in DOMAIN builds' /\ builds'[i].job = builds[i].job
       /\ builds'[i].event = builds[i].event
       /\ builds[i].status = "SUCCESS" => builds'[i].status = "SUCCESS"
  /\ \A e \in 1 .. Len(events) : events'[e] = events[e]

LEMMA SoundLasts ==
  ASSUME Advances
  PROVE  /\ \A p : InTable(builds, p) => InTable(builds', p)
         /\ \A r : r.event \in 1 .. Len(events) /\ RowSound(events, builds, r)
                     => RowSound(events', builds', r)
<1>1. \A p : InTable(builds, p) => InTable(builds', p)
  BY DEF InTable, Advances
<1>2. \A i : Succeeded(builds, i) => Succeeded(builds', i)
  BY DEF Succeeded, Advances
<1>3. \A e \in 1 .. Len(events) : events'[e] = events[e]
  BY DEF Advances
<1> QED
  BY <1>1, <1>2, <1>3 DEF RowSound

\* With the changed rows sound, the objects of the other requests are as they were.
LEMMA SourceStep ==
  ASSUME SourceInv, SafeInv', Advances, NEW w \in Requests, Alone(w),
         \A q \in Requests \ {w} : par'[q] = par[q], FoundWell(w)',
         \A i \in DOMAIN builds' :
           (i \in DOMAIN builds /\ builds'[i] = builds[i]) \/ RowSound(events', builds', builds'[i])
  PROVE  SourceInv'
<1>1. TypeOK /\ \A i \in DOMAIN builds : builds[i].event \in 1 .. Len(events)
  BY TableType DEF SourceInv, SafeInv, TypeInv, Rows
<1>2. \A i \in DOMAIN builds' : RowSound(events', builds', builds'[i])
  BY <1>1, SoundLasts DEF SourceInv
<1>3. ASSUME NEW q \in Requests \ {w} PROVE FoundWell(q)'
  <2>1. FoundWell(q) /\ InTable(builds', par[q])
    BY SoundLasts DEF SourceInv, FoundWell
  <2>2. nb[q] # NoId => nb[q] \in DOMAIN builds
    BY <1>1, TableType DEF TypeOK, NoId
  <2> QED
    BY <2>1, <2>2 DEF FoundWell, Alone, Advances
<1> QED
  BY <1>2, <1>3 DEF SourceInv

\* What the reads find are builds of the job they ask for.
LEMMA ReadJob ==
  ASSUME TypeOK, NEW e \in Nat, NEW k \in Jobs
  PROVE  /\ Latest(k) # NoId => Latest(k) \in Ids(k)
         /\ CurrentBuild(e, k) # NoId => CurrentBuild(e, k) \in Ids(k)
         /\ NextBuild(e, k) # NoId => NextBuild(e, k) \in Ids(k)
<1>1. Len(builds) \in Nat /\ DOMAIN builds = 1 .. Len(builds)
  BY TableType
<1>2. \A S \in SUBSET Ids(k) : Newest(S) # NoId => Newest(S) \in Ids(k)
  <2> SUFFICES ASSUME NEW S \in SUBSET Ids(k), Newest(S) # NoId PROVE Newest(S) \in Ids(k)
    OBVIOUS
  <2>1. S # {} /\ S \subseteq 1 .. Len(builds)
    BY <1>1 DEF Newest, Ids
  <2> QED
    BY <1>1, <2>1, NewestType
<1>3. /\ Latest(k) # NoId => Latest(k) \in Ids(k)
      /\ CurrentBuild(e, k) # NoId => CurrentBuild(e, k) \in Ids(k)
  BY <1>2 DEF Latest, CurrentBuild, IdsIn
<1>4. ChildBuild(e, k) # NoId => ChildBuild(e, k) \in Ids(k)
  <2> DEFINE S == {i \in Ids(k) : events[builds[i].event].parent = e}
  <2> SUFFICES ASSUME ChildBuild(e, k) # NoId PROVE ChildBuild(e, k) \in S
    OBVIOUS
  <2>1. S # {}
    BY DEF ChildBuild
  <2>2. \E i \in S : \A l \in S : builds[l].event <= builds[i].event
    <3> DEFINE T == {builds[i].event : i \in S}
    <3>1. T \subseteq 1 .. Len(events) /\ T # {} /\ Len(events) \in Nat
      BY <2>1, TableType DEF Ids, Rows
    <3>2. PICK m \in T : \A l \in T : l <= m
      BY <3>1, MaxExists
    <3> QED
      BY <3>2
  <2> QED
    BY <2>1, <2>2 DEF ChildBuild
<1>5. GroupBuild(e, k) # NoId => GroupBuild(e, k) \in Ids(k)
  BY <1>3 DEF GroupBuild
<1> QED
  BY <1>3, <1>4, <1>5 DEF NextBuild

\* The parents computed for a next build are builds.
LEMMA ParentsFound ==
  ASSUME TypeOK, NEW c \in DOMAIN builds, InTable(builds, builds[c].parents), NEW k \in Jobs
  PROVE  InTable(builds, OwnParents(c)) /\ InTable(builds, FilledParents(c, k))
<1>1. builds[c] \in Rows(Len(events)) /\ builds[c].event \in Nat
  BY TableType DEF Rows
<1>2. \A j \in Jobs : OwnParents(c)[j] = IF j = builds[c].job THEN c ELSE builds[c].parents[j]
  BY <1>1 DEF OwnParents, Rows, Parents
<1>3. InTable(builds, OwnParents(c))
  BY <1>2 DEF InTable
<1>4. \A j \in Jobs : Related(builds[c].event, j) # NoId => Related(builds[c].event, j) \in DOMAIN builds
  BY <1>1, ReadJob DEF Related, Ids
<1>5. \A j \in Jobs : FilledParents(c, k)[j] \in {OwnParents(c)[j], Related(builds[c].event, j)}
  BY DEF FilledParents
<1> QED
  BY <1>3, <1>4, <1>5 DEF InTable

\* A step that writes no row and adds none.
LEMMA SourceQuiet ==
  ASSUME SourceInv, SafeInv', UNCHANGED <<events, builds>>, NEW w \in Requests, Alone(w),
         \A q \in Requests \ {w} : par'[q] = par[q], FoundWell(w)'
  PROVE  SourceInv'
<1>1. Advances
  BY DEF Advances
<1> QED
  BY <1>1, SourceStep

LEMMA AnsweredSource ==
  ASSUME SourceInv, SafeInv', NEW w \in Requests, Answered(w)
  PROVE  SourceInv'
<1>1. /\ UNCHANGED <<events, builds, par>> /\ Alone(w) /\ pc'[w] = "idle" /\ FoundWell(w)
  BY DEF SourceInv, SafeInv, TypeInv, TypeOK, Answered, Alone
<1>2. FoundWell(w)'
  BY <1>1 DEF FoundWell
<1> QED
  BY <1>1, <1>2, SourceQuiet

LEMMA FinishSource ==
  ASSUME SourceInv, SafeInv', NEW w \in Requests, NEW b \in DOMAIN builds, NEW s \in Ended,
         Finish(w, b, s)
  PROVE  SourceInv'
<1>1. /\ builds[b] \in Rows(Len(events)) /\ builds[b].status = "QUEUED" /\ FoundWell(w)
      /\ UNCHANGED <<events, par>> /\ builds' = [builds EXCEPT ![b].status = s]
  BY TableType DEF SourceInv, SafeInv, TypeInv, Finish
<1>2. Alone(w) /\ pc'[w] \in {"next", "remove"}
  BY DEF SourceInv, SafeInv, TypeInv, TypeOK, Finish, Alone
<1>3. /\ DOMAIN builds' = DOMAIN builds
      /\ \A i \in DOMAIN builds : i # b => builds'[i] = builds[i]
      /\ builds'[b].job = builds[b].job /\ builds'[b].event = builds[b].event
      /\ builds'[b].parents = builds[b].parents /\ builds'[b].used = builds[b].used
  BY <1>1 DEF Rows
<1>4. Advances
  BY <1>1, <1>3 DEF Advances
<1>5. RowSound(events', builds', builds'[b])
  <2>1. RowSound(events, builds, builds[b]) /\ builds[b].event \in 1 .. Len(events)
    BY <1>1 DEF SourceInv, Rows
  <2>2. RowSound(events', builds', builds[b])
    BY <1>4, <2>1, SoundLasts
  <2> QED
    BY <1>1, <1>3, <2>2 DEF RowSound
<1>6. FoundWell(w)'
  BY <1>1, <1>2, <1>4, SoundLasts DEF FoundWell
<1> QED
  BY <1>1, <1>2, <1>3, <1>4, <1>5, <1>6, SourceStep

LEMMA RemoveSource ==
  ASSUME SourceInv, SafeInv', NEW w \in Requests, RemoveJoin(w)
  PROVE  SourceInv'
<1>1. PICK k \in todo[w] : builds' = RemoveNext(cur[w], k)
  BY DEF RemoveJoin
<1>2. UNCHANGED <<events, par>> /\ Alone(w) /\ pc'[w] = "remove" /\ FoundWell(w)
  BY DEF SourceInv, RemoveJoin, Alone
<1>3. /\ DOMAIN builds' = DOMAIN builds
      /\ \A i \in DOMAIN builds :
           \/ builds'[i] = builds[i]
           \/ builds[i].status = "CREATED" /\ builds'[i] = [builds[i] EXCEPT !.status = "REMOVED"]
  BY <1>1 DEF RemoveNext
<1>4. \A i \in DOMAIN builds :
        /\ builds'[i].job = builds[i].job /\ builds'[i].event = builds[i].event
        /\ builds'[i].parents = builds[i].parents
        /\ \/ builds'[i] = builds[i]
           \/ builds[i].status = "CREATED" /\ builds'[i].status = "REMOVED"
  BY <1>3, TableType DEF SourceInv, SafeInv, TypeInv, Rows
<1>5. Advances
  BY <1>2, <1>3, <1>4 DEF Advances
<1>6. ASSUME NEW i \in DOMAIN builds', builds'[i] # builds[i]
      PROVE  RowSound(events', builds', builds'[i])
  <2>1. InTable(builds', builds'[i].parents)
    BY <1>3, <1>4, <1>5, SoundLasts DEF SourceInv, RowSound
  <2> QED
    BY <1>3, <1>4, <1>6, <2>1 DEF RowSound, Ended
<1>7. FoundWell(w)'
  BY <1>2, <1>5, SoundLasts DEF FoundWell
<1> QED
  BY <1>2, <1>3, <1>5, <1>6, <1>7, SourceStep

LEMMA FindSource ==
  ASSUME SourceInv, SafeInv', NEW w \in Requests, Find(w)
  PROVE  SourceInv'
<1> DEFINE c == cur[w]
           e == builds[cur[w]].event
<1>1. TypeOK /\ c \in DOMAIN builds /\ e \in Nat
  BY CurType, TableType DEF SourceInv, SafeInv, TypeInv, Find
<1>2. InTable(builds, builds[c].parents)
  BY <1>1 DEF SourceInv, RowSound
<1>3. PICK k \in todo[w] :
        /\ tgt'  = [tgt EXCEPT ![w] = k]
        /\ IF IsOr(builds[c].job, k)
           THEN nb' = [nb EXCEPT ![w] = CurrentBuild(e, k)] /\ par' = [par EXCEPT ![w] = OwnParents(c)]
           ELSE nb' = [nb EXCEPT ![w] = NextBuild(e, k)] /\ par' = [par EXCEPT ![w] = FilledParents(c, k)]
  BY DEF Find
<1>4. k \in Jobs /\ tgt'[w] = k /\ UNCHANGED <<events, builds, cur>>
  BY <1>1, <1>3 DEF TypeOK, Find
<1> HIDE DEF c, e
<1>5. InTable(builds, par'[w]) /\ (nb'[w] # NoId => nb'[w] \in Ids(k))
  <2>1. par'[w] \in {OwnParents(c), FilledParents(c, k)} /\ nb'[w] \in {CurrentBuild(e, k), NextBuild(e, k)}
    BY <1>1, <1>3 DEF TypeOK
  <2> QED
    BY <1>1, <1>2, <1>4, <2>1, ReadJob, ParentsFound
<1>6. FoundWell(w)'
  BY <1>4, <1>5 DEF FoundWell, Ids
<1>7. Alone(w) /\ \A q \in Requests \ {w} : par'[q] = par[q]
  BY <1>1, <1>3 DEF TypeOK, Find, Alone
<1> QED
  BY <1>4, <1>6, <1>7, SourceQuiet

\* The write of a row by a request at work.
LEMMA WriteSource ==
  ASSUME SourceInv, SafeInv', NEW w \in Requests, Alone(w), pc'[w] \in {"check", "next"},
         UNCHANGED <<events, par, nb, tgt>>, pc[w] \in {"store", "check"}, nb[w] # NoId,
         NEW r, builds' = [builds EXCEPT ![nb[w]] = r],
         r.job = tgt[w], r.event = builds[nb[w]].event, builds[nb[w]].status # "SUCCESS",
         InTable(builds, r.parents),
         JoinOnly(r.job) /\ r.status \in {"QUEUED"} \cup Ended /\ events[r.event].from # r.job
           => \A j \in JoinSrc(r.job) : Succeeded(builds, r.used[j])
  PROVE  SourceInv'
<1>1. TypeOK /\ FoundWell(w) /\ nb[w] \in DOMAIN builds /\ builds[nb[w]] \in Rows(Len(events))
  BY TableType DEF SourceInv, SafeInv, TypeInv, TypeOK, NoId
<1>2. /\ DOMAIN builds' = DOMAIN builds /\ builds'[nb[w]] = r
      /\ \A i \in DOMAIN builds : i # nb[w] => builds'[i] = builds[i]
  BY <1>1
<1>3. builds[nb[w]].job = tgt[w] /\ builds[nb[w]].event \in 1 .. Len(events)
  BY <1>1 DEF FoundWell, Rows
<1>4. Advances
  BY <1>2, <1>3 DEF Advances
<1>5. RowSound(events', builds', r)
  <2>1. RowSound(events, builds, r)
    BY DEF RowSound
  <2> QED
    BY <1>3, <1>4, <2>1, SoundLasts
<1>6. FoundWell(w)'
  BY <1>1, <1>2, <1>4, SoundLasts DEF FoundWell
<1> QED
  BY <1>2, <1>4, <1>5, <1>6, SourceStep

\* A row is added, for the event and the job given.
LEMMA AddSource ==
  ASSUME SourceInv, SafeInv', NEW n \in Nat, Len(events) <= n, NEW e \in 1 .. n,
         NEW k \in Jobs, NEW s \in Status, NEW p \in Parents,
         builds' = Append(builds, Row(e, k, s, p)), InTable(builds, p),
         \A d \in 1 .. Len(events) : events'[d] = events[d],
         JoinOnly(k) /\ s # "CREATED" => events'[e].from = k
  PROVE  /\ Advances /\ \A i \in DOMAIN builds : builds'[i] = builds[i]
         /\ DOMAIN builds' = DOMAIN builds \cup {Len(builds) + 1}
         /\ RowSound(events', builds', builds'[Len(builds) + 1])
         /\ builds'[Len(builds) + 1].job = k
<1>1. TypeOK /\ Added(e, k)
  BY DEF SourceInv, SafeInv, TypeInv, Added
<1>2. /\ DOMAIN builds = 1 .. Len(builds) /\ DOMAIN builds' = 1 .. Len(builds) + 1
      /\ \A i \in DOMAIN builds : builds'[i] = builds[i] /\ Len(builds) \in Nat
      /\ builds'[Len(builds) + 1].job = k
  BY <1>1, AddedTable, TableType
<1>3. builds'[Len(builds) + 1] = Row(e, k, s, p)
  BY <1>1 DEF TypeOK
<1>4. Advances
  BY <1>2 DEF Advances
<1>5. /\ Row(e, k, s, p).parents = p /\ Row(e, k, s, p).job = k
      /\ Row(e, k, s, p).event = e /\ Row(e, k, s, p).status = s
  BY DEF Row
<1>6. s # "CREATED" \/ s \notin {"QUEUED"} \cup Ended
  BY DEF Ended
<1>7. RowSound(events', builds', Row(e, k, s, p))
  BY <1>4, <1>5, <1>6, SoundLasts DEF RowSound
<1> QED
  BY <1>2, <1>3, <1>4, <1>7

\* OrBase.trigger is not how a job with a join only is started.
LEMMA StoreOrSource ==
  ASSUME SourceInv, SafeInv', NEW w \in Requests, StoreOr(w)
  PROVE  SourceInv'
<1> DEFINE e == builds[cur[w]].event
           k == tgt[w]
<1>1. /\ TypeOK /\ FoundWell(w) /\ Len(events) \in Nat /\ par[w] \in Parents
      /\ e \in 1 .. Len(events) /\ k \in Jobs /\ builds[cur[w]].job \in Jobs
  BY CurType, TableType DEF SourceInv, SafeInv, TypeInv, TypeOK, ObjectsOK, StoreOr
<1>2. /\ UNCHANGED <<events, cur, tgt, nb, par>> /\ pc[w] = "store" /\ pc'[w] = "next" /\ Alone(w)
  BY DEF SourceInv, SafeInv, TypeInv, TypeOK, StoreOr, Free, Alone
<1>3. ~JoinOnly(k)
  BY <1>1 DEF StoreOr, Or, JoinOnly
<1> HIDE DEF e, k
<1>4. CASE nb[w] = NoId
  <2>1. builds' = Append(builds, Row(e, k, "QUEUED", par[w]))
    BY <1>4 DEF StoreOr, e, k
  <2>2. InTable(builds, par[w]) /\ "QUEUED" \in Status
    BY <1>1 DEF FoundWell, Status
  <2>3. /\ Advances /\ \A i \in DOMAIN builds : builds'[i] = builds[i]
        /\ DOMAIN builds' = DOMAIN builds \cup {Len(builds) + 1}
        /\ RowSound(events', builds', builds'[Len(builds) + 1])
    BY <1>1, <1>2, <1>3, <2>1, <2>2, AddSource
  <2>4. FoundWell(w)'
    BY <1>2, <2>2, <2>3, SoundLasts DEF FoundWell
  <2> QED
    BY <1>2, <2>3, <2>4, SourceStep
<1>5. CASE nb[w] # NoId /\ builds[nb[w]].status = "CREATED"
  <2> DEFINE r == Started(builds[nb[w]])
  <2>1. nb[w] \in DOMAIN builds /\ builds[nb[w]] \in Rows(Len(events))
    BY <1>1, <1>5, TableType DEF TypeOK, NoId
  <2>2. builds' = [builds EXCEPT ![nb[w]] = r]
    BY <1>5 DEF StoreOr
  <2>3. /\ r.job = builds[nb[w]].job /\ r.event = builds[nb[w]].event
        /\ r.parents = builds[nb[w]].parents
    BY <2>1 DEF Started, Rows
  <2>4. InTable(builds, r.parents) /\ r.job = tgt[w]
    BY <1>1, <1>2, <1>5, <2>1, <2>3 DEF SourceInv, RowSound, FoundWell
  <2> HIDE DEF r
  <2> QED
    BY <1>2, <1>3, <1>5, <2>2, <2>3, <2>4, WriteSource DEF k
<1>6. CASE nb[w] # NoId /\ builds[nb[w]].status # "CREATED"
  <2>1. builds' = builds
    BY <1>6 DEF StoreOr
  <2>2. FoundWell(w)'
    BY <1>1, <1>2, <2>1 DEF FoundWell
  <2> QED
    BY <1>2, <2>1, <2>2, SourceQuiet
<1> QED
  BY <1>4, <1>5, <1>6

LEMMA StoreAndSource ==
  ASSUME SourceInv, SafeInv', NEW w \in Requests, StoreAnd(w)
  PROVE  SourceInv'
<1> DEFINE e == builds[cur[w]].event
           k == tgt[w]
<1>1. /\ TypeOK /\ FoundWell(w) /\ Len(events) \in Nat /\ par[w] \in Parents
      /\ e \in 1 .. Len(events) /\ k \in Jobs
  BY CurType, TableType DEF SourceInv, SafeInv, TypeInv, TypeOK, ObjectsOK, StoreAnd
<1>2. /\ UNCHANGED <<events, cur, tgt, par>> /\ pc[w] = "store" /\ Alone(w)
      /\ pc'[w] \in {"check", "next"}
  BY DEF SourceInv, SafeInv, TypeInv, TypeOK, StoreAnd, Free, Alone
<1>3. InTable(builds, par[w])
  BY <1>1 DEF FoundWell
<1> HIDE DEF e, k
<1>4. CASE nb[w] = NoId
  <2>1. /\ builds' = Append(builds, Row(e, k, "CREATED", par[w]))
        /\ nb'[w] = Len(builds')
    BY <1>1, <1>4 DEF StoreAnd, TypeOK, e, k
  <2>2. /\ Advances /\ \A i \in DOMAIN builds : builds'[i] = builds[i]
        /\ DOMAIN builds' = DOMAIN builds \cup {Len(builds) + 1}
        /\ RowSound(events', builds', builds'[Len(builds) + 1])
        /\ builds'[Len(builds) + 1].job = k
    BY <1>1, <1>2, <1>3, <2>1, AddSource DEF Status
  <2>3. nb'[w] = Len(builds) + 1
    BY <1>1, <2>1 DEF TypeOK
  <2>4. FoundWell(w)'
    BY <1>2, <1>3, <2>2, <2>3, SoundLasts DEF FoundWell, k
  <2> QED
    BY <1>2, <2>2, <2>4, SourceStep
<1>5. CASE nb[w] # NoId /\ builds[nb[w]].status # "REMOVED"
  <2> DEFINE b == builds[nb[w]]
             p == MergedParents(par[w], b.parents)
             r == [b EXCEPT !.parents = p]
  <2>1. nb[w] \in DOMAIN builds /\ b \in Rows(Len(events))
    BY <1>1, <1>5, TableType DEF TypeOK, NoId
  <2>2. builds' = [builds EXCEPT ![nb[w]] = r] /\ nb' = nb
    BY <1>5 DEF StoreAnd
  <2>3. RowSound(events, builds, b) /\ b.job = k
    BY <1>1, <1>2, <1>5, <2>1 DEF SourceInv, FoundWell, k
  <2>4. InTable(builds, p)
    BY <1>3, <2>3 DEF RowSound, InTable, MergedParents
  <2>5. /\ r.job = b.job /\ r.event = b.event /\ r.status = b.status /\ r.used = b.used
        /\ r.parents = p
    BY <2>1 DEF Rows
  <2> HIDE DEF r, p
  <2>6. /\ DOMAIN builds' = DOMAIN builds /\ builds'[nb[w]] = r
        /\ \A i \in DOMAIN builds : i # nb[w] => builds'[i] = builds[i]
    BY <2>1, <2>2
  <2>7. Advances
    BY <1>2, <2>5, <2>6 DEF Advances
  <2>8. RowSound(events', builds', r)
    <3>1. RowSound(events, builds, r) /\ r.event \in 1 .. Len(events)
      BY <2>1, <2>3, <2>4, <2>5 DEF RowSound, Rows
    <3> QED
      BY <2>7, <3>1, SoundLasts
  <2>9. FoundWell(w)'
    BY <1>2, <1>3, <2>2, <2>3, <2>5, <2>6, <2>7, SoundLasts DEF FoundWell, k
  <2> QED
    BY <1>2, <2>6, <2>7, <2>8, <2>9, SourceStep
<1>6. CASE nb[w] # NoId /\ builds[nb[w]].status = "REMOVED"
  <2>1. UNCHANGED <<builds, nb>>
    BY <1>6 DEF StoreAnd
  <2>2. FoundWell(w)'
    BY <1>1, <1>2, <2>1 DEF FoundWell
  <2> QED
    BY <1>2, <2>1, <2>2, SourceQuiet
<1> QED
  BY <1>4, <1>5, <1>6

\* handleNewBuild starts the build when all its parents are rows that succeeded.
LEMMA CheckSource ==
  ASSUME SourceInv, SafeInv', NEW w \in Requests, Check(w)
  PROVE  SourceInv'
<1> DEFINE b == builds[nb[w]]
<1>1. /\ TypeOK /\ FoundWell(w) /\ UNCHANGED <<events, cur, tgt, nb, par>>
      /\ pc[w] = "check" /\ pc'[w] = "next" /\ Alone(w)
      /\ builds' = Verdict(tgt[w], nb[w])
  BY DEF SourceInv, SafeInv, TypeInv, TypeOK, Check, Free, Alone
<1>2. CASE builds' = builds
  <2>1. FoundWell(w)'
    BY <1>1, <1>2 DEF FoundWell
  <2> QED
    BY <1>1, <1>2, <2>1, SourceQuiet
<1>3. CASE builds' # builds
  <2>1. nb[w] \in DOMAIN builds
    <3>1. CASE nb[w] \notin DOMAIN builds
      BY <1>1, <1>3, <3>1, TableType DEF Verdict
    <3> QED
      BY <3>1
  <2>2. nb[w] # NoId /\ b \in Rows(Len(events)) /\ b.job = tgt[w]
    BY <1>1, <2>1, TableType DEF FoundWell, NoId
  <2>3. InTable(builds, b.parents) /\ b.status = "CREATED"
    BY <1>1, <1>3, <2>1 DEF SourceInv, RowSound, Verdict
  <2>4. CASE HasFailure(tgt[w], b.parents)
    <3> DEFINE r == [b EXCEPT !.status = "REMOVED"]
    <3>1. builds' = [builds EXCEPT ![nb[w]] = r]
      BY <1>1, <1>3, <2>4 DEF Verdict
    <3>2. /\ r.job = b.job /\ r.event = b.event /\ r.parents = b.parents
          /\ r.status \notin {"QUEUED"} \cup Ended
      BY <2>2 DEF Rows, Ended
    <3> HIDE DEF r
    <3> QED
      BY <1>1, <2>2, <2>3, <3>1, <3>2, WriteSource
  <2>5. CASE ~HasFailure(tgt[w], b.parents)
    <3> DEFINE r == Started(b)
    <3>1. /\ builds' = [builds EXCEPT ![nb[w]] = r] /\ Done(tgt[w], b.parents)
      BY <1>1, <1>3, <2>5 DEF Verdict
    <3>2. r.job = b.job /\ r.event = b.event /\ r.parents = b.parents /\ r.used = b.parents
      BY <2>2 DEF Rows, Started
    <3>3. ASSUME NEW j \in JoinSrc(tgt[w]) PROVE Succeeded(builds, b.parents[j])
      <4>1. b.parents[j] # NoId /\ builds[b.parents[j]].status \in Ended
        BY <3>1 DEF Done
      <4>2. b.parents[j] \in DOMAIN builds
        BY <2>3, <4>1 DEF InTable, JoinSrc
      <4>3. builds[b.parents[j]].status # "FAILURE"
        BY <2>5, <4>1 DEF HasFailure
      <4> QED
        BY <4>1, <4>2, <4>3 DEF Succeeded, Ended
    <3> HIDE DEF r
    <3> QED
      BY <1>1, <2>2, <2>3, <3>1, <3>2, <3>3, WriteSource
  <2> QED
    BY <2>4, <2>5
<1> QED
  BY <1>2, <1>3

\* The event of a restart begins with the job restarted.
LEMMA RestartSource ==
  ASSUME SourceInv, NEW b \in DOMAIN builds, RestartFrom(b)
  PROVE  SourceInv'
<1> DEFINE n == Len(events) + 1
           k == builds[b].job
           p == builds[b].parents
           ev == [from |-> k, parent |-> builds[b].event]
<1>1. SafeInv' /\ TypeOK /\ RowSound(events, builds, builds[b])
  BY RestartSafe DEF SourceInv, SafeInv, TypeInv
<1>2. Len(events) \in Nat /\ builds[b] \in Rows(Len(events))
  BY <1>1, TableType
<1>3. k \in Jobs /\ p \in Parents /\ InTable(builds, p) /\ n \in Nat /\ n \in 1 .. n
  BY <1>1, <1>2 DEF Rows, RowSound
<1>4. events' = Append(events, ev) /\ Len(events') = n
  BY <1>1 DEF RestartFrom, TypeOK
<1>5. events'[n] = ev /\ \A d \in 1 .. Len(events) : events'[d] = events[d]
  BY <1>1, <1>4 DEF TypeOK
<1>6. builds' = Append(builds, Row(n, k, "QUEUED", p)) /\ "QUEUED" \in Status
  BY <1>4 DEF RestartFrom, Status
<1>7. ev.from = k /\ Len(events) <= n
  BY <1>2
<1> HIDE DEF n, k, p, ev
<1>8. /\ Advances /\ \A i \in DOMAIN builds : builds'[i] = builds[i]
      /\ DOMAIN builds' = DOMAIN builds \cup {Len(builds) + 1}
      /\ RowSound(events', builds', builds'[Len(builds) + 1])
  BY <1>1, <1>2, <1>3, <1>5, <1>6, <1>7, AddSource
<1>9. \A i \in DOMAIN builds' : RowSound(events', builds', builds'[i])
  <2>1. \A i \in DOMAIN builds : builds[i].event \in 1 .. Len(events)
    BY <1>1, TableType DEF Rows
  <2> QED
    BY <1>8, <2>1, SoundLasts DEF SourceInv
<1>10. ASSUME NEW w \in Requests PROVE FoundWell(w)'
  <2>1. FoundWell(w) /\ (nb[w] # NoId => nb[w] \in DOMAIN builds)
    BY <1>1, TableType DEF SourceInv, TypeOK, NoId
  <2>2. UNCHANGED <<pc, nb, tgt, par>>
    BY DEF RestartFrom, locals
  <2> QED
    BY <1>8, <2>1, <2>2, SoundLasts DEF FoundWell
<1> QED
  BY <1>1, <1>9, <1>10 DEF SourceInv

LEMMA InitSource == ASSUME Init PROVE SourceInv
<1>1. SafeInv
  BY InitSafe
<1>2. PICK o \in SetToSeqs(Roots) : builds = [i \in DOMAIN o |-> Row(1, o[i], "QUEUED", NoParents)]
  BY DEF Init
<1>3. DOMAIN o = 1 .. Cardinality(Roots) /\ \A i \in DOMAIN o : o[i] \in Roots
  BY <1>2 DEF SetToSeqs
<1>4. ASSUME NEW i \in DOMAIN builds
      PROVE  builds[i].job \in Roots /\ builds[i].parents = NoParents
  BY <1>2, <1>3 DEF Row
<1>5. \A j \in Roots : ~JoinOnly(j)
  BY DEF Roots, NextJobs, JoinSrc, JoinOnly
<1>6. InTable(builds, NoParents)
  BY DEF InTable, NoParents
<1>7. \A i \in DOMAIN builds : RowSound(events, builds, builds[i])
  BY <1>4, <1>5, <1>6 DEF RowSound
<1>8. \A w \in Requests : FoundWell(w)
  BY <1>6 DEF Init, FoundWell
<1> QED
  BY <1>1, <1>7, <1>8 DEF SourceInv

LEMMA SourceInductive == SourceInv /\ [Next]_vars => SourceInv'
<1> SUFFICES ASSUME SourceInv, [Next]_vars PROVE SourceInv'
  OBVIOUS
<1>0. SafeInv'
  BY SafeInductive DEF SourceInv
<1>1. ASSUME NEW b \in DOMAIN builds, RestartFrom(b) PROVE SourceInv'
  BY <1>1, RestartSource
<1>2. ASSUME NEW w \in Requests, NEW b \in DOMAIN builds, NEW s \in Ended, Finish(w, b, s)
      PROVE  SourceInv'
  BY <1>0, <1>2, FinishSource
<1>3. ASSUME NEW w \in Requests, Step(w) PROVE SourceInv'
  BY <1>0, <1>3, AnsweredSource, RemoveSource, FindSource, StoreOrSource, StoreAndSource,
     CheckSource DEF Step
<1>4. CASE UNCHANGED vars
  BY <1>0, <1>4 DEF vars, locals, SourceInv, FoundWell
<1> QED
  BY <1>1, <1>2, <1>3, <1>4 DEF Next

\* A join is started with a build for each of its sources, all of them SUCCESS,
\* whichever events of the group they were taken from (triggers/and.js,
\* handleNewBuild), for every workflow graph and any number of restarts.
THEOREM JoinFromSuccess == Spec => []StartedFromSuccess
<1>1. SourceInv => StartedFromSuccess
  <2> SUFFICES ASSUME SourceInv, NEW k \in Jobs, JoinOnly(k), NEW i \in Ran(k),
                      NEW j \in JoinSrc(k), events[builds[i].event].from # k
               PROVE  builds[i].used[j] # NoId /\ builds[builds[i].used[j]].status = "SUCCESS"
    BY DEF StartedFromSuccess
  <2>1. /\ RowSound(events, builds, builds[i]) /\ builds[i].job = k
        /\ builds[i].status \in {"QUEUED"} \cup Ended
    BY DEF SourceInv, Ran, Ids
  <2>2. Succeeded(builds, builds[i].used[j])
    BY <2>1 DEF RowSound
  <2>3. NoId \notin DOMAIN builds
    BY TableType DEF SourceInv, SafeInv, TypeInv, NoId
  <2> QED
    BY <2>2, <2>3 DEF Succeeded
<1> QED
  BY <1>1, InitSource, SourceInductive, PTL DEF Spec

-----------------------------------------------------------------------------
(* The jobs that come after a job *)

\* The jobs reached from s in n steps or less.
IsReach(s, m, r) ==
  r = [n \in 0 .. m |-> IF n = 0 THEN {s} ELSE r[n - 1] \cup UNION {NextJobs(j) : j \in r[n - 1]}]

LEMMA ReachExists ==
  ASSUME NEW s, NEW m \in Nat
  PROVE  \E r : IsReach(s, m, r)
<1> DEFINE T == {n \in Nat : ~ \E r : IsReach(s, n, r)}
<1> SUFFICES ASSUME T # {} PROVE FALSE
  OBVIOUS
<1>1. PICK n \in T : \A l \in T : n <= l
  <2> HIDE DEF T
  <2>1. T \subseteq Nat
    BY DEF T
  <2> QED
    BY <2>1, LeastExists
<1>2. n # 0
  <2>1. IsReach(s, 0, [l \in 0 .. 0 |-> {s}])
    BY DEF IsReach
  <2> QED
    BY <2>1
<1>3. n - 1 \in Nat /\ n - 1 \notin T
  BY <1>1, <1>2
<1>4. PICK r : IsReach(s, n - 1, r)
  BY <1>3
<1> DEFINE q == [l \in 0 .. n |-> IF l = n THEN r[n - 1] \cup UNION {NextJobs(j) : j \in r[n - 1]}
                                  ELSE r[l]]
<1>5. \A l \in 0 .. n - 1 : q[l] = r[l]
  BY <1>1, <1>2
<1>6. \A l \in 0 .. n - 1 : r[l] = IF l = 0 THEN {s} ELSE r[l - 1] \cup UNION {NextJobs(j) : j \in r[l - 1]}
  BY <1>4, <1>3 DEF IsReach
<1>7. ASSUME NEW l \in 0 .. n
      PROVE  q[l] = IF l = 0 THEN {s} ELSE q[l - 1] \cup UNION {NextJobs(j) : j \in q[l - 1]}
  <2>1. CASE l = n
    <3>1. l # 0 /\ l - 1 = n - 1 /\ n - 1 \in 0 .. n - 1
      BY <1>1, <1>2, <2>1
    <3>2. q[l] = r[n - 1] \cup UNION {NextJobs(j) : j \in r[n - 1]}
      BY <2>1
    <3>3. q[l - 1] = r[n - 1]
      BY <3>1, <1>5
    <3> HIDE DEF q
    <3> QED
      BY <3>1, <3>2, <3>3
  <2>2. CASE l # n
    <3>1. l \in 0 .. n - 1 /\ (l # 0 => l - 1 \in 0 .. n - 1)
      BY <1>1, <2>2
    <3>2. q[l] = r[l] /\ (l # 0 => q[l - 1] = r[l - 1])
      BY <3>1, <1>5
    <3>3. r[l] = IF l = 0 THEN {s} ELSE r[l - 1] \cup UNION {NextJobs(j) : j \in r[l - 1]}
      BY <3>1, <1>6
    <3> HIDE DEF q
    <3> QED
      BY <3>2, <3>3
  <2> QED
    BY <2>1, <2>2
<1>8. q = [l \in 0 .. n |-> q[l]]
  OBVIOUS
<1> HIDE DEF q
<1>9. IsReach(s, n, q)
  <2> DEFINE h == [l \in 0 .. n |-> IF l = 0 THEN {s} ELSE q[l - 1] \cup UNION {NextJobs(j) : j \in q[l - 1]}]
  <2>1. h = [l \in 0 .. n |-> q[l]]
    BY <1>7
  <2> QED
    BY <1>8, <2>1 DEF IsReach
<1> QED
  BY <1>1, <1>9

\* What comes after a job is closed under the edges.
LEMMA SubsequentClosed ==
  ASSUME NEW s \in Jobs, NEW i \in {s} \cup Subsequent(s)
  PROVE  NextJobs(i) \subseteq {s} \cup Subsequent(s)
<1>1. CASE s = "~commit"
  BY <1>1 DEF Subsequent, NextJobs
<1>2. CASE s # "~commit"
  <2> DEFINE C == Cardinality(Jobs)
             X(S) == \A l \in S : NextJobs(l) \subseteq S
  <2>0. C \in Nat /\ IsFiniteSet(Jobs)
    BY RestartAssumption, FS_CardinalityType
  <2>1. \E r : IsReach(s, C, r)
    BY <2>0, ReachExists
  <2>2. PICK r : IsReach(s, C, r) /\ Subsequent(s) = r[C] \ {s}
    BY <1>2, <2>1 DEF Subsequent, IsReach
  <2>3. /\ r[0] = {s}
        /\ \A n \in 1 .. C : r[n] = r[n - 1] \cup UNION {NextJobs(j) : j \in r[n - 1]}
    BY <2>0, <2>2 DEF IsReach
  <2> DEFINE Good(n) == /\ r[n] \subseteq Jobs /\ s \in r[n]
                        /\ X(r[n]) \/ Cardinality(r[n]) >= n + 1
             T == {n \in 0 .. C : ~Good(n)}
  <2>4. T = {}
    <3> SUFFICES ASSUME T # {} PROVE FALSE
      OBVIOUS
    <3>1. PICK n \in T : \A l \in T : n <= l
      <4>1. T \subseteq Nat
        OBVIOUS
      <4> HIDE DEF T
      <4> QED
        BY <4>1, LeastExists
    <3>2. n # 0
      <4>1. Cardinality(r[0]) >= 0 + 1
        <5>1. Cardinality({s}) = 1 /\ r[0] = {s}
          BY <2>3, FS_Singleton
        <5> QED
          BY <5>1
      <4>2. Good(0)
        <5>1. r[0] \subseteq Jobs /\ s \in r[0]
          BY <2>3
        <5> QED
          BY <4>1, <5>1
      <4> QED
        BY <3>1, <4>2
    <3>3. n - 1 \in 0 .. C /\ Good(n - 1) /\ n \in 1 .. C
      BY <3>1, <3>2, <2>0
    <3>4. r[n] = r[n - 1] \cup UNION {NextJobs(j) : j \in r[n - 1]}
      BY <2>3, <3>3
    <3>5. r[n] \subseteq Jobs /\ s \in r[n]
      BY <3>3, <3>4 DEF NextJobs
    <3>6. CASE X(r[n - 1])
      BY <3>1, <3>3, <3>4, <3>5, <3>6
    <3>7. CASE ~X(r[n - 1])
      <4>1. PICK x \in r[n] : x \notin r[n - 1]
        BY <3>4, <3>7
      <4>2. Cardinality(r[n - 1]) >= n
        BY <3>3, <3>7
      <4>3. IsFiniteSet(r[n]) /\ IsFiniteSet(r[n - 1])
        BY <2>0, <3>3, <3>5, FS_Subset
      <4>4. Cardinality(r[n - 1] \cup {x}) = Cardinality(r[n - 1]) + 1
        BY <4>1, <4>3, FS_AddElement
      <4>5. Cardinality(r[n - 1] \cup {x}) <= Cardinality(r[n])
        <5>1. r[n - 1] \cup {x} \subseteq r[n]
          BY <3>4, <4>1
        <5> QED
          BY <4>3, <5>1, FS_Subset
      <4>6. Cardinality(r[n]) \in Nat /\ Cardinality(r[n - 1]) \in Nat
        BY <4>3, FS_CardinalityType
      <4>7. Cardinality(r[n]) >= n + 1
        BY <3>1, <4>2, <4>4, <4>5, <4>6
      <4> QED
        BY <3>1, <3>5, <4>7
    <3> QED
      BY <3>6, <3>7
  <2>5. Good(C)
    BY <2>0, <2>4
  <2>6. X(r[C])
    <3>1. Cardinality(r[C]) <= C /\ Cardinality(r[C]) \in Nat
      BY <2>0, <2>5, FS_Subset, FS_CardinalityType
    <3>2. ~(Cardinality(r[C]) >= C + 1)
      BY <2>0, <3>1
    <3> QED
      BY <2>5, <3>2
  <2>7. {s} \cup Subsequent(s) = r[C]
    BY <2>2, <2>5
  <2>8. i \in r[C]
    BY <2>7
  <2> QED
    BY <2>6, <2>7, <2>8
<1> QED
  BY <1>1, <1>2

-----------------------------------------------------------------------------
(* What a request works at, and what an event has builds of *)

Begun == {"QUEUED"} \cup Ended

\* Each parent is a build of the job it stands for.
OfJobs(t, p) == \A j \in Jobs : p[j] = NoId \/ (p[j] \in DOMAIN t /\ t[p[j]].job = j)

\* The jobs that an event may have builds of.
Flow(ev) == {ev.from} \cup Subsequent(ev.from)

\* A restart has builds of the jobs that come after the one it begins with, and
\* a build of a job that waits for nothing is started when it is created.
RowWell(ev, t, r) ==
  /\ OfJobs(t, r.parents)
  /\ r.event # 1 => r.job \in Flow(ev[r.event])
  /\ JoinSrc(r.job) = {} => r.status \in Begun

\* A request has jobs to trigger that come next, for a build that is SUCCESS; one
\* that has FAILURE removes.
WorkWell(w) ==
  /\ pc[w] # "idle" => todo[w] \subseteq NextJobs(builds[cur[w]].job)
  /\ pc[w] \in {"store", "check"} => tgt[w] \in NextJobs(builds[cur[w]].job)
  /\ pc[w] \in {"next", "store", "check"} => builds[cur[w]].status = "SUCCESS"
  /\ pc[w] = "remove" => builds[cur[w]].status = "FAILURE"
  /\ pc[w] = "check" => nb[w] # NoId /\ ~Or(w)
  /\ OfJobs(builds, par[w])

\* The job of a restart has been started in its event.
BegunWith(e) ==
  \E i \in DOMAIN builds :
    builds[i].event = e /\ builds[i].job = events[e].from /\ builds[i].status \in Begun

EventsWell ==
  /\ events[1] = [from |-> "~commit", parent |-> 0]
  /\ \A e \in 2 .. Len(events) :
       events[e].parent \in 1 .. e - 1 /\ events[e].from \in Jobs /\ BegunWith(e)

WorkInv ==
  /\ SourceInv
  /\ \A w \in Requests : WorkWell(w)
  /\ \A i \in DOMAIN builds : RowWell(events, builds, builds[i])
  /\ EventsWell

\* Rows stay in their place, those started stay so, and an end is for good.
Lasts ==
  /\ \A i \in DOMAIN builds :
       /\ i \in DOMAIN builds' /\ builds'[i].job = builds[i].job
       /\ builds'[i].event = builds[i].event
       /\ builds[i].status \in Ended => builds'[i].status = builds[i].status
       /\ builds[i].status \in Begun => builds'[i].status \in Begun
  /\ \A e \in 1 .. Len(events) : events'[e] = events[e]

LEMMA WellLasts ==
  ASSUME Lasts
  PROVE  /\ \A p : OfJobs(builds, p) => OfJobs(builds', p)
         /\ \A r : r.event \in 1 .. Len(events) /\ RowWell(events, builds, r)
                     => RowWell(events', builds', r)
<1>1. \A p : OfJobs(builds, p) => OfJobs(builds', p)
  BY DEF OfJobs, Lasts
<1>2. \A e \in 1 .. Len(events) : events'[e] = events[e]
  BY DEF Lasts
<1> QED
  BY <1>1, <1>2 DEF RowWell

\* With the changed rows well, the objects of the other requests are as they were.
LEMMA WorkStep ==
  ASSUME WorkInv, SourceInv', Lasts, UNCHANGED events, NEW w \in Requests, Alone(w),
         \A q \in Requests \ {w} : par'[q] = par[q] /\ todo'[q] = todo[q], WorkWell(w)',
         \A i \in DOMAIN builds' :
           (i \in DOMAIN builds /\ builds'[i] = builds[i]) \/ RowWell(events', builds', builds'[i])
  PROVE  WorkInv'
<1>1. TypeInv /\ \A i \in DOMAIN builds : builds[i].event \in 1 .. Len(events)
  BY TableType DEF WorkInv, SourceInv, SafeInv, TypeInv, Rows
<1>2. \A i \in DOMAIN builds' : RowWell(events', builds', builds'[i])
  BY <1>1, WellLasts DEF WorkInv
<1>3. ASSUME NEW q \in Requests \ {w} PROVE WorkWell(q)'
  <2>1. WorkWell(q) /\ OfJobs(builds', par'[q])
    BY WellLasts DEF WorkInv, WorkWell
  <2>2. UNCHANGED <<pc[q], cur[q], nb[q], tgt[q], todo[q]>>
    BY DEF Alone
  <2>3. CASE pc[q] = "idle"
    BY <2>1, <2>2, <2>3 DEF WorkWell
  <2>4. CASE pc[q] # "idle"
    <3>1. cur[q] \in DOMAIN builds
      BY <1>1, <2>4, CurType
    <3>2. /\ builds'[cur[q]].job = builds[cur[q]].job
          /\ builds[cur[q]].status \in Ended => builds'[cur[q]].status = builds[cur[q]].status
      BY <3>1 DEF Lasts
    <3> QED
      BY <2>1, <2>2, <3>2 DEF WorkWell, Or, Ended
  <2> QED
    BY <2>3, <2>4
<1>4. EventsWell'
  BY DEF WorkInv, EventsWell, BegunWith, Lasts
<1> QED
  BY <1>2, <1>3, <1>4 DEF WorkInv

\* A step that writes no row and adds none.
LEMMA WorkQuiet ==
  ASSUME WorkInv, SourceInv', UNCHANGED <<events, builds>>, NEW w \in Requests, Alone(w),
         \A q \in Requests \ {w} : par'[q] = par[q] /\ todo'[q] = todo[q], WorkWell(w)'
  PROVE  WorkInv'
<1>1. Lasts
  BY DEF Lasts
<1> QED
  BY <1>1, WorkStep

LEMMA AnsweredWork ==
  ASSUME WorkInv, SourceInv', NEW w \in Requests, Answered(w)
  PROVE  WorkInv'
<1>1. /\ UNCHANGED <<events, builds, par, todo>> /\ Alone(w) /\ pc'[w] = "idle" /\ WorkWell(w)
  BY DEF WorkInv, SourceInv, SafeInv, TypeInv, TypeOK, Answered, Alone
<1>2. WorkWell(w)'
  BY <1>1 DEF WorkWell
<1> QED
  BY <1>1, <1>2, WorkQuiet

LEMMA FinishWork ==
  ASSUME WorkInv, SourceInv', NEW w \in Requests, NEW b \in DOMAIN builds, NEW s \in Ended,
         Finish(w, b, s)
  PROVE  WorkInv' /\ Lasts
<1>1. /\ builds[b] \in Rows(Len(events)) /\ builds[b].status = "QUEUED" /\ WorkWell(w)
      /\ UNCHANGED <<events, par>> /\ builds' = [builds EXCEPT ![b].status = s]
  BY TableType DEF WorkInv, SourceInv, SafeInv, TypeInv, Finish
<1>2. /\ Alone(w) /\ pc'[w] = IF s = "SUCCESS" THEN "next" ELSE "remove"
      /\ cur'[w] = b /\ todo'[w] = NextJobs(builds[b].job)
      /\ \A q \in Requests \ {w} : par'[q] = par[q] /\ todo'[q] = todo[q]
  BY DEF WorkInv, SourceInv, SafeInv, TypeInv, TypeOK, Finish, Alone
<1>3. /\ DOMAIN builds' = DOMAIN builds
      /\ \A i \in DOMAIN builds : i # b => builds'[i] = builds[i]
      /\ builds'[b].job = builds[b].job /\ builds'[b].event = builds[b].event
      /\ builds'[b].parents = builds[b].parents /\ builds'[b].status = s
  BY <1>1 DEF Rows
<1>4. Lasts
  BY <1>1, <1>3 DEF Lasts, Ended, Begun
<1>5. RowWell(events', builds', builds'[b])
  <2>1. RowWell(events, builds, builds[b]) /\ builds[b].event \in 1 .. Len(events)
    BY <1>1 DEF WorkInv, Rows
  <2>2. RowWell(events', builds', builds[b])
    BY <1>4, <2>1, WellLasts
  <2> QED
    BY <1>3, <2>2 DEF RowWell, Begun
<1>6. WorkWell(w)'
  <2>1. OfJobs(builds', par'[w])
    BY <1>1, <1>4, WellLasts DEF WorkWell
  <2> QED
    BY <1>2, <1>3, <2>1 DEF WorkWell, Ended
<1> QED
  BY <1>1, <1>2, <1>3, <1>4, <1>5, <1>6, WorkStep

\* Only builds that wait for another are removed.
LEMMA RemoveWork ==
  ASSUME WorkInv, SourceInv', NEW w \in Requests, RemoveJoin(w)
  PROVE  WorkInv' /\ Lasts
<1>1. PICK k \in todo[w] : builds' = RemoveNext(cur[w], k) /\ todo' = [todo EXCEPT ![w] = @ \ {k}]
  BY DEF RemoveJoin
<1>2. /\ UNCHANGED <<events, par, cur, pc>> /\ Alone(w) /\ pc[w] = "remove" /\ WorkWell(w)
      /\ TypeInv
  BY DEF WorkInv, SourceInv, SafeInv, RemoveJoin, Alone
<1>3. /\ DOMAIN builds' = DOMAIN builds
      /\ \A i \in DOMAIN builds :
           \/ builds'[i] = builds[i]
           \/ builds[i].status = "CREATED" /\ builds'[i] = [builds[i] EXCEPT !.status = "REMOVED"]
  BY <1>1 DEF RemoveNext
<1>4. \A i \in DOMAIN builds :
        /\ builds'[i].job = builds[i].job /\ builds'[i].event = builds[i].event
        /\ builds'[i].parents = builds[i].parents
        /\ \/ builds'[i] = builds[i]
           \/ builds[i].status = "CREATED" /\ builds'[i].status = "REMOVED"
  BY <1>2, <1>3, TableType DEF TypeInv, Rows
<1>5. Lasts
  BY <1>2, <1>3, <1>4 DEF Lasts, Ended, Begun
<1>6. ASSUME NEW i \in DOMAIN builds', builds'[i] # builds[i]
      PROVE  RowWell(events', builds', builds'[i])
  <2>1. RowWell(events, builds, builds[i]) /\ builds[i].event \in 1 .. Len(events)
    BY <1>2, <1>3, TableType DEF WorkInv, TypeInv, Rows
  <2>2. RowWell(events', builds', builds[i])
    BY <1>5, <2>1, WellLasts
  <2>3. JoinSrc(builds[i].job) # {}
    BY <1>3, <1>4, <1>6, <2>1 DEF RowWell, Ended, Begun
  <2> QED
    BY <1>3, <1>4, <2>2, <2>3 DEF RowWell
<1>7. WorkWell(w)'
  <2>1. OfJobs(builds', par'[w]) /\ cur[w] \in DOMAIN builds
    BY <1>2, <1>5, WellLasts, CurType DEF WorkWell
  <2>2. todo'[w] \subseteq todo[w]
    BY <1>1, <1>2 DEF TypeInv, TypeOK
  <2> QED
    BY <1>2, <1>5, <2>1, <2>2 DEF WorkWell, Lasts, Ended
<1>8. \A q \in Requests \ {w} : par'[q] = par[q] /\ todo'[q] = todo[q]
  BY <1>1, <1>2 DEF TypeInv, TypeOK
<1> QED
  BY <1>2, <1>3, <1>5, <1>6, <1>7, <1>8, WorkStep

\* The parents computed for a next build are builds of their jobs.
LEMMA ParentsOfJobs ==
  ASSUME TypeOK, NEW c \in DOMAIN builds, OfJobs(builds, builds[c].parents), NEW k \in Jobs
  PROVE  OfJobs(builds, OwnParents(c)) /\ OfJobs(builds, FilledParents(c, k))
<1>1. builds[c] \in Rows(Len(events)) /\ builds[c].event \in Nat
  BY TableType DEF Rows
<1>2. \A j \in Jobs : OwnParents(c)[j] = IF j = builds[c].job THEN c ELSE builds[c].parents[j]
  BY <1>1 DEF OwnParents, Rows, Parents
<1>3. OfJobs(builds, OwnParents(c))
  BY <1>2 DEF OfJobs
<1>4. \A j \in Jobs : Related(builds[c].event, j) # NoId
                        => Related(builds[c].event, j) \in Ids(j)
  BY <1>1, ReadJob DEF Related
<1>5. \A j \in Jobs : FilledParents(c, k)[j] \in {OwnParents(c)[j], Related(builds[c].event, j)}
  BY DEF FilledParents
<1> QED
  BY <1>3, <1>4, <1>5 DEF OfJobs, Ids

LEMMA FindWork ==
  ASSUME WorkInv, SourceInv', NEW w \in Requests, Find(w)
  PROVE  WorkInv'
<1> DEFINE c == cur[w]
           e == builds[cur[w]].event
<1>1. TypeOK /\ c \in DOMAIN builds /\ e \in Nat /\ WorkWell(w) /\ pc[w] = "next"
  BY CurType, TableType DEF WorkInv, SourceInv, SafeInv, TypeInv, Find
<1>2. OfJobs(builds, builds[c].parents)
  BY <1>1 DEF WorkInv, RowWell
<1>3. PICK k \in todo[w] :
        /\ tgt'  = [tgt EXCEPT ![w] = k]
        /\ todo' = [todo EXCEPT ![w] = @ \ {k}]
        /\ IF IsOr(builds[c].job, k)
           THEN nb' = [nb EXCEPT ![w] = CurrentBuild(e, k)] /\ par' = [par EXCEPT ![w] = OwnParents(c)]
           ELSE nb' = [nb EXCEPT ![w] = NextBuild(e, k)] /\ par' = [par EXCEPT ![w] = FilledParents(c, k)]
  BY DEF Find
<1>4. /\ k \in Jobs /\ tgt'[w] = k /\ UNCHANGED <<events, builds, cur>> /\ pc'[w] = "store"
      /\ todo'[w] \subseteq todo[w]
  BY <1>1, <1>3 DEF TypeOK, Find
<1> HIDE DEF c, e
<1>5. OfJobs(builds, par'[w])
  <2>1. par'[w] \in {OwnParents(c), FilledParents(c, k)}
    BY <1>1, <1>3 DEF TypeOK
  <2> QED
    BY <1>1, <1>2, <1>4, <2>1, ParentsOfJobs
<1>6. WorkWell(w)'
  BY <1>1, <1>3, <1>4, <1>5 DEF WorkWell
<1>7. Alone(w) /\ \A q \in Requests \ {w} : par'[q] = par[q] /\ todo'[q] = todo[q]
  BY <1>1, <1>3 DEF TypeOK, Find, Alone
<1> QED
  BY <1>4, <1>6, <1>7, WorkQuiet

\* A row is added to an event that has builds of the job.
LEMMA AddWork ==
  ASSUME WorkInv, NEW n \in Nat, Len(events) <= n, NEW e \in 1 .. n,
         NEW k \in Jobs, NEW s \in Status, NEW p \in Parents,
         builds' = Append(builds, Row(e, k, s, p)), OfJobs(builds, p),
         \A d \in 1 .. Len(events) : events'[d] = events[d],
         e # 1 => k \in Flow(events'[e]),
         JoinSrc(k) = {} => s \in Begun
  PROVE  /\ Lasts /\ \A i \in DOMAIN builds : builds'[i] = builds[i]
         /\ DOMAIN builds' = DOMAIN builds \cup {Len(builds) + 1}
         /\ Len(builds) + 1 \notin DOMAIN builds
         /\ builds'[Len(builds) + 1] = Row(e, k, s, p)
         /\ RowWell(events', builds', builds'[Len(builds) + 1])
<1>1. TypeOK /\ Added(e, k)
  BY DEF WorkInv, SourceInv, SafeInv, TypeInv, Added
<1>2. /\ DOMAIN builds = 1 .. Len(builds) /\ DOMAIN builds' = 1 .. Len(builds) + 1
      /\ \A i \in DOMAIN builds : builds'[i] = builds[i] /\ Len(builds) \in Nat
  BY <1>1, AddedTable, TableType
<1>3. builds'[Len(builds) + 1] = Row(e, k, s, p)
  BY <1>1 DEF TypeOK
<1>4. Lasts
  BY <1>2 DEF Lasts
<1>5. /\ Row(e, k, s, p).parents = p /\ Row(e, k, s, p).job = k
      /\ Row(e, k, s, p).event = e /\ Row(e, k, s, p).status = s
  BY DEF Row
<1>6. RowWell(events', builds', Row(e, k, s, p))
  BY <1>4, <1>5, WellLasts DEF RowWell
<1> QED
  BY <1>2, <1>3, <1>4, <1>6

\* The jobs that come next belong to the event.
LEMMA NextInFlow ==
  ASSUME WorkInv, NEW w \in Requests, pc[w] \in {"store", "check"}
  PROVE  builds[cur[w]].event # 1 => tgt[w] \in Flow(events[builds[cur[w]].event])
<1> DEFINE e == builds[cur[w]].event
           s == events[e].from
<1> SUFFICES ASSUME e # 1 PROVE tgt[w] \in Flow(events[e])
  OBVIOUS
<1>1. cur[w] \in DOMAIN builds /\ e \in 1 .. Len(events) /\ Len(events) \in Nat
  BY CurType, TableType DEF WorkInv, SourceInv, SafeInv, TypeInv
<1>2. s \in Jobs /\ builds[cur[w]].job \in {s} \cup Subsequent(s)
  BY <1>1 DEF WorkInv, EventsWell, RowWell, Flow
<1>3. tgt[w] \in NextJobs(builds[cur[w]].job)
  BY DEF WorkInv, WorkWell
<1> QED
  BY <1>2, <1>3, SubsequentClosed DEF Flow

\* A join is found by a build of one of its sources.
LEMMA JoinNext ==
  ASSUME WorkInv, NEW w \in Requests, pc[w] \in {"store", "check"}, ~Or(w)
  PROVE  builds[cur[w]].job \in JoinSrc(tgt[w])
<1>1. builds[cur[w]].job \in Jobs
  BY CurType DEF WorkInv, SourceInv, SafeInv
<1>2. tgt[w] \in NextJobs(builds[cur[w]].job)
  BY DEF WorkInv, WorkWell
<1> QED
  BY <1>1, <1>2 DEF Or, IsOr, NextJobs, JoinSrc

\* The write of a row by a request at work.
LEMMA WriteWork ==
  ASSUME WorkInv, SourceInv', NEW w \in Requests, Alone(w), pc[w] \in {"store", "check"},
         pc'[w] \in {"next", "check"}, UNCHANGED <<events, par, nb, tgt, todo, cur>>,
         pc'[w] = "check" => ~Or(w), nb[w] # NoId, NEW r,
         builds' = [builds EXCEPT ![nb[w]] = r],
         r.job = builds[nb[w]].job, r.event = builds[nb[w]].event, OfJobs(builds, r.parents),
         \/ r.status = builds[nb[w]].status
         \/ builds[nb[w]].status = "CREATED" /\ (r.status = "QUEUED" \/ JoinSrc(r.job) # {})
  PROVE  WorkInv' /\ Lasts
<1>1. /\ TypeOK /\ WorkWell(w) /\ nb[w] \in DOMAIN builds /\ builds[nb[w]] \in Rows(Len(events))
      /\ cur[w] \in DOMAIN builds
  <2>1. TypeInv /\ TypeOK /\ WorkWell(w)
    BY DEF WorkInv, SourceInv, SafeInv, TypeInv
  <2>2. nb[w] \in DOMAIN builds /\ builds[nb[w]] \in Rows(Len(events))
    BY <2>1, TableType DEF TypeOK, NoId
  <2> QED
    BY <2>1, <2>2, CurType
<1>2. /\ DOMAIN builds' = DOMAIN builds /\ builds'[nb[w]] = r
      /\ \A i \in DOMAIN builds : i # nb[w] => builds'[i] = builds[i]
  BY <1>1
<1>3. Lasts
  BY <1>1, <1>2 DEF Lasts, Ended, Begun
<1>4. RowWell(events', builds', r)
  <2>1. RowWell(events, builds, builds[nb[w]]) /\ builds[nb[w]].event \in 1 .. Len(events)
    BY <1>1 DEF WorkInv, Rows
  <2>2. RowWell(events', builds', builds[nb[w]]) /\ OfJobs(builds', r.parents)
    BY <1>3, <2>1, WellLasts
  <2> QED
    BY <2>2 DEF RowWell, Begun
<1>5. WorkWell(w)'
  <2>1. OfJobs(builds', par'[w])
    BY <1>1, <1>3, WellLasts DEF WorkWell
  <2>2. /\ builds'[cur[w]].job = builds[cur[w]].job
        /\ builds'[cur[w]].status = "SUCCESS"
    BY <1>1, <1>3 DEF WorkWell, Lasts, Ended
  <2> QED
    BY <1>1, <2>1, <2>2 DEF WorkWell, Or
<1> QED
  BY <1>2, <1>3, <1>4, <1>5, WorkStep

LEMMA StoreOrWork ==
  ASSUME WorkInv, SourceInv', NEW w \in Requests, StoreOr(w)
  PROVE  WorkInv' /\ Lasts
<1> DEFINE e == builds[cur[w]].event
           k == tgt[w]
<1>1. /\ TypeOK /\ WorkWell(w) /\ Len(events) \in Nat /\ par[w] \in Parents
      /\ e \in 1 .. Len(events) /\ k \in Jobs /\ cur[w] \in DOMAIN builds
  BY CurType, TableType DEF WorkInv, SourceInv, SafeInv, TypeInv, TypeOK, ObjectsOK, StoreOr
<1>2. /\ UNCHANGED <<events, cur, todo, tgt, nb, par>> /\ pc[w] = "store" /\ pc'[w] = "next"
      /\ Alone(w)
  BY DEF WorkInv, SourceInv, SafeInv, TypeInv, TypeOK, StoreOr, Free, Alone
<1>3. ASSUME Lasts PROVE WorkWell(w)'
  <2>1. OfJobs(builds', par'[w])
    BY <1>1, <1>2, <1>3, WellLasts DEF WorkWell
  <2>2. builds'[cur[w]].job = builds[cur[w]].job /\ builds'[cur[w]].status = "SUCCESS"
    BY <1>1, <1>2, <1>3 DEF WorkWell, Lasts, Ended
  <2> QED
    BY <1>1, <1>2, <2>1, <2>2 DEF WorkWell
<1>4. e # 1 => k \in Flow(events[e])
  BY <1>2, NextInFlow
<1> HIDE DEF e, k
<1>5. CASE nb[w] = NoId
  <2>1. builds' = Append(builds, Row(e, k, "QUEUED", par[w]))
    BY <1>5 DEF StoreOr, e, k
  <2>2. OfJobs(builds, par[w]) /\ "QUEUED" \in Status /\ "QUEUED" \in Begun
    BY <1>1 DEF WorkWell, Status, Begun
  <2>3. /\ Lasts /\ \A i \in DOMAIN builds : builds'[i] = builds[i]
        /\ DOMAIN builds' = DOMAIN builds \cup {Len(builds) + 1}
        /\ RowWell(events', builds', builds'[Len(builds) + 1])
    BY <1>1, <1>2, <1>4, <2>1, <2>2, AddWork
  <2> QED
    BY <1>2, <1>3, <2>3, WorkStep
<1>6. CASE nb[w] # NoId /\ builds[nb[w]].status = "CREATED"
  <2> DEFINE r == Started(builds[nb[w]])
  <2>1. nb[w] \in DOMAIN builds /\ builds[nb[w]] \in Rows(Len(events))
    BY <1>1, <1>6, TableType DEF TypeOK, NoId
  <2>2. builds' = [builds EXCEPT ![nb[w]] = r]
    BY <1>6 DEF StoreOr
  <2>3. /\ r.job = builds[nb[w]].job /\ r.event = builds[nb[w]].event
        /\ r.parents = builds[nb[w]].parents /\ r.status = "QUEUED"
    BY <2>1 DEF Started, Rows
  <2>4. OfJobs(builds, r.parents)
    BY <2>1, <2>3 DEF WorkInv, RowWell
  <2> HIDE DEF r
  <2> QED
    BY <1>2, <1>6, <2>2, <2>3, <2>4, WriteWork
<1>7. CASE nb[w] # NoId /\ builds[nb[w]].status # "CREATED"
  <2>1. builds' = builds
    BY <1>7 DEF StoreOr
  <2>2. Lasts
    BY <1>2, <2>1 DEF Lasts
  <2> QED
    BY <1>2, <1>3, <2>1, <2>2, WorkQuiet
<1> QED
  BY <1>5, <1>6, <1>7

LEMMA StoreAndWork ==
  ASSUME WorkInv, SourceInv', NEW w \in Requests, StoreAnd(w)
  PROVE  WorkInv' /\ Lasts
<1> DEFINE e == builds[cur[w]].event
           k == tgt[w]
<1>1. /\ TypeOK /\ WorkWell(w) /\ Len(events) \in Nat /\ par[w] \in Parents
      /\ e \in 1 .. Len(events) /\ k \in Jobs /\ cur[w] \in DOMAIN builds
  BY CurType, TableType DEF WorkInv, SourceInv, SafeInv, TypeInv, TypeOK, ObjectsOK, StoreAnd
<1>2. /\ UNCHANGED <<events, cur, todo, tgt, par>> /\ pc[w] = "store" /\ Alone(w) /\ ~Or(w)
      /\ pc'[w] \in {"check", "next"} /\ (pc'[w] = "check" => nb'[w] # NoId)
  BY TableType DEF WorkInv, SourceInv, SafeInv, TypeInv, TypeOK, StoreAnd, Free, Alone, NoId
<1>3. ASSUME Lasts PROVE WorkWell(w)'
  <2>1. OfJobs(builds', par'[w])
    BY <1>1, <1>2, <1>3, WellLasts DEF WorkWell
  <2>2. builds'[cur[w]].job = builds[cur[w]].job /\ builds'[cur[w]].status = "SUCCESS"
    BY <1>1, <1>2, <1>3 DEF WorkWell, Lasts, Ended
  <2> QED
    BY <1>1, <1>2, <2>1, <2>2 DEF WorkWell, Or
<1>4. e # 1 => k \in Flow(events[e])
  BY <1>2, NextInFlow
<1>5. JoinSrc(k) # {}
  BY <1>2, JoinNext
<1> HIDE DEF e, k
<1>6. CASE nb[w] = NoId
  <2>1. builds' = Append(builds, Row(e, k, "CREATED", par[w]))
    BY <1>1, <1>6 DEF StoreAnd, TypeOK, e, k
  <2>2. OfJobs(builds, par[w]) /\ "CREATED" \in Status
    BY <1>1 DEF WorkWell, Status
  <2>3. /\ Lasts /\ \A i \in DOMAIN builds : builds'[i] = builds[i]
        /\ DOMAIN builds' = DOMAIN builds \cup {Len(builds) + 1}
        /\ RowWell(events', builds', builds'[Len(builds) + 1])
    BY <1>1, <1>2, <1>4, <1>5, <2>1, <2>2, AddWork
  <2> QED
    BY <1>2, <1>3, <2>3, WorkStep
<1>7. CASE nb[w] # NoId /\ builds[nb[w]].status # "REMOVED"
  <2> DEFINE b == builds[nb[w]]
             p == MergedParents(par[w], b.parents)
             r == [b EXCEPT !.parents = p]
  <2>1. nb[w] \in DOMAIN builds /\ b \in Rows(Len(events))
    BY <1>1, <1>7, TableType DEF TypeOK, NoId
  <2>2. builds' = [builds EXCEPT ![nb[w]] = r] /\ nb' = nb
    BY <1>7 DEF StoreAnd
  <2>3. OfJobs(builds, p)
    BY <1>1, <2>1 DEF WorkInv, WorkWell, RowWell, OfJobs, MergedParents
  <2>4. r.job = b.job /\ r.event = b.event /\ r.status = b.status /\ r.parents = p
    BY <2>1 DEF Rows
  <2> HIDE DEF r, p
  <2> QED
    BY <1>2, <1>7, <2>2, <2>3, <2>4, WriteWork
<1>8. CASE nb[w] # NoId /\ builds[nb[w]].status = "REMOVED"
  <2>1. UNCHANGED builds
    BY <1>8 DEF StoreAnd
  <2>2. Lasts
    BY <1>2, <2>1 DEF Lasts
  <2> QED
    BY <1>2, <1>3, <2>1, <2>2, WorkQuiet
<1> QED
  BY <1>6, <1>7, <1>8

LEMMA CheckWork ==
  ASSUME WorkInv, SourceInv', NEW w \in Requests, Check(w)
  PROVE  WorkInv' /\ Lasts
<1> DEFINE b == builds[nb[w]]
<1>1. /\ TypeOK /\ WorkWell(w) /\ FoundWell(w) /\ UNCHANGED <<events, cur, todo, tgt, nb, par>>
      /\ pc[w] = "check" /\ pc'[w] = "next" /\ Alone(w)
      /\ builds' = Verdict(tgt[w], nb[w])
  BY DEF WorkInv, SourceInv, SafeInv, TypeInv, TypeOK, Check, Free, Alone
<1>2. CASE builds' = builds
  <2>1. Lasts
    BY <1>1, <1>2 DEF Lasts
  <2>2. WorkWell(w)'
    BY <1>1, <1>2 DEF WorkWell
  <2> QED
    BY <1>1, <1>2, <2>1, <2>2, WorkQuiet
<1>3. CASE builds' # builds
  <2>1. nb[w] # NoId /\ b \in Rows(Len(events)) /\ b.job = tgt[w] /\ OfJobs(builds, b.parents)
    BY <1>1, TableType DEF WorkWell, FoundWell, TypeOK, NoId, WorkInv, RowWell
  <2>2. JoinSrc(b.job) # {}
    BY <1>1, <2>1, JoinNext DEF WorkWell
  <2>3. PICK r : /\ builds' = [builds EXCEPT ![nb[w]] = r] /\ b.status = "CREATED"
                 /\ r.job = b.job /\ r.event = b.event /\ r.parents = b.parents
                 /\ r.status \in {"QUEUED", "REMOVED"}
    <3>1. CASE HasFailure(tgt[w], b.parents)
      <4> DEFINE r == [b EXCEPT !.status = "REMOVED"]
      <4>1. builds' = [builds EXCEPT ![nb[w]] = r] /\ b.status = "CREATED"
        BY <1>1, <1>3, <3>1 DEF Verdict
      <4>2. /\ r.job = b.job /\ r.event = b.event /\ r.parents = b.parents
            /\ r.status = "REMOVED"
        BY <2>1 DEF Rows
      <4> HIDE DEF r
      <4> QED
        BY <4>1, <4>2
    <3>2. CASE ~HasFailure(tgt[w], b.parents)
      <4> DEFINE r == Started(b)
      <4>1. builds' = [builds EXCEPT ![nb[w]] = r] /\ b.status = "CREATED"
        BY <1>1, <1>3, <3>2 DEF Verdict
      <4>2. /\ r.job = b.job /\ r.event = b.event /\ r.parents = b.parents
            /\ r.status = "QUEUED"
        BY <2>1 DEF Rows, Started
      <4> HIDE DEF r
      <4> QED
        BY <4>1, <4>2
    <3> QED
      BY <3>1, <3>2
  <2> QED
    BY <1>1, <2>1, <2>2, <2>3, WriteWork
<1> QED
  BY <1>2, <1>3

\* The event of a restart begins with the job restarted.
LEMMA RestartWork ==
  ASSUME WorkInv, SourceInv', NEW b \in DOMAIN builds, RestartFrom(b)
  PROVE  WorkInv' /\ Lasts
<1> DEFINE n == Len(events) + 1
           k == builds[b].job
           p == builds[b].parents
           ev == [from |-> k, parent |-> builds[b].event]
<1>1. TypeInv /\ TypeOK /\ RowWell(events, builds, builds[b])
  BY DEF WorkInv, SourceInv, SafeInv, TypeInv
<1>2. Len(events) \in Nat /\ builds[b] \in Rows(Len(events)) /\ Len(events) >= 1
  BY <1>1, TableType DEF TypeOK
<1>3. /\ k \in Jobs /\ p \in Parents /\ OfJobs(builds, p) /\ n \in Nat /\ n \in 1 .. n
      /\ builds[b].event \in 1 .. n - 1
  BY <1>1, <1>2 DEF Rows, RowWell
<1>4. events' = Append(events, ev) /\ Len(events') = n
  BY <1>1 DEF RestartFrom, TypeOK
<1>5. events'[n] = ev /\ \A d \in 1 .. Len(events) : events'[d] = events[d]
  BY <1>1, <1>4 DEF TypeOK
<1>6. builds' = Append(builds, Row(n, k, "QUEUED", p)) /\ "QUEUED" \in Status /\ "QUEUED" \in Begun
  BY <1>4 DEF RestartFrom, Status, Begun
<1>7. /\ ev.from = k /\ ev.parent \in 1 .. n - 1 /\ Len(events) <= n /\ k \in Flow(ev)
      /\ 2 .. n = 2 .. Len(events) \cup {n} /\ 2 .. Len(events) \subseteq 1 .. Len(events)
      /\ 1 \in 1 .. Len(events)
  BY <1>2, <1>3 DEF Flow
<1> HIDE DEF n, k, p, ev
<1>8. /\ Lasts /\ \A i \in DOMAIN builds : builds'[i] = builds[i]
      /\ DOMAIN builds' = DOMAIN builds \cup {Len(builds) + 1}
      /\ builds'[Len(builds) + 1] = Row(n, k, "QUEUED", p)
      /\ RowWell(events', builds', builds'[Len(builds) + 1])
  BY <1>1, <1>2, <1>3, <1>5, <1>6, <1>7, AddWork
<1>9. \A i \in DOMAIN builds' : RowWell(events', builds', builds'[i])
  <2>1. \A i \in DOMAIN builds : builds[i].event \in 1 .. Len(events)
    BY <1>1, TableType DEF Rows
  <2> QED
    BY <1>8, <2>1, WellLasts DEF WorkInv
<1>10. ASSUME NEW w \in Requests PROVE WorkWell(w)'
  <2>1. WorkWell(w) /\ OfJobs(builds', par[w]) /\ (pc[w] # "idle" => cur[w] \in DOMAIN builds)
    BY <1>1, <1>8, WellLasts, CurType DEF WorkInv, WorkWell
  <2>2. UNCHANGED <<pc, nb, tgt, par, todo, cur>>
    BY DEF RestartFrom, locals
  <2> QED
    BY <1>8, <2>1, <2>2 DEF WorkWell, Or
<1>11. EventsWell'
  <2>1. ASSUME NEW m, m = n PROVE BegunWith(m)'
    <3>1. /\ builds'[Len(builds) + 1].event = n /\ builds'[Len(builds) + 1].job = k
          /\ builds'[Len(builds) + 1].status = "QUEUED"
      BY <1>8 DEF Row
    <3> QED
      BY <1>5, <1>7, <1>8, <2>1, <3>1 DEF BegunWith, Begun
  <2>2. ASSUME NEW e \in 2 .. Len(events) PROVE BegunWith(e)'
    BY <1>5, <1>7, <1>8 DEF WorkInv, EventsWell, BegunWith
  <2>3. ASSUME NEW e \in 2 .. n
        PROVE  events'[e].parent \in 1 .. e - 1 /\ events'[e].from \in Jobs /\ BegunWith(e)'
    <3>1. CASE e = n
      BY <1>3, <1>5, <1>7, <2>1, <3>1
    <3>2. CASE e # n
      <4>1. e \in 2 .. Len(events) /\ e \in 1 .. Len(events)
        BY <1>7, <3>2
      <4> QED
        BY <1>5, <2>2, <4>1 DEF WorkInv, EventsWell
    <3> QED
      BY <3>1, <3>2
  <2> QED
    BY <1>4, <1>5, <1>7, <2>3 DEF WorkInv, EventsWell
<1> QED
  BY <1>8, <1>9, <1>10, <1>11 DEF WorkInv

LEMMA InitWork == ASSUME Init PROVE WorkInv
<1>1. SourceInv /\ TypeOK
  BY InitSource DEF SourceInv, SafeInv, TypeInv
<1>2. PICK o \in SetToSeqs(Roots) : builds = [i \in DOMAIN o |-> Row(1, o[i], "QUEUED", NoParents)]
  BY DEF Init
<1>3. ASSUME NEW i \in DOMAIN builds
      PROVE  builds[i].event = 1 /\ builds[i].parents = NoParents /\ builds[i].status = "QUEUED"
  BY <1>2 DEF Row
<1>4. OfJobs(builds, NoParents)
  BY DEF OfJobs, NoParents
<1>5. \A i \in DOMAIN builds : RowWell(events, builds, builds[i])
  BY <1>3, <1>4 DEF RowWell, Begun
<1>6. \A w \in Requests : WorkWell(w)
  BY <1>4 DEF Init, WorkWell
<1>7. EventsWell
  <2>1. events = <<[from |-> "~commit", parent |-> 0]>>
    BY DEF Init
  <2>2. events[1] = [from |-> "~commit", parent |-> 0] /\ Len(events) = 1
    BY <2>1
  <2> QED
    BY <2>2 DEF EventsWell
<1> QED
  BY <1>1, <1>5, <1>6, <1>7 DEF WorkInv

LEMMA StepWork == ASSUME WorkInv, SourceInv', NEW w \in Requests, Step(w) PROVE WorkInv'
BY AnsweredWork, RemoveWork, FindWork, StoreOrWork, StoreAndWork, CheckWork DEF Step

LEMMA WorkInductive == WorkInv /\ [Next]_vars => WorkInv'
<1> SUFFICES ASSUME WorkInv, [Next]_vars PROVE WorkInv'
  OBVIOUS
<1>0. SourceInv'
  BY SourceInductive DEF WorkInv
<1>1. ASSUME NEW b \in DOMAIN builds, RestartFrom(b) PROVE WorkInv'
  BY <1>0, <1>1, RestartWork
<1>2. ASSUME NEW w \in Requests, NEW b \in DOMAIN builds, NEW s \in Ended, Finish(w, b, s)
      PROVE  WorkInv'
  BY <1>0, <1>2, FinishWork
<1>3. ASSUME NEW w \in Requests, Step(w) PROVE WorkInv'
  BY <1>0, <1>3, StepWork
<1>4. CASE UNCHANGED vars
  BY <1>0, <1>4 DEF vars, locals, WorkInv, WorkWell, EventsWell, BegunWith, Or
<1> QED
  BY <1>1, <1>2, <1>3, <1>4 DEF Next

-----------------------------------------------------------------------------
(* The join of a restarted group runs *)

\* A request is about to tell the join k of the build d.
About(w, k) ==
  \/ pc[w] \in {"next", "store", "check"} /\ k \in todo[w]
  \/ pc[w] = "store" /\ tgt[w] = k
Looking(k, d) == \E w \in Requests : cur[w] = d /\ About(w, k)

\* The builds of the sources that are SUCCESS.
Passed(k) == {d \in DOMAIN builds : builds[d].job \in JoinSrc(k) /\ builds[d].status = "SUCCESS"}
Failed(k) == \E d \in DOMAIN builds : builds[d].job \in JoinSrc(k) /\ builds[d].status = "FAILURE"

\* The build of k that a build of the event e is recorded in: the one of the
\* restart, if there is one.
Held(e, k) == IF e = 2 \/ IdsIn(2, k) # {} THEN IdsIn(2, k) ELSE IdsIn(1, k)

Recorded(k, d) ==
  \E i \in Held(builds[d].event, k) : builds[i].parents[builds[d].job] # NoId

\* No build of the join is removed.
Kept(k) == \A i \in DOMAIN builds : builds[i].job = k => builds[i].status # "REMOVED"

\* No build of a source is forgotten.
Seen(k) == \A d \in Passed(k) : Looking(k, d) \/ Recorded(k, d)

\* What a request has found is still so when it writes: the build of k if there is
\* one, and else, in the restart, a parent for each source that has passed before.
StoreWell(k, w) ==
  pc[w] = "store" /\ tgt[w] = k =>
    /\ par[w][builds[cur[w]].job] # NoId
    /\ IF Held(builds[cur[w]].event, k) = {} THEN nb[w] = NoId
       ELSE nb[w] \in Held(builds[cur[w]].event, k)
    /\ builds[cur[w]].event = 2 /\ nb[w] = NoId =>
         \A d \in Passed(k) : par[w][builds[d].job] # NoId \/ Looking(k, d)

\* A build that has all it waits for is about to be started.
Decided(k) ==
  \A i \in Held(1, k) :
    builds[i].status = "CREATED" /\ Done(k, builds[i].parents) =>
      \/ \E w \in Requests : pc[w] = "check" /\ nb[w] = i
      \/ \E d \in Passed(k) : Looking(k, d)

Sound(k) == Kept(k) /\ Seen(k) /\ (\A w \in Requests : StoreWell(k, w)) /\ Decided(k)

\* Where nothing is promised: a source failed, the group was restarted again, or
\* with the join itself.
Excused(k) ==
  Failed(k) \/ Len(events) > 2 \/ (Len(events) = 2 /\ events[2].from = k)

GroupInv ==
  /\ WorkInv
  /\ \A k \in Jobs : JoinOnly(k) /\ Apart(k) => Excused(k) \/ Sound(k)

LEMMA HeldRows ==
  ASSUME NEW e, NEW k, NEW i \in Held(e, k)
  PROVE  i \in DOMAIN builds /\ builds[i].job = k
BY DEF Held, IdsIn, Ids

LEMMA ExcusedLasts ==
  ASSUME TypeOK, Lasts, NEW k, Excused(k),
         UNCHANGED events \/ Len(events') = Len(events) + 1
  PROVE  Excused(k)'
<1>1. Failed(k) => Failed(k)'
  BY DEF Failed, Lasts, Ended
<1>2. Len(events) \in Nat
  BY TableType
<1> QED
  BY <1>1, <1>2 DEF Excused

\* A step that forgets no build of a source, leaves the builds of the join
\* waiting as they are, and looks away from none that could be started.
LEMMA KeepSound ==
  ASSUME WorkInv, NEW k \in Jobs, Sound(k), ~Failed(k)', Lasts,
         \A i \in DOMAIN builds' : builds'[i].job = k =>
           /\ i \in DOMAIN builds /\ builds'[i].parents = builds[i].parents
           /\ builds'[i].status \in {"CREATED", "REMOVED"} => builds'[i].status = builds[i].status,
         \A i \in DOMAIN builds' : builds'[i].job \in JoinSrc(k) /\ builds'[i].status \in Ended =>
           \/ i \in DOMAIN builds /\ builds'[i].status = builds[i].status
           \/ builds'[i].status = "SUCCESS" /\ Looking(k, i)',
         \A d \in DOMAIN builds : Looking(k, d) => Looking(k, d)',
         \A q \in Requests :
           \/ StoreWell(k, q)'
           \/ pc[q] = "store" /\ cur'[q] = cur[q] /\ nb'[q] = nb[q] /\ par'[q] = par[q] /\ tgt'[q] = tgt[q],
         \A q \in Requests, i \in DOMAIN builds :
           pc[q] = "check" /\ nb[q] = i /\ builds[i].job = k
             /\ builds'[i].status = "CREATED" /\ Done(k, builds[i].parents)'
             => pc'[q] = "check" /\ nb'[q] = i
  PROVE  Sound(k)'
<1>1. \A e : IdsIn(e, k)' = IdsIn(e, k)
  BY DEF Sound, Kept, IdsIn, Ids, Lasts
<1>2. \A e : Held(e, k)' = Held(e, k)
  BY <1>1 DEF Held
<1>3. Kept(k)'
  BY DEF Sound, Kept, Lasts
<1>4. \A d \in Passed(k)' : d \in Passed(k) \/ Looking(k, d)'
  <2> SUFFICES ASSUME NEW d \in Passed(k)', ~Looking(k, d)' PROVE d \in Passed(k)
    OBVIOUS
  <2>1. d \in DOMAIN builds' /\ builds'[d].job \in JoinSrc(k) /\ builds'[d].status = "SUCCESS"
    BY DEF Passed
  <2>2. d \in DOMAIN builds /\ builds'[d].status = builds[d].status
    BY <2>1 DEF Ended
  <2> QED
    BY <2>1, <2>2 DEF Passed, Lasts
<1>5. \A d \in Passed(k) : d \in Passed(k)' /\ d \in DOMAIN builds
        /\ builds'[d].event = builds[d].event /\ builds'[d].job = builds[d].job
  BY DEF Passed, Lasts, Ended
<1>6. Seen(k)'
  <2> SUFFICES ASSUME NEW d \in Passed(k)', ~Looking(k, d)' PROVE Recorded(k, d)'
    BY DEF Seen
  <2>1. d \in Passed(k) /\ Recorded(k, d)
    BY <1>4, <1>5 DEF Sound, Seen
  <2>2. PICK i \in Held(builds[d].event, k) : builds[i].parents[builds[d].job] # NoId
    BY <2>1 DEF Recorded
  <2>3. i \in DOMAIN builds' /\ builds'[i].job = k
    BY <2>2, HeldRows DEF Lasts
  <2>4. builds'[i].parents = builds[i].parents
    BY <2>3
  <2>5. builds'[d].event = builds[d].event /\ builds'[d].job = builds[d].job
    BY <2>1, <1>5
  <2>6. i \in Held(builds[d].event, k)'
    BY <1>2, <2>2, <2>5
  <2> QED
    BY <2>2, <2>4, <2>5, <2>6 DEF Recorded
<1>7. ASSUME NEW q \in Requests PROVE StoreWell(k, q)'
  <2> SUFFICES ASSUME pc'[q] = "store", tgt'[q] = k, pc[q] = "store", cur'[q] = cur[q],
                      nb'[q] = nb[q], par'[q] = par[q], tgt'[q] = tgt[q]
               PROVE  StoreWell(k, q)'
    BY DEF StoreWell
  <2>1. StoreWell(k, q)
    BY DEF Sound
  <2>2. cur[q] \in DOMAIN builds
    BY CurType DEF WorkInv, SourceInv, SafeInv
  <2>3. builds'[cur[q]].event = builds[cur[q]].event /\ builds'[cur[q]].job = builds[cur[q]].job
    BY <2>2 DEF Lasts
  <2>4. ASSUME builds[cur[q]].event = 2, nb[q] = NoId, NEW d \in Passed(k)'
        PROVE  par[q][builds'[d].job] # NoId \/ Looking(k, d)'
    BY <1>4, <1>5, <2>1, <2>4 DEF StoreWell
  <2> QED
    BY <1>2, <2>1, <2>3, <2>4 DEF StoreWell
<1>8. Decided(k)'
  <2> SUFFICES ASSUME NEW i \in Held(1, k), builds'[i].status = "CREATED",
                      Done(k, builds[i].parents)',
                      ~ \E d \in Passed(k)' : Looking(k, d)'
               PROVE  \E w \in Requests : pc'[w] = "check" /\ nb'[w] = i
    BY <1>2 DEF Decided
  <2>1. i \in DOMAIN builds /\ builds[i].job = k /\ i \in DOMAIN builds' /\ builds'[i].job = k
    BY HeldRows DEF Lasts
  <2>2. builds'[i].parents = builds[i].parents /\ builds[i].status = "CREATED"
    BY <2>1
  <2>3. Done(k, builds[i].parents)
    <3> SUFFICES ASSUME NEW j \in JoinSrc(k)
                 PROVE  builds[i].parents[j] # NoId /\ builds[builds[i].parents[j]].status \in Ended
      BY DEF Done
    <3>0. PICK d : d = builds[i].parents[j]
      OBVIOUS
    <3>1. d # NoId /\ builds'[d].status \in Ended
      BY <2>2, <3>0 DEF Done
    <3>2. d \in DOMAIN builds /\ builds[d].job = j
      BY <2>1, <3>0, <3>1 DEF WorkInv, RowWell, OfJobs, JoinSrc
    <3>3. d \in DOMAIN builds' /\ builds'[d].job = j
      BY <3>2 DEF Lasts
    <3>4. ~(builds'[d].status = "SUCCESS" /\ Looking(k, d)')
      BY <3>3 DEF Passed
    <3>5. builds'[d].status = builds[d].status
      BY <3>1, <3>3, <3>4
    <3> QED
      BY <3>0, <3>1, <3>5
  <2>4. ~ \E d \in Passed(k) : Looking(k, d)
    BY <1>5
  <2>5. PICK w \in Requests : pc[w] = "check" /\ nb[w] = i
    BY <2>2, <2>3, <2>4 DEF Sound, Decided
  <2> QED
    BY <2>1, <2>5
<1> QED
  BY <1>3, <1>6, <1>7, <1>8 DEF Sound

\* What the other requests look at stays as it is.
LEMMA LookKept ==
  ASSUME NEW w \in Requests, Alone(w), \A q \in Requests \ {w} : todo'[q] = todo[q],
         NEW k, NEW d, Looking(k, d), d # cur[w]
  PROVE  Looking(k, d)'
<1>1. PICK q \in Requests : cur[q] = d /\ About(q, k)
  BY DEF Looking
<1>2. q # w
  BY <1>1
<1>3. cur'[q] = d /\ About(q, k)'
  BY <1>1, <1>2 DEF About, Alone
<1> QED
  BY <1>3 DEF Looking

\* The same for the step of one request.
LEMMA KeepStep ==
  ASSUME WorkInv, NEW k \in Jobs, Sound(k), ~Failed(k)', Lasts,
         NEW w \in Requests, Alone(w),
         \A q \in Requests \ {w} : par'[q] = par[q] /\ todo'[q] = todo[q],
         \A i \in DOMAIN builds' : builds'[i].job = k =>
           /\ i \in DOMAIN builds /\ builds'[i].parents = builds[i].parents
           /\ builds'[i].status \in {"CREATED", "REMOVED"} => builds'[i].status = builds[i].status,
         \A i \in DOMAIN builds' : builds'[i].job \in JoinSrc(k) /\ builds'[i].status \in Ended =>
           \/ i \in DOMAIN builds /\ builds'[i].status = builds[i].status
           \/ builds'[i].status = "SUCCESS" /\ Looking(k, i)',
         About(w, k) => About(w, k)' /\ cur'[w] = cur[w],
         StoreWell(k, w)',
         \A i \in DOMAIN builds :
           pc[w] = "check" /\ nb[w] = i /\ builds[i].job = k
             /\ builds'[i].status = "CREATED" /\ Done(k, builds[i].parents)'
             => pc'[w] = "check" /\ nb'[w] = i
  PROVE  Sound(k)'
<1>1. ASSUME NEW d \in DOMAIN builds, Looking(k, d) PROVE Looking(k, d)'
  <2>1. PICK q \in Requests : cur[q] = d /\ About(q, k)
    BY <1>1 DEF Looking
  <2>2. cur'[q] = d /\ About(q, k)'
    BY <2>1 DEF About, Alone
  <2> QED
    BY <2>2 DEF Looking
<1>2. ASSUME NEW q \in Requests
      PROVE  \/ StoreWell(k, q)'
             \/ /\ pc[q] = "store" /\ cur'[q] = cur[q] /\ nb'[q] = nb[q]
                /\ par'[q] = par[q] /\ tgt'[q] = tgt[q]
  <2>1. CASE q = w
    BY <2>1
  <2>2. CASE q # w
    <3>1. pc'[q] # "store" => StoreWell(k, q)'
      BY DEF StoreWell
    <3> QED
      BY <2>2, <3>1 DEF Alone
  <2> QED
    BY <2>1, <2>2
<1>3. ASSUME NEW q \in Requests, NEW i \in DOMAIN builds,
             pc[q] = "check", nb[q] = i, builds[i].job = k,
             builds'[i].status = "CREATED", Done(k, builds[i].parents)'
      PROVE  pc'[q] = "check" /\ nb'[q] = i
  <2>1. CASE q = w
    BY <1>3, <2>1
  <2>2. CASE q # w
    BY <1>3, <2>2 DEF Alone
  <2> QED
    BY <2>1, <2>2
<1> QED
  BY <1>1, <1>2, <1>3, KeepSound

\* A join is no source of its own, and all edges to it are join edges.
LEMMA JoinEdge ==
  ASSUME NEW k \in Jobs, JoinOnly(k), Apart(k)
  PROVE  /\ k \notin JoinSrc(k)
         /\ \A c \in Jobs : k \in NextJobs(c) => c \in JoinSrc(k) /\ ~IsOr(c, k)
         /\ \A c \in JoinSrc(k) : k \in NextJobs(c)
BY DEF JoinOnly, Apart, JoinSrc, NextJobs, IsOr

LEMMA AnsweredGroup ==
  ASSUME WorkInv, NEW k \in Jobs, Sound(k), ~Excused(k)', NEW w \in Requests, Answered(w)
  PROVE  Sound(k)'
<1>1. /\ UNCHANGED <<events, builds, par, todo>> /\ Alone(w) /\ pc'[w] = "idle"
      /\ pc[w] \in {"next", "remove"} /\ todo[w] = {}
  BY DEF WorkInv, SourceInv, SafeInv, TypeInv, TypeOK, Answered, Alone
<1>2. Lasts /\ ~Failed(k)'
  BY <1>1 DEF Lasts, Excused
<1>3. ~About(w, k) /\ StoreWell(k, w)'
  BY <1>1 DEF About, StoreWell
<1> QED
  BY <1>1, <1>2, <1>3, KeepStep

LEMMA FinishGroup ==
  ASSUME WorkInv, NEW k \in Jobs, JoinOnly(k), Apart(k), Sound(k), ~Excused(k)', Lasts,
         NEW w \in Requests, NEW b \in DOMAIN builds, NEW s \in Ended, Finish(w, b, s)
  PROVE  Sound(k)'
<1>1. /\ TypeInv /\ builds[b] \in Rows(Len(events)) /\ UNCHANGED <<events, par>>
      /\ builds' = [builds EXCEPT ![b].status = s] /\ pc[w] = "idle"
  BY TableType DEF WorkInv, SourceInv, SafeInv, TypeInv, Finish
<1>2. /\ Alone(w) /\ pc'[w] = IF s = "SUCCESS" THEN "next" ELSE "remove"
      /\ cur'[w] = b /\ todo'[w] = NextJobs(builds[b].job)
      /\ \A q \in Requests \ {w} : par'[q] = par[q] /\ todo'[q] = todo[q]
  BY <1>1 DEF TypeInv, TypeOK, Finish, Alone
<1>3. /\ DOMAIN builds' = DOMAIN builds
      /\ \A i \in DOMAIN builds : i # b => builds'[i] = builds[i]
      /\ builds'[b].job = builds[b].job /\ builds'[b].event = builds[b].event
      /\ builds'[b].parents = builds[b].parents /\ builds'[b].status = s
  BY <1>1 DEF Rows
<1>4. ~Failed(k)'
  BY DEF Excused
<1>5. \A i \in DOMAIN builds' : builds'[i].job = k =>
        /\ i \in DOMAIN builds /\ builds'[i].parents = builds[i].parents
        /\ builds'[i].status \in {"CREATED", "REMOVED"} => builds'[i].status = builds[i].status
  BY <1>3 DEF Ended
<1>6. ASSUME NEW i \in DOMAIN builds', builds'[i].job \in JoinSrc(k), builds'[i].status \in Ended
      PROVE  \/ i \in DOMAIN builds /\ builds'[i].status = builds[i].status
             \/ builds'[i].status = "SUCCESS" /\ Looking(k, i)'
  <2>1. CASE i # b
    BY <1>3, <2>1
  <2>2. CASE i = b
    <3>1. s = "SUCCESS"
      BY <1>3, <1>4, <1>6, <2>2 DEF Failed, Ended
    <3>2. k \in todo'[w] /\ pc'[w] = "next"
      BY <1>2, <1>3, <1>6, <2>2, <3>1, JoinEdge
    <3> QED
      BY <1>2, <1>3, <2>2, <3>1, <3>2 DEF Looking, About
  <2> QED
    BY <2>1, <2>2
<1>7. ~About(w, k) /\ StoreWell(k, w)'
  BY <1>1, <1>2 DEF About, StoreWell
<1> QED
  BY <1>1, <1>2, <1>4, <1>5, <1>6, <1>7, KeepStep

\* A failure removes builds of the jobs it comes before, and no source has failed.
LEMMA RemoveGroup ==
  ASSUME WorkInv, NEW k \in Jobs, JoinOnly(k), Apart(k), Sound(k), ~Excused(k)', Lasts,
         NEW w \in Requests, RemoveJoin(w)
  PROVE  Sound(k)'
<1>1. PICK m \in todo[w] : builds' = RemoveNext(cur[w], m) /\ todo' = [todo EXCEPT ![w] = @ \ {m}]
  BY DEF RemoveJoin
<1>2. /\ UNCHANGED <<events, par, cur, pc>> /\ Alone(w) /\ pc[w] = "remove" /\ WorkWell(w)
      /\ TypeInv
  BY DEF WorkInv, SourceInv, SafeInv, RemoveJoin, Alone
<1>3. /\ DOMAIN builds' = DOMAIN builds
      /\ \A i \in DOMAIN builds :
           \/ builds'[i] = builds[i]
           \/ builds[i].job = m /\ builds'[i] = [builds[i] EXCEPT !.status = "REMOVED"]
  BY <1>1 DEF RemoveNext, IdsIn, Ids
<1>4. \A i \in DOMAIN builds :
        \/ builds'[i] = builds[i]
        \/ builds'[i].job = m /\ builds'[i].status = "REMOVED"
  BY <1>2, <1>3, TableType DEF TypeInv, Rows
<1>5. ~Failed(k)' /\ ~Failed(k)
  BY DEF Excused, Failed, Lasts, Ended
<1>6. m # k
  <2>1. /\ cur[w] \in DOMAIN builds /\ builds[cur[w]].job \in Jobs
        /\ builds[cur[w]].status = "FAILURE" /\ m \in NextJobs(builds[cur[w]].job)
    BY <1>1, <1>2, CurType DEF WorkWell
  <2> QED
    BY <1>5, <2>1, JoinEdge DEF Failed
<1>7. ~About(w, k) /\ StoreWell(k, w)'
  BY <1>2 DEF About, StoreWell
<1>8. \A q \in Requests \ {w} : par'[q] = par[q] /\ todo'[q] = todo[q]
  BY <1>1, <1>2 DEF TypeInv, TypeOK
<1>9. \A i \in DOMAIN builds' : builds'[i].job = k => builds'[i] = builds[i]
  BY <1>3, <1>4, <1>6
<1>10. \A i \in DOMAIN builds' : builds'[i].status \in Ended => builds'[i] = builds[i]
  BY <1>3, <1>4 DEF Ended
<1> QED
  BY <1>2, <1>3, <1>5, <1>7, <1>8, <1>9, <1>10, KeepStep

LEMMA UpToTwo ==
  ASSUME NEW n \in Nat, n <= 2
  PROVE  1 .. n \subseteq {1, 2} /\ (2 \in 1 .. n => n = 2)
OBVIOUS

\* With one restart, AndTrigger finds the build that Held says.
LEMMA NextHeld ==
  ASSUME WorkInv, Len(events) <= 2, NEW e \in 1 .. Len(events), NEW k \in Jobs
  PROVE  /\ Held(e, k) = {} => NextBuild(e, k) = NoId
         /\ Held(e, k) # {} => NextBuild(e, k) \in Held(e, k)
<1>1. /\ TypeOK /\ Len(builds) \in Nat /\ DOMAIN builds = 1 .. Len(builds)
      /\ Len(events) \in Nat /\ NoId \notin DOMAIN builds
  BY TableType DEF WorkInv, SourceInv, SafeInv, TypeInv, NoId
<1>2. \A i \in Ids(k) : i \in DOMAIN builds /\ builds[i].event \in 1 .. Len(events)
  BY <1>1, TableType DEF Ids, Rows
<1>3. 1 .. Len(events) \subseteq {1, 2} /\ (2 \in 1 .. Len(events) => Len(events) = 2)
  BY <1>1, UpToTwo
<1>4. events[1].parent = 0 /\ (Len(events) = 2 => events[2].parent = 1)
  BY DEF WorkInv, EventsWell
<1>5. \A i \in Ids(k) :
        /\ builds[i].event = 1 => events[builds[i].event].parent = 0
        /\ builds[i].event = 2 => events[builds[i].event].parent = 1
        /\ builds[i].event \in {1, 2}
  BY <1>2, <1>3, <1>4
<1>6. ASSUME NEW x
      PROVE  /\ IdsIn(x, k) # {} => CurrentBuild(x, k) \in IdsIn(x, k)
             /\ IdsIn(x, k) = {} => CurrentBuild(x, k) = NoId
  <2>1. IdsIn(x, k) \subseteq 1 .. Len(builds)
    BY <1>1 DEF IdsIn, Ids
  <2>2. IdsIn(x, k) # {} => Newest(IdsIn(x, k)) \in IdsIn(x, k)
    BY <1>1, <2>1, NewestType
  <2> QED
    BY <2>2 DEF CurrentBuild, Newest
<1>7. GroupBuild(2, k) = NoId /\ (GroupBuild(1, k) # NoId => IdsIn(2, k) # {})
  <2>1. Latest(k) # NoId => Latest(k) \in Ids(k)
    BY <1>1, ReadJob
  <2>2. Latest(k) # NoId => builds[Latest(k)].event \in {1, 2}
    BY <1>5, <2>1
  <2>3. GroupBuild(2, k) = NoId
    BY <2>2 DEF GroupBuild
  <2>4. GroupBuild(1, k) # NoId => Latest(k) # NoId /\ builds[Latest(k)].event = 2
    BY <2>2 DEF GroupBuild
  <2> QED
    BY <2>1, <2>3, <2>4 DEF IdsIn
<1>8. ChildBuild(2, k) = NoId
  <2>1. {i \in Ids(k) : events[builds[i].event].parent = 2} = {}
    BY <1>5
  <2> QED
    BY <2>1 DEF ChildBuild
<1>9. /\ IdsIn(2, k) = {} => ChildBuild(1, k) = NoId
      /\ IdsIn(2, k) # {} => ChildBuild(1, k) \in IdsIn(2, k)
  <2>1. {i \in Ids(k) : events[builds[i].event].parent = 1} = IdsIn(2, k)
    BY <1>5 DEF IdsIn
  <2>2. \A i, m \in IdsIn(2, k) : builds[m].event <= builds[i].event
    BY DEF IdsIn
  <2>3. IdsIn(2, k) # {} =>
          (CHOOSE i \in IdsIn(2, k) : \A m \in IdsIn(2, k) : builds[m].event <= builds[i].event)
            \in IdsIn(2, k)
    BY <2>2
  <2> QED
    BY <2>1, <2>3 DEF ChildBuild
<1>10. \A i : i \in Ids(k) => i # NoId
  BY <1>1, <1>2
<1>11. CASE e = 2
  BY <1>6, <1>7, <1>8, <1>11 DEF NextBuild, Held
<1>12. CASE e = 1 /\ IdsIn(2, k) = {}
  BY <1>6, <1>7, <1>9, <1>12 DEF NextBuild, Held
<1>13. CASE e = 1 /\ IdsIn(2, k) # {}
  <2>1. ChildBuild(1, k) \in IdsIn(2, k) /\ ChildBuild(1, k) # NoId
    BY <1>9, <1>10, <1>13 DEF IdsIn
  <2> QED
    BY <1>13, <2>1 DEF NextBuild, Held
<1> QED
  BY <1>3, <1>11, <1>12, <1>13

\* What the parents of a join are filled with: the build itself, and in a restart
\* the latest build of each source that is not run again.
LEMMA FilledWell ==
  ASSUME WorkInv, Len(events) <= 2, NEW k \in Jobs, JoinOnly(k), Apart(k),
         NEW c \in Passed(k)
  PROVE  /\ FilledParents(c, k)[builds[c].job] # NoId
         /\ builds[c].event = 2 => \A d \in Passed(k) : FilledParents(c, k)[builds[d].job] # NoId
<1>1. /\ TypeOK /\ c \in DOMAIN builds /\ builds[c] \in Rows(Len(events)) /\ c # NoId
      /\ Len(events) \in Nat
  BY TableType DEF WorkInv, SourceInv, SafeInv, TypeInv, Passed, NoId
<1>2. \A j \in Jobs : OwnParents(c)[j] = IF j = builds[c].job THEN c ELSE builds[c].parents[j]
  BY <1>1 DEF OwnParents, Rows, Parents
<1>3. \A j \in Jobs : OwnParents(c)[j] # NoId => FilledParents(c, k)[j] # NoId
  BY DEF FilledParents
<1>4. builds[c].job \in Jobs /\ builds[c].job \in JoinSrc(k)
  BY DEF Passed, JoinSrc
<1>5. ASSUME builds[c].event = 2, NEW d \in Passed(k), builds[d].job # builds[c].job
      PROVE  FilledParents(c, k)[builds[d].job] # NoId
  <2> DEFINE j == builds[d].job
             s == events[2].from
  <2>1. j \in JoinSrc(k) /\ j \in Jobs /\ d \in Ids(j)
    BY DEF Passed, JoinSrc, Ids
  <2>2. Len(events) = 2 /\ s \in Jobs /\ builds[c].job \in {s} \cup Subsequent(s)
    <3>1. 2 \in 1 .. Len(events)
      BY <1>1, <1>5 DEF Rows
    <3>2. Len(events) = 2
      BY <1>1, <3>1, UpToTwo
    <3>3. s \in Jobs
      BY <3>2 DEF WorkInv, EventsWell
    <3> QED
      BY <1>1, <1>5, <3>2, <3>3 DEF WorkInv, RowWell, Flow
  <2>3. j \notin Subsequent(s)
    BY <1>4, <1>5, <2>1, <2>2 DEF Apart
  <2>4. Latest(j) # NoId
    <3>1. Ids(j) \subseteq 1 .. Len(builds) /\ Len(builds) \in Nat /\ NoId \notin 1 .. Len(builds)
      BY <1>1, TableType DEF Ids, NoId
    <3> QED
      BY <2>1, <3>1, NewestType DEF Latest
  <2>5. Related(2, j) # NoId
    BY <2>3, <2>4 DEF Related
  <2> HIDE DEF j, s
  <2>6. FilledParents(c, k)[j] # NoId
    BY <1>3, <1>5, <2>1, <2>5 DEF FilledParents
  <2> QED
    BY <2>6 DEF j
<1> QED
  BY <1>1, <1>2, <1>3, <1>4, <1>5

LEMMA FindGroup ==
  ASSUME WorkInv, NEW k \in Jobs, JoinOnly(k), Apart(k), Sound(k), ~Excused(k)',
         NEW w \in Requests, Find(w)
  PROVE  Sound(k)'
<1>1. /\ TypeInv /\ TypeOK /\ WorkWell(w) /\ pc[w] = "next" /\ UNCHANGED <<events, builds, cur>>
      /\ pc' = [pc EXCEPT ![w] = "store"]
  BY DEF WorkInv, SourceInv, SafeInv, TypeInv, Find
<1>2. PICK c \in DOMAIN builds, e \in 1 .. Len(events) :
        c = cur[w] /\ e = builds[c].event /\ builds[c].job \in Jobs
  BY <1>1, CurType
<1>3. PICK m \in todo[w] :
        /\ tgt'  = [tgt EXCEPT ![w] = m]
        /\ todo' = [todo EXCEPT ![w] = @ \ {m}]
        /\ IF IsOr(builds[c].job, m)
           THEN nb' = [nb EXCEPT ![w] = CurrentBuild(e, m)] /\ par' = [par EXCEPT ![w] = OwnParents(c)]
           ELSE nb' = [nb EXCEPT ![w] = NextBuild(e, m)] /\ par' = [par EXCEPT ![w] = FilledParents(c, m)]
  BY <1>2 DEF Find
<1>4. /\ tgt'[w] = m /\ pc'[w] = "store" /\ todo'[w] = todo[w] \ {m} /\ cur'[w] = c
      /\ Alone(w) /\ \A q \in Requests \ {w} : par'[q] = par[q] /\ todo'[q] = todo[q]
  BY <1>1, <1>2, <1>3 DEF TypeOK, Alone
<1>5. Lasts /\ ~Failed(k)' /\ Len(events) <= 2
  <2>1. Len(events) \in Nat
    BY <1>1, TableType
  <2> QED
    BY <1>1, <2>1 DEF Lasts, Excused
<1>6. About(w, k) => About(w, k)' /\ cur'[w] = cur[w]
  BY <1>1, <1>4 DEF About
<1>7. StoreWell(k, w)'
  <2> SUFFICES ASSUME m = k PROVE StoreWell(k, w)'
    BY <1>4 DEF StoreWell
  <2>1. /\ builds[c].job \in JoinSrc(k) /\ ~IsOr(builds[c].job, k)
        /\ builds[c].status = "SUCCESS"
    BY <1>1, <1>2, <1>3, JoinEdge DEF WorkWell
  <2>2. nb'[w] = NextBuild(e, k) /\ par'[w] = FilledParents(c, k)
    BY <1>1, <1>3, <2>1 DEF TypeOK
  <2>3. c \in Passed(k)
    BY <2>1 DEF Passed
  <2>4. /\ Held(e, k)' = Held(e, k) /\ Passed(k)' = Passed(k)
    BY <1>1 DEF Held, IdsIn, Ids, Passed
  <2>5. builds'[cur'[w]].event = e /\ builds'[cur'[w]].job = builds[c].job
    BY <1>1, <1>2, <1>4
  <2>6. par'[w][builds[c].job] # NoId
    BY <1>5, <2>2, <2>3, FilledWell
  <2>7. IF Held(e, k) = {} THEN nb'[w] = NoId ELSE nb'[w] \in Held(e, k)
    BY <1>5, <2>2, NextHeld
  <2>8. e = 2 => \A d \in Passed(k) : par'[w][builds[d].job] # NoId
    BY <1>2, <1>5, <2>2, <2>3, FilledWell
  <2>9. Held(builds[cur[w]].event, k)' = Held(e, k)
    BY <1>1, <1>2, <2>4
  <2> QED
    BY <1>1, <2>4, <2>5, <2>6, <2>7, <2>8, <2>9 DEF StoreWell
<1> QED
  BY <1>1, <1>4, <1>5, <1>6, <1>7, KeepStep

\* The write of another job's next build.
LEMMA OtherGroup ==
  ASSUME WorkInv, NEW k \in Jobs, Sound(k), ~Excused(k)', Lasts,
         NEW w \in Requests, Alone(w), pc[w] = "store", pc'[w] \in {"next", "check"},
         UNCHANGED <<todo, par, cur>>, tgt[w] # k,
         \A i \in DOMAIN builds' :
           \/ i \in DOMAIN builds /\ builds'[i] = builds[i]
           \/ /\ builds'[i].job = tgt[w]
              /\ \/ i \in DOMAIN builds /\ builds'[i].status = builds[i].status
                 \/ builds'[i].status \in {"CREATED", "QUEUED"}
  PROVE  Sound(k)'
<1>1. ~Failed(k)'
  BY DEF Excused
<1>2. About(w, k) => About(w, k)' /\ cur'[w] = cur[w]
  BY DEF About
<1>3. StoreWell(k, w)'
  BY DEF StoreWell
<1>4. \A i \in DOMAIN builds' : builds'[i].job = k => i \in DOMAIN builds /\ builds'[i] = builds[i]
  OBVIOUS
<1>5. \A i \in DOMAIN builds' : builds'[i].status \in Ended =>
        i \in DOMAIN builds /\ builds'[i].status = builds[i].status
  BY DEF Ended
<1> QED
  BY <1>1, <1>2, <1>3, <1>4, <1>5, KeepStep

LEMMA StoreOrGroup ==
  ASSUME WorkInv, NEW k \in Jobs, JoinOnly(k), Apart(k), Sound(k), ~Excused(k)', Lasts,
         NEW w \in Requests, StoreOr(w)
  PROVE  Sound(k)'
<1>1. /\ TypeInv /\ TypeOK /\ FoundWell(w) /\ pc[w] = "store" /\ pc'[w] = "next"
      /\ UNCHANGED <<todo, par, cur>> /\ Alone(w) /\ Or(w)
  BY DEF WorkInv, SourceInv, SafeInv, TypeInv, TypeOK, StoreOr, Free, Alone
<1>2. tgt[w] # k
  <2>1. builds[cur[w]].job \in Jobs
    BY <1>1, CurType
  <2> QED
    BY <1>1, <2>1 DEF Or, JoinOnly
<1>3. ASSUME NEW i \in DOMAIN builds'
      PROVE  \/ i \in DOMAIN builds /\ builds'[i] = builds[i]
             \/ builds'[i].job = tgt[w] /\ builds'[i].status = "QUEUED"
  <2>1. CASE nb[w] = NoId
    <3> DEFINE r == Row(builds[cur[w]].event, tgt[w], "QUEUED", par[w])
    <3>1. builds' = Append(builds, r)
      BY <2>1 DEF StoreOr
    <3>2. r.job = tgt[w] /\ r.status = "QUEUED"
      BY DEF Row
    <3>3. Len(builds) \in Nat /\ DOMAIN builds = 1 .. Len(builds)
      BY <1>1, TableType
    <3> HIDE DEF r
    <3>4. i \in 1 .. Len(builds) + 1
      BY <1>1, <3>1, <3>3 DEF TypeOK
    <3>5. i \in 1 .. Len(builds) => builds'[i] = builds[i]
      BY <1>1, <3>1 DEF TypeOK
    <3>6. i = Len(builds) + 1 => builds'[i] = r
      BY <1>1, <3>1 DEF TypeOK
    <3> QED
      BY <3>2, <3>3, <3>4, <3>5, <3>6
  <2>2. CASE nb[w] # NoId /\ builds[nb[w]].status = "CREATED"
    <3> DEFINE r == Started(builds[nb[w]])
    <3>1. nb[w] \in DOMAIN builds /\ builds[nb[w]] \in Rows(Len(events))
      BY <1>1, <2>2, TableType DEF TypeOK, NoId
    <3>2. builds' = [builds EXCEPT ![nb[w]] = r]
      BY <2>2 DEF StoreOr
    <3>3. r.job = tgt[w] /\ r.status = "QUEUED"
      BY <1>1, <2>2, <3>1 DEF Started, Rows, FoundWell
    <3> HIDE DEF r
    <3> QED
      BY <3>1, <3>2, <3>3
  <2>3. CASE nb[w] # NoId /\ builds[nb[w]].status # "CREATED"
    BY <2>3 DEF StoreOr
  <2> QED
    BY <2>1, <2>2, <2>3
<1> QED
  BY <1>1, <1>2, <1>3, OtherGroup

\* What processNextBuild writes.
LEMMA StoreAndRows ==
  ASSUME WorkInv, NEW w \in Requests, StoreAnd(w)
  PROVE  /\ nb[w] = NoId =>
              /\ builds' = Append(builds, Row(builds[cur[w]].event, tgt[w], "CREATED", par[w]))
              /\ DOMAIN builds' = DOMAIN builds \cup {Len(builds) + 1}
              /\ Len(builds) + 1 \notin DOMAIN builds
              /\ \A i \in DOMAIN builds : builds'[i] = builds[i]
              /\ builds'[Len(builds) + 1] = Row(builds[cur[w]].event, tgt[w], "CREATED", par[w])
              /\ nb'[w] = Len(builds) + 1 /\ pc'[w] = "check"
         /\ nb[w] # NoId /\ builds[nb[w]].status # "REMOVED" =>
              /\ nb[w] \in DOMAIN builds /\ DOMAIN builds' = DOMAIN builds
              /\ \A i \in DOMAIN builds : i # nb[w] => builds'[i] = builds[i]
              /\ builds[nb[w]].job = tgt[w] /\ builds'[nb[w]].job = tgt[w]
              /\ builds'[nb[w]].event = builds[nb[w]].event
              /\ builds'[nb[w]].status = builds[nb[w]].status
              /\ builds'[nb[w]].parents = MergedParents(par[w], builds[nb[w]].parents)
              /\ nb'[w] = nb[w] /\ pc'[w] = "check"
         /\ nb[w] # NoId /\ builds[nb[w]].status = "REMOVED" => builds' = builds
<1>1. TypeOK /\ FoundWell(w) /\ pc[w] = "store"
  BY DEF WorkInv, SourceInv, SafeInv, TypeInv, StoreAnd
<1>2. Len(builds) \in Nat /\ DOMAIN builds = 1 .. Len(builds)
  BY <1>1, TableType
<1>3. CASE nb[w] = NoId
  <2> DEFINE r == Row(builds[cur[w]].event, tgt[w], "CREATED", par[w])
  <2>1. /\ builds' = Append(builds, r) /\ nb' = [nb EXCEPT ![w] = Len(builds')]
        /\ pc' = [pc EXCEPT ![w] = "check"]
    BY <1>3 DEF StoreAnd
  <2> HIDE DEF r
  <2>2. Len(builds') = Len(builds) + 1 /\ DOMAIN builds' = 1 .. Len(builds) + 1
    BY <1>1, <2>1 DEF TypeOK
  <2>3. /\ \A i \in 1 .. Len(builds) : builds'[i] = builds[i]
        /\ builds'[Len(builds) + 1] = r
    BY <1>1, <2>1 DEF TypeOK
  <2>4. /\ 1 .. Len(builds) + 1 = 1 .. Len(builds) \cup {Len(builds) + 1}
        /\ Len(builds) + 1 \notin 1 .. Len(builds)
    BY <1>2
  <2>5. nb'[w] = Len(builds) + 1 /\ pc'[w] = "check"
    BY <1>1, <2>1, <2>2 DEF TypeOK
  <2> QED
    BY <1>2, <1>3, <2>1, <2>2, <2>3, <2>4, <2>5 DEF r
<1>4. CASE nb[w] # NoId /\ builds[nb[w]].status # "REMOVED"
  <2> DEFINE b == builds[nb[w]]
             r == [b EXCEPT !.parents = MergedParents(par[w], b.parents)]
  <2>1. nb[w] \in DOMAIN builds /\ b \in Rows(Len(events)) /\ b.job = tgt[w]
    BY <1>1, <1>4, TableType DEF TypeOK, NoId, FoundWell
  <2>2. builds' = [builds EXCEPT ![nb[w]] = r] /\ nb' = nb /\ pc' = [pc EXCEPT ![w] = "check"]
    BY <1>4 DEF StoreAnd
  <2>3. /\ r.job = b.job /\ r.event = b.event /\ r.status = b.status
        /\ r.parents = MergedParents(par[w], b.parents)
    BY <2>1 DEF Rows
  <2>4. pc'[w] = "check"
    BY <1>1, <2>2 DEF TypeOK
  <2> HIDE DEF r
  <2> QED
    BY <1>4, <2>1, <2>2, <2>3, <2>4
<1>5. CASE nb[w] # NoId /\ builds[nb[w]].status = "REMOVED"
  BY <1>5 DEF StoreAnd
<1> QED
  BY <1>3, <1>4, <1>5

\* The next build of another join.
LEMMA StoreAndGroup ==
  ASSUME WorkInv, NEW k \in Jobs, Sound(k), ~Excused(k)', Lasts,
         NEW w \in Requests, StoreAnd(w), tgt[w] # k
  PROVE  Sound(k)'
<1>1. /\ pc[w] = "store" /\ pc'[w] \in {"next", "check"}
      /\ UNCHANGED <<todo, par, cur>> /\ Alone(w)
  BY DEF WorkInv, SourceInv, SafeInv, TypeInv, TypeOK, StoreAnd, Free, Alone
<1>2. ASSUME NEW i \in DOMAIN builds'
      PROVE  \/ i \in DOMAIN builds /\ builds'[i] = builds[i]
             \/ /\ builds'[i].job = tgt[w]
                /\ \/ i \in DOMAIN builds /\ builds'[i].status = builds[i].status
                   \/ builds'[i].status = "CREATED"
  <2>1. CASE nb[w] = NoId
    <3> DEFINE r == Row(builds[cur[w]].event, tgt[w], "CREATED", par[w])
    <3>1. r.job = tgt[w] /\ r.status = "CREATED"
      BY DEF Row
    <3>2. /\ DOMAIN builds' = DOMAIN builds \cup {Len(builds) + 1}
          /\ \A j \in DOMAIN builds : builds'[j] = builds[j]
          /\ builds'[Len(builds) + 1] = r
      BY <2>1, StoreAndRows
    <3> HIDE DEF r
    <3> QED
      BY <3>1, <3>2
  <2>2. CASE nb[w] # NoId /\ builds[nb[w]].status # "REMOVED"
    BY <2>2, StoreAndRows
  <2>3. CASE nb[w] # NoId /\ builds[nb[w]].status = "REMOVED"
    BY <2>3, StoreAndRows
  <2> QED
    BY <2>1, <2>2, <2>3
<1> QED
  BY <1>1, <1>2, OtherGroup

\* A join whose sources have all passed is started.
LEMMA CheckGroup ==
  ASSUME WorkInv, NEW k \in Jobs, JoinOnly(k), Apart(k), Sound(k), ~Excused(k)', Lasts,
         NEW w \in Requests, Check(w)
  PROVE  Sound(k)'
<1> DEFINE b == builds[nb[w]]
<1>1. /\ TypeInv /\ TypeOK /\ FoundWell(w) /\ WorkWell(w) /\ pc[w] = "check" /\ pc'[w] = "next"
      /\ UNCHANGED <<todo, par, cur>> /\ Alone(w) /\ builds' = Verdict(tgt[w], nb[w])
  BY DEF WorkInv, SourceInv, SafeInv, TypeInv, TypeOK, Check, Free, Alone
<1>2. ~Failed(k)' /\ ~Failed(k)
  BY DEF Excused, Failed, Lasts, Ended
<1>3. About(w, k) => About(w, k)' /\ cur'[w] = cur[w]
  BY <1>1 DEF About
<1>4. StoreWell(k, w)'
  BY <1>1 DEF StoreWell
<1>5. /\ nb[w] # NoId /\ nb[w] \in DOMAIN builds /\ b \in Rows(Len(events)) /\ b.job = tgt[w]
      /\ OfJobs(builds, b.parents)
  BY <1>1, TableType DEF WorkWell, FoundWell, TypeOK, NoId, WorkInv, RowWell
<1>6. ASSUME tgt[w] = k
      PROVE  ~Gone(k, b.parents) /\ ~HasFailure(k, b.parents)
  <2>1. \A j \in JoinSrc(k) : b.parents[j] # NoId =>
          b.parents[j] \in DOMAIN builds /\ builds[b.parents[j]].job = j
    BY <1>5 DEF OfJobs, JoinSrc
  <2>2. \A j \in JoinSrc(k) : b.parents[j] # NoId => builds[b.parents[j]].status \in Begun
    BY <2>1 DEF Apart, WorkInv, RowWell
  <2> QED
    BY <1>2, <2>1, <2>2 DEF Gone, HasFailure, Failed, Begun, Ended
<1>7. ASSUME NEW i \in DOMAIN builds'
      PROVE  /\ i \in DOMAIN builds
             /\ \/ builds'[i] = builds[i]
                \/ /\ i = nb[w] /\ builds'[i].job = tgt[w] /\ builds'[i].parents = builds[i].parents
                   /\ \/ builds'[i].status = "QUEUED"
                      \/ builds'[i].status = "REMOVED" /\ HasFailure(tgt[w], b.parents)
  <2> DEFINE r == [b EXCEPT !.status = "REMOVED"]
             q == Started(b)
  <2>1. /\ r.job = b.job /\ r.parents = b.parents /\ r.status = "REMOVED"
        /\ q.job = b.job /\ q.parents = b.parents /\ q.status = "QUEUED"
    BY <1>5 DEF Rows, Started
  <2>2. \/ builds' = builds
        \/ builds' = [builds EXCEPT ![nb[w]] = r] /\ HasFailure(tgt[w], b.parents)
        \/ builds' = [builds EXCEPT ![nb[w]] = q]
    BY <1>1 DEF Verdict
  <2> HIDE DEF r, q
  <2> QED
    BY <1>5, <2>1, <2>2
<1>8. \A i \in DOMAIN builds' : builds'[i].job = k =>
        /\ i \in DOMAIN builds /\ builds'[i].parents = builds[i].parents
        /\ builds'[i].status \in {"CREATED", "REMOVED"} => builds'[i].status = builds[i].status
  BY <1>6, <1>7
<1>9. \A i \in DOMAIN builds' : builds'[i].status \in Ended =>
        i \in DOMAIN builds /\ builds'[i].status = builds[i].status
  BY <1>7 DEF Ended
<1>10. ASSUME NEW i \in DOMAIN builds, nb[w] = i, builds[i].job = k,
              builds'[i].status = "CREATED", Done(k, builds[i].parents)'
       PROVE  FALSE
  <2>1. tgt[w] = k /\ i \in DOMAIN builds'
    BY <1>5, <1>10 DEF Lasts
  <2>2. builds[i].status = "CREATED"
    BY <1>8, <1>10, <2>1, <1>7
  <2>3. Done(k, builds[i].parents)
    <3> SUFFICES ASSUME NEW j \in JoinSrc(k)
                 PROVE  builds[i].parents[j] # NoId /\ builds[builds[i].parents[j]].status \in Ended
      BY DEF Done
    <3>1. PICK d : d = builds[i].parents[j]
      OBVIOUS
    <3>2. builds'[i].parents = builds[i].parents
      BY <1>7, <2>1
    <3>3. d # NoId /\ builds'[d].status \in Ended
      BY <1>10, <3>1, <3>2 DEF Done
    <3>4. d \in DOMAIN builds
      BY <1>5, <1>10, <3>1, <3>3 DEF OfJobs, JoinSrc
    <3>5. d \in DOMAIN builds'
      BY <3>4 DEF Lasts
    <3> QED
      BY <1>9, <3>1, <3>3, <3>5
  <2>4. builds' = [builds EXCEPT ![nb[w]] = Started(b)]
    BY <1>1, <1>6, <1>10, <2>1, <2>2, <2>3 DEF Verdict
  <2>5. Started(b).status = "QUEUED"
    BY <1>5 DEF Started, Rows
  <2> QED
    BY <1>5, <1>10, <2>4, <2>5
<1> QED
  BY <1>1, <1>2, <1>3, <1>4, <1>8, <1>9, <1>10, KeepStep

\* The next build of the join itself: the source is recorded where it belongs,
\* with what was known before, and its build is looked at.
LEMMA StoreJoinGroup ==
  ASSUME WorkInv, NEW k \in Jobs, JoinOnly(k), Apart(k), Sound(k), ~Excused(k)', Lasts,
         NEW w \in Requests, StoreAnd(w), tgt[w] = k
  PROVE  Sound(k)'
<1>1. /\ TypeInv /\ TypeOK /\ WorkWell(w) /\ pc[w] = "store" /\ Alone(w) /\ ~Or(w)
      /\ UNCHANGED <<events, cur, todo, tgt, par>> /\ lock = w
  BY DEF WorkInv, SourceInv, SafeInv, TypeInv, TypeOK, StoreAnd, Free, Alone, LockHeld
<1>2. PICK c \in DOMAIN builds, e \in 1 .. Len(events) : c = cur[w] /\ e = builds[c].event
  BY <1>1, CurType
<1>3. /\ builds[c].job \in JoinSrc(k) /\ builds[c].status = "SUCCESS" /\ c \in Passed(k)
  BY <1>1, <1>2, JoinNext DEF WorkWell, Passed
<1>4. Len(events) \in Nat /\ Len(events) <= 2 /\ 1 .. Len(events) \subseteq {1, 2}
  <2>1. Len(events) \in Nat /\ Len(events) <= 2
    BY <1>1, TableType DEF Excused
  <2> QED
    BY <2>1, UpToTwo
<1>5. \A q \in Requests : pc'[q] # "store"
  <2>1. \A q \in Requests \ {w} : pc[q] # "store"
    BY <1>1 DEF WorkInv, SourceInv, SafeInv, LockHeld
  <2>2. pc'[w] # "store"
    BY <1>1 DEF TypeOK, StoreAnd, Free
  <2> QED
    BY <1>1, <2>1, <2>2 DEF Alone
<1>6. /\ par[w][builds[c].job] # NoId
      /\ IF Held(e, k) = {} THEN nb[w] = NoId ELSE nb[w] \in Held(e, k)
      /\ e = 2 /\ nb[w] = NoId => \A d \in Passed(k) : par[w][builds[d].job] # NoId \/ Looking(k, d)
  BY <1>1, <1>2 DEF Sound, StoreWell
<1>7. NoId \notin DOMAIN builds /\ Len(builds) \in Nat
  BY <1>1, TableType DEF NoId
<1>8. \A d : d # c /\ Looking(k, d) => Looking(k, d)'
  BY <1>1, <1>2, LookKept
\* The build written and the parents it has.
<1>9. PICK n : /\ nb'[w] = n /\ pc'[w] = "check" /\ n \in DOMAIN builds'
               /\ builds'[n].job = k
               /\ Held(1, k)' \subseteq {n} /\ n \in Held(e, k)'
               /\ \A i \in DOMAIN builds' : i # n => i \in DOMAIN builds /\ builds'[i] = builds[i]
               /\ builds'[n].status # "REMOVED"
               /\ builds'[n].parents[builds[c].job] # NoId
               /\ \A d \in Passed(k) :
                    ~Looking(k, d) => /\ n \in Held(builds[d].event, k)'
                                      /\ builds'[n].parents[builds[d].job] # NoId
  <2>0. Held(1, k) = IF IdsIn(2, k) # {} THEN IdsIn(2, k) ELSE IdsIn(1, k)
    BY DEF Held
  <2>1. Held(2, k) = IdsIn(2, k) /\ Held(2, k) \subseteq Held(1, k)
    BY DEF Held
  <2>2. ASSUME NEW d \in Passed(k), ~Looking(k, d)
        PROVE  /\ builds[d].event \in {1, 2} /\ builds[d].job \in Jobs
               /\ \E i \in Held(builds[d].event, k) : builds[i].parents[builds[d].job] # NoId
    <3>1. d \in DOMAIN builds /\ builds[d] \in Rows(Len(events))
      BY <1>1, TableType DEF Passed
    <3>2. builds[d].event \in {1, 2} /\ builds[d].job \in Jobs
      BY <1>4, <3>1 DEF Rows
    <3> QED
      BY <2>2, <3>2 DEF Sound, Seen, Recorded
  <2>3. CASE nb[w] = NoId
    <3> DEFINE r == Row(e, k, "CREATED", par[w])
               m == Len(builds) + 1
    <3>1. /\ DOMAIN builds' = DOMAIN builds \cup {m} /\ m \notin DOMAIN builds
          /\ \A i \in DOMAIN builds : builds'[i] = builds[i]
          /\ builds'[m] = r /\ nb'[w] = m /\ pc'[w] = "check"
      BY <1>2, <2>3, StoreAndRows
    <3>2. r.job = k /\ r.event = e /\ r.status = "CREATED" /\ r.parents = par[w]
      BY DEF Row
    <3> HIDE DEF r
    <3>3. PICK n : n = m
      OBVIOUS
    <3> HIDE DEF m
    <3>4. Held(e, k) = {} /\ e \in {1, 2}
      BY <1>4, <1>6, <1>7, <2>3, HeldRows
    <3>5. IdsIn(e, k) = {}
      BY <3>4 DEF Held
    <3>6. IdsIn(e, k)' = {n} /\ \A x : x # e => IdsIn(x, k)' = IdsIn(x, k)
      <4>1. n \in IdsIn(e, k)'
        BY <3>1, <3>2, <3>3 DEF IdsIn, Ids
      <4>2. \A i \in IdsIn(e, k)' : i = n
        BY <3>1, <3>3, <3>5 DEF IdsIn, Ids
      <4>3. \A x : x # e => IdsIn(x, k)' = IdsIn(x, k)
        BY <3>1, <3>2 DEF IdsIn, Ids
      <4> QED
        BY <4>1, <4>2, <4>3
    <3>7. Held(1, k)' = {n} /\ Held(e, k)' = {n}
      BY <3>4, <3>6 DEF Held
    <3>8. ASSUME NEW d \in Passed(k), ~Looking(k, d)
          PROVE  n \in Held(builds[d].event, k)' /\ par[w][builds[d].job] # NoId
      <4>1. /\ builds[d].event \in {1, 2} /\ Held(builds[d].event, k) # {}
        BY <2>2, <3>8
      <4>2. e = 2 /\ builds[d].event = 1
        BY <2>1, <3>4, <3>5, <4>1
      <4>3. Held(builds[d].event, k)' = {n}
        <5>1. PICK x : x = builds[d].event
          OBVIOUS
        <5>2. Held(x, k)' = {n}
          BY <3>7, <4>2, <5>1
        <5>3. builds'[d].event = builds[d].event
          BY <3>1 DEF Passed
        <5> QED
          BY <5>1, <5>2, <5>3
      <4> QED
        BY <1>6, <2>3, <3>8, <4>2, <4>3
    <3> QED
      BY <1>6, <3>1, <3>2, <3>3, <3>7, <3>8
  <2>4. CASE nb[w] # NoId
    <3>1. nb[w] \in Held(e, k) /\ nb[w] \in DOMAIN builds /\ builds[nb[w]].job = k
      BY <1>6, <2>4, HeldRows
    <3>2. builds[nb[w]].status # "REMOVED" /\ builds[nb[w]] \in Rows(Len(events))
      BY <1>1, <3>1, TableType DEF Sound, Kept
    <3>3. PICK n : n = nb[w]
      OBVIOUS
    <3>4. /\ DOMAIN builds' = DOMAIN builds
          /\ \A i \in DOMAIN builds : i # n => builds'[i] = builds[i]
          /\ builds'[n].job = builds[n].job /\ builds'[n].event = builds[n].event
          /\ builds'[n].status = builds[n].status
          /\ builds'[n].parents = MergedParents(par[w], builds[n].parents)
          /\ nb'[w] = n /\ pc'[w] = "check"
      BY <2>4, <3>1, <3>2, <3>3, StoreAndRows
    <3>5. \A x : IdsIn(x, k)' = IdsIn(x, k)
      BY <3>1, <3>3, <3>4 DEF IdsIn, Ids
    <3>6. \A x : Held(x, k)' = Held(x, k)
      BY <3>5 DEF Held
    <3>7. n \in Held(1, k)
      BY <1>4, <2>1, <3>1, <3>3
    <3>8. \A i \in Held(1, k) : i = n
      <4>1. PICK x : Held(1, k) = IdsIn(x, k)
        BY <2>0
      <4> QED
        BY <3>7, <4>1 DEF WorkInv, SourceInv, SafeInv, OneBuildPerEvent, IdsIn, Ids
    <3>9. \A j \in Jobs : par[w][j] # NoId \/ builds[n].parents[j] # NoId
                            => builds'[n].parents[j] # NoId
      BY <3>4 DEF MergedParents
    <3>10. builds'[n].parents[builds[c].job] # NoId
      <4>1. builds[c].job \in Jobs
        BY <1>3 DEF JoinSrc
      <4> QED
        BY <1>6, <3>9, <4>1
    <3>11. ASSUME NEW d \in Passed(k), ~Looking(k, d)
           PROVE  n \in Held(builds[d].event, k)' /\ builds'[n].parents[builds[d].job] # NoId
      <4>1. PICK i \in Held(builds[d].event, k) : builds[i].parents[builds[d].job] # NoId
        BY <2>2, <3>11
      <4>2. i \in Held(1, k)
        BY <2>1, <2>2, <3>11, <4>1
      <4>3. i = n /\ n \in Held(builds[d].event, k)
        BY <3>8, <4>1, <4>2
      <4>4. PICK x : x = builds[d].event
        OBVIOUS
      <4>5. builds'[d].event = builds[d].event
        BY DEF Passed, Lasts
      <4>6. n \in Held(builds[d].event, k)'
        BY <3>6, <4>3, <4>4, <4>5
      <4> QED
        BY <2>2, <3>9, <3>11, <4>1, <4>3, <4>6
    <3>12. Held(1, k)' \subseteq {n} /\ n \in Held(e, k)'
      BY <3>1, <3>3, <3>6, <3>8
    <3> QED
      BY <3>1, <3>2, <3>3, <3>4, <3>10, <3>11, <3>12
  <2> QED
    BY <2>3, <2>4
<1>10. Kept(k)'
  BY <1>9 DEF Sound, Kept
<1>11. \A d \in Passed(k)' : d \in Passed(k) /\ builds'[d].event = builds[d].event /\ builds'[d].job = builds[d].job
  BY <1>9, JoinEdge DEF Passed
<1>12. Seen(k)'
  <2> SUFFICES ASSUME NEW d \in Passed(k)', ~Looking(k, d)' PROVE Recorded(k, d)'
    BY DEF Seen
  <2>1. d \in Passed(k) /\ builds'[d].event = builds[d].event /\ builds'[d].job = builds[d].job
    BY <1>11
  <2>2. n \in Held(builds[d].event, k)' /\ builds'[n].parents[builds'[d].job] # NoId
    BY <1>2, <1>8, <1>9, <2>1
  <2> QED
    BY <2>2 DEF Recorded
<1>13. \A q \in Requests : StoreWell(k, q)'
  BY <1>5 DEF StoreWell
<1>14. Decided(k)'
  BY <1>9 DEF Decided
<1> QED
  BY <1>10, <1>12, <1>13, <1>14 DEF Sound

\* A restart of another job adds no build of the join.
LEMMA RestartGroup ==
  ASSUME WorkInv, NEW k \in Jobs, JoinOnly(k), Apart(k), Sound(k), ~Excused(k)', Lasts,
         NEW b \in DOMAIN builds, RestartFrom(b)
  PROVE  Sound(k)'
<1> DEFINE j == builds[b].job
           r == Row(Len(events'), j, "QUEUED", builds[b].parents)
<1>1. /\ TypeOK /\ builds' = Append(builds, r) /\ UNCHANGED <<pc, cur, todo, tgt, nb, par>>
      /\ events' = Append(events, [from |-> j, parent |-> builds[b].event])
  BY DEF WorkInv, SourceInv, SafeInv, TypeInv, RestartFrom, locals
<1>2. Len(events) \in Nat /\ Len(events) >= 1 /\ Len(builds) \in Nat /\ DOMAIN builds = 1 .. Len(builds)
  BY <1>1, TableType DEF TypeOK
<1>3. r.job = j /\ r.status = "QUEUED"
  BY DEF Row
<1>4. j # k
  <2>1. /\ Len(events') = Len(events) + 1
        /\ events'[Len(events) + 1] = [from |-> j, parent |-> builds[b].event]
    BY <1>1 DEF TypeOK
  <2>2. ~(Len(events') > 2) /\ ~(Len(events') = 2 /\ events'[2].from = k)
    BY DEF Excused
  <2>3. Len(events) = 1
    <3>1. ASSUME NEW n \in Nat, n >= 1, ~(n + 1 > 2) PROVE n = 1
      BY <3>1
    <3> QED
      BY <1>2, <2>1, <2>2, <3>1
  <2> HIDE DEF j
  <2> QED
    BY <2>1, <2>2, <2>3
<1> HIDE DEF r, j
<1>5. \A i \in DOMAIN builds' : (i \in DOMAIN builds /\ builds'[i] = builds[i]) \/ builds'[i] = r
  <2>1. /\ Len(builds') = Len(builds) + 1 /\ DOMAIN builds' = 1 .. Len(builds) + 1
        /\ \A i \in 1 .. Len(builds) : builds'[i] = builds[i]
        /\ builds'[Len(builds) + 1] = r
    BY <1>1 DEF TypeOK
  <2> QED
    BY <1>2, <2>1
<1>6. \A i \in DOMAIN builds' : builds'[i].job = k => i \in DOMAIN builds /\ builds'[i] = builds[i]
  BY <1>3, <1>4, <1>5
<1>7. \A i \in DOMAIN builds' : builds'[i].status \in Ended => i \in DOMAIN builds /\ builds'[i] = builds[i]
  BY <1>3, <1>5 DEF Ended
<1>8. \A d \in DOMAIN builds : Looking(k, d) => Looking(k, d)'
  BY <1>1 DEF Looking, About
<1>9. ASSUME NEW q \in Requests
      PROVE  \/ StoreWell(k, q)'
             \/ /\ pc[q] = "store" /\ cur'[q] = cur[q] /\ nb'[q] = nb[q]
                /\ par'[q] = par[q] /\ tgt'[q] = tgt[q]
  <2>1. pc'[q] # "store" => StoreWell(k, q)'
    BY DEF StoreWell
  <2> QED
    BY <1>1, <2>1
<1>10. ~Failed(k)'
  BY DEF Excused
<1> QED
  BY <1>1, <1>6, <1>7, <1>8, <1>9, <1>10, KeepSound

LEMMA InitGroup == ASSUME Init PROVE GroupInv
<1>1. WorkInv
  BY InitWork
<1>2. PICK o \in SetToSeqs(Roots) : builds = [i \in DOMAIN o |-> Row(1, o[i], "QUEUED", NoParents)]
  BY DEF Init
<1>3. \A i \in DOMAIN builds : builds[i].status = "QUEUED"
  BY <1>2 DEF Row
<1>4. ASSUME NEW k \in Jobs PROVE Sound(k)
  <2>1. Kept(k) /\ Seen(k)
    BY <1>3 DEF Kept, Seen, Passed
  <2>2. \A w \in Requests : StoreWell(k, w)
    BY DEF Init, StoreWell
  <2>3. Decided(k)
    BY <1>3, HeldRows DEF Decided
  <2> QED
    BY <2>1, <2>2, <2>3 DEF Sound
<1> QED
  BY <1>1, <1>4 DEF GroupInv

\* What lasts in any step.
LEMMA NextLasts ==
  ASSUME WorkInv, Next
  PROVE  WorkInv' /\ Lasts /\ (UNCHANGED events \/ Len(events') = Len(events) + 1)
<1>0. SourceInv' /\ WorkInv'
  BY SourceInductive, WorkInductive DEF WorkInv
<1>1. ASSUME NEW b \in DOMAIN builds, RestartFrom(b)
      PROVE  Lasts /\ Len(events') = Len(events) + 1
  <2>1. Lasts
    BY <1>0, <1>1, RestartWork
  <2>2. TypeOK
    BY DEF WorkInv, SourceInv, SafeInv, TypeInv
  <2>3. PICK r : events' = Append(events, r)
    BY <1>1 DEF RestartFrom
  <2>4. Len(events') = Len(events) + 1
    BY <2>2, <2>3 DEF TypeOK
  <2> QED
    BY <2>1, <2>4
<1>2. ASSUME NEW w \in Requests, NEW b \in DOMAIN builds, NEW s \in Ended, Finish(w, b, s)
      PROVE  Lasts /\ UNCHANGED events
  BY <1>0, <1>2, FinishWork DEF Finish
<1>3. ASSUME NEW w \in Requests, Step(w) PROVE Lasts /\ UNCHANGED events
  <2>1. CASE Answered(w) \/ Find(w)
    BY <2>1 DEF Answered, Find, Lasts
  <2>2. CASE RemoveJoin(w)
    BY <1>0, <2>2, RemoveWork DEF RemoveJoin
  <2>3. CASE StoreOr(w)
    BY <1>0, <2>3, StoreOrWork DEF StoreOr
  <2>4. CASE StoreAnd(w)
    BY <1>0, <2>4, StoreAndWork DEF StoreAnd
  <2>5. CASE Check(w)
    BY <1>0, <2>5, CheckWork DEF Check
  <2> QED
    BY <1>3, <2>1, <2>2, <2>3, <2>4, <2>5 DEF Step
<1> QED
  BY <1>0, <1>1, <1>2, <1>3 DEF Next

LEMMA GroupInductive == GroupInv /\ [Next]_vars => GroupInv'
<1>1. ASSUME GroupInv, Next PROVE GroupInv'
  <2>1. WorkInv /\ WorkInv' /\ Lasts /\ (UNCHANGED events \/ Len(events') = Len(events) + 1)
    BY <1>1, NextLasts DEF GroupInv
  <2>2. ASSUME NEW k \in Jobs, JoinOnly(k), Apart(k), ~Excused(k)' PROVE Sound(k)'
    <3>1. Sound(k)
      <4>1. TypeOK
        BY <2>1 DEF WorkInv, SourceInv, SafeInv, TypeInv
      <4>2. ~Excused(k)
        BY <2>1, <2>2, <4>1, ExcusedLasts
      <4> QED
        BY <1>1, <2>2, <4>2 DEF GroupInv
    <3>2. ASSUME NEW b \in DOMAIN builds, RestartFrom(b) PROVE Sound(k)'
      BY <2>1, <2>2, <3>1, <3>2, RestartGroup
    <3>3. ASSUME NEW w \in Requests, NEW b \in DOMAIN builds, NEW s \in Ended, Finish(w, b, s)
          PROVE  Sound(k)'
      BY <2>1, <2>2, <3>1, <3>3, FinishGroup
    <3>4. ASSUME NEW w \in Requests, Step(w) PROVE Sound(k)'
      BY <2>1, <2>2, <3>1, <3>4, AnsweredGroup, RemoveGroup, FindGroup, StoreOrGroup,
         StoreAndGroup, StoreJoinGroup, CheckGroup DEF Step
    <3> QED
      BY <1>1, <3>2, <3>3, <3>4 DEF Next
  <2> QED
    BY <2>1, <2>2 DEF GroupInv
<1>2. ASSUME GroupInv, UNCHANGED vars PROVE GroupInv'
  <2>1. WorkInv'
    BY <1>2, WorkInductive DEF GroupInv
  <2>2. \A k \in Jobs : Excused(k) => Excused(k)'
    BY <1>2 DEF vars, Excused, Failed
  <2>3. ASSUME NEW k \in Jobs, Sound(k) PROVE Sound(k)'
    <3>1. UNCHANGED <<events, builds, lock, pc, cur, todo, tgt, nb, par>>
      BY <1>2 DEF vars, locals
    <3>2. \A e : Held(e, k)' = Held(e, k)
      BY <3>1 DEF Held, IdsIn, Ids
    <3>3. \A d : Looking(k, d)' <=> Looking(k, d)
      BY <3>1 DEF Looking, About
    <3>4. Passed(k)' = Passed(k) /\ \A p : Done(k, p)' <=> Done(k, p)
      BY <3>1 DEF Passed, Done
    <3>5. Kept(k)' /\ Seen(k)'
      BY <2>3, <3>1, <3>2, <3>3, <3>4 DEF Sound, Kept, Seen, Recorded
    <3>6. ASSUME NEW w \in Requests PROVE StoreWell(k, w)'
      BY <2>3, <3>1, <3>2, <3>3, <3>4 DEF Sound, StoreWell
    <3>7. Decided(k)'
      BY <2>3, <3>1, <3>2, <3>3, <3>4 DEF Sound, Decided
    <3> QED
      BY <3>5, <3>6, <3>7 DEF Sound
  <2> QED
    BY <1>2, <2>1, <2>2, <2>3 DEF GroupInv, JoinOnly, Apart
<1> QED
  BY <1>1, <1>2

\* When all is done, the build that records the sources has run.
LEMMA JoinRan ==
  ASSUME GroupInv, Quiet, Len(events) <= 2, NEW k \in Jobs, JoinOnly(k), Apart(k), AllWell(k),
         Sound(k)
  PROVE  /\ \E i \in Held(1, k) : i \in Ran(k)
         /\ \A d \in Passed(k) : Held(builds[d].event, k) # {}
<1>1. TypeOK /\ Len(events) \in Nat /\ 1 .. Len(events) \subseteq {1, 2}
  BY TableType, UpToTwo DEF GroupInv, WorkInv, SourceInv, SafeInv, TypeInv
<1>2. \A d : ~Looking(k, d)
  BY DEF Quiet, Looking, About
<1>3. \A d \in Passed(k) : Recorded(k, d)
  BY <1>2 DEF Sound, Seen
<1>4. \A d \in Passed(k) : Held(builds[d].event, k) # {}
  BY <1>3 DEF Recorded
<1>5. \A j \in JoinSrc(k) : \E d \in Passed(k) : builds[d].job = j
  BY DEF AllWell, Passed, Ids
<1>6. \A d \in Passed(k) : builds[d].event \in {1, 2}
  BY <1>1, TableType DEF Passed, Rows
<1>7. Held(2, k) \subseteq Held(1, k)
  BY DEF Held
<1>8. PICK n \in Held(1, k) : TRUE
  <2>1. PICK j \in JoinSrc(k) : TRUE
    BY DEF JoinOnly
  <2> QED
    BY <1>4, <1>5, <1>6, <1>7, <2>1
<1>9. \A i \in Held(1, k) : i = n
  BY <1>8 DEF GroupInv, WorkInv, SourceInv, SafeInv, OneBuildPerEvent, Held, IdsIn, Ids
<1>10. n \in DOMAIN builds /\ builds[n].job = k /\ OfJobs(builds, builds[n].parents)
  BY <1>8, HeldRows DEF GroupInv, WorkInv, RowWell
<1>11. ASSUME NEW j \in JoinSrc(k)
       PROVE  builds[n].parents[j] # NoId /\ builds[builds[n].parents[j]].status = "SUCCESS"
  <2>1. PICK d \in Passed(k) : builds[d].job = j
    BY <1>5
  <2>2. builds[n].parents[j] # NoId
    BY <1>3, <1>6, <1>7, <1>9, <2>1 DEF Recorded
  <2>3. builds[n].parents[j] \in DOMAIN builds /\ builds[builds[n].parents[j]].job = j
    BY <1>10, <2>2 DEF OfJobs, JoinSrc
  <2>4. builds[builds[n].parents[j]].status \in Begun
    BY <2>3 DEF GroupInv, WorkInv, RowWell, Apart
  <2>5. builds[n].parents[j] \in Ids(j)
    BY <2>3, <2>4 DEF Ids, Begun, Ended
  <2> QED
    BY <2>2, <2>5 DEF AllWell
<1>12. Done(k, builds[n].parents)
  BY <1>11 DEF Done, Ended
<1>13. builds[n].status # "CREATED"
  BY <1>2, <1>8, <1>12 DEF Sound, Decided, Quiet
<1>14. builds[n].status # "REMOVED" /\ builds[n].status \in Status
  BY <1>1, <1>10, TableType DEF Sound, Kept, Rows
<1>15. n \in Ran(k)
  BY <1>10, <1>13, <1>14 DEF Ran, Ids, Status, Ended
<1> QED
  BY <1>4, <1>8, <1>15

LEMMA NotFailed ==
  ASSUME NEW k \in Jobs, AllWell(k)
  PROVE  ~Failed(k)
BY DEF AllWell, Failed, Ids

\* Whatever the order in which the builds of an event and of its restart end, a
\* join whose sources have all succeeded has run in one of the two
\* (triggers/and.js, helpers.js), for every workflow graph and any number of
\* requests that trigger at once.
THEOREM JoinRuns == Spec => []GroupRuns
<1>1. GroupInv => GroupRuns
  <2> SUFFICES ASSUME GroupInv, Quiet, Len(events) <= 2, NEW k \in Jobs, JoinOnly(k), Apart(k),
                      AllWell(k)
               PROVE  Ran(k) # {}
    BY DEF GroupRuns
  <2>1. Len(events) \in Nat
    BY TableType DEF GroupInv, WorkInv, SourceInv, SafeInv, TypeInv
  <2>2. CASE Len(events) = 2 /\ events[2].from = k
    <3>1. BegunWith(2)
      BY <2>2 DEF GroupInv, WorkInv, EventsWell
    <3> QED
      BY <2>2, <3>1 DEF BegunWith, Ran, Ids, Begun, Ended
  <2>3. CASE ~(Len(events) = 2 /\ events[2].from = k)
    <3>1. ~Excused(k)
      BY <2>1, <2>3, NotFailed DEF Excused
    <3>2. Sound(k)
      BY <3>1 DEF GroupInv
    <3> QED
      BY <3>2, JoinRan
  <2> QED
    BY <2>2, <2>3
<1> QED
  BY <1>1, InitGroup, GroupInductive, PTL DEF Spec

\* The same for a restart of a source: the join has run in the event of the
\* restart, not only in the old one.
THEOREM RestartedJoinRuns == Spec => []RestartRuns
<1>1. GroupInv => RestartRuns
  <2> SUFFICES ASSUME GroupInv, Quiet, Len(events) = 2, NEW k \in Jobs, JoinOnly(k), Apart(k),
                      events[2].from \in JoinSrc(k), AllWell(k)
               PROVE  \E i \in Ran(k) : builds[i].event = 2
    BY DEF RestartRuns
  <2>1. Len(events) <= 2 /\ ~(Len(events) > 2) /\ events[2].from # k
    BY JoinEdge
  <2>2. Sound(k)
    BY <2>1, NotFailed DEF GroupInv, Excused
  <2>3. PICK d \in DOMAIN builds :
          builds[d].event = 2 /\ builds[d].job = events[2].from /\ builds[d].status \in Begun
    BY DEF GroupInv, WorkInv, EventsWell, BegunWith
  <2>4. d \in Passed(k)
    BY <2>3 DEF AllWell, Passed, Ids, Begun, Ended
  <2>5. IdsIn(2, k) # {}
    BY <2>1, <2>2, <2>3, <2>4, JoinRan DEF Held
  <2>6. PICK i \in Held(1, k) : i \in Ran(k)
    BY <2>1, <2>2, JoinRan
  <2> QED
    BY <2>5, <2>6 DEF Held, IdsIn
<1> QED
  BY <1>1, InitGroup, GroupInductive, PTL DEF Spec
=============================================================================
