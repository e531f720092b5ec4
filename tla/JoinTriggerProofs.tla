-------------------------- MODULE JoinTriggerProofs --------------------------
(***************************************************************************)
(* Theorems about JoinTrigger, for every workflow graph, every number of    *)
(* concurrent requests and every set of outcomes.                           *)
(***************************************************************************)
EXTENDS JoinTrigger, Integers, FiniteSetTheorems, NaturalsInduction, WellFoundedInduction, TLAPS

TypeInv == TypeOK /\ ObjectsOK

-----------------------------------------------------------------------------
(* The rows of a job have a latest one. *)

(* The order of the numbers as the relation the library speaks of. *)
LEMMA LessRelation == OpToRel(<, Nat) = {p \in Nat \X Nat : p[1] < p[2]}
BY Zenon DEF OpToRel

(* A non-empty set of ids below a bound has a largest one: what "the latest *)
(* build" of getLatestBuilds relies on.                                     *)
LEMMA MaxExists ==
  ASSUME NEW n \in Nat, NEW S, S \subseteq 1..n, S # {}
  PROVE  \E i \in S : \A k \in S : k <= i
<1> DEFINE R == {p \in Nat \X Nat : p[1] < p[2]}
           T == {m \in Nat : \E i \in S : m = n - i}
<1>1. T \subseteq Nat OBVIOUS
<1>2. T # {}
  <2>1. PICK i \in S : TRUE OBVIOUS
  <2>2. n - i \in T BY <2>1
  <2> QED BY <2>2
<1>3. PICK x \in T : \A y \in T : ~(<<y, x>> \in R)
  <2>1. IsWellFoundedOn(R, Nat) BY NatLessThanWellFounded, LessRelation
  <2> QED BY <1>1, <1>2, <2>1, WFMin
<1>4. \A y \in T : x <= y
  <2>1. SUFFICES ASSUME NEW y \in T, y < x PROVE FALSE BY <1>1
  <2>2. <<y, x>> \in R BY <1>1, <2>1
  <2> QED BY <1>3, <2>2
<1>5. PICK i \in S : x = n - i OBVIOUS
<1>6. \A k \in S : k <= i
  <2> SUFFICES ASSUME NEW k \in S PROVE k <= i OBVIOUS
  <2>1. n - k \in T OBVIOUS
  <2>2. x <= n - k BY <2>1, <1>4
  <2> QED BY <2>2, <1>5
<1> QED BY <1>6

(* The latest build of a job is one of its rows, or no build at all. *)
LEMMA LatestType ==
  ASSUME TypeOK, NEW j \in Jobs
  PROVE  /\ Latest(j) \in Nat
         /\ RowsOf(j) # {} => Latest(j) \in RowsOf(j)
<1>1. RowsOf(j) \subseteq 1..(nextId - 1) /\ nextId - 1 \in Nat
  BY DEF TypeOK, RowsOf, NoId
<1>2. CASE RowsOf(j) = {} BY <1>2 DEF Latest, NoId
<1>3. CASE RowsOf(j) # {}
  <2>1. \E i \in RowsOf(j) : \A k \in RowsOf(j) : k <= i
    BY <1>1, <1>3, MaxExists
  <2>2. Latest(j) \in RowsOf(j) BY <1>3, <2>1 DEF Latest
  <2> QED BY <1>1, <2>2
<1> QED BY <1>2, <1>3

-----------------------------------------------------------------------------
(* Parents and rows *)

(* parseJobInfo and mergeParentBuilds yield a build id, or none, per job. *)
LEMMA ParentsType ==
  ASSUME TypeOK, NEW c \in Row, NEW k \in Jobs
  PROVE  OwnParents(c) \in Parents /\ FilledParents(c, k) \in Parents
<1>1. c.parents \in [Jobs -> Nat] /\ c.job \in Jobs /\ c.id \in Nat
  BY DEF Row, Parents
<1>2. OwnParents(c) \in Parents BY <1>1 DEF OwnParents, Parents
<1>3. \A j \in Jobs : Latest(j) \in Nat BY LatestType
<1>4. FilledParents(c, k) \in Parents
  BY <1>2, <1>3 DEF FilledParents, Parents
<1> QED BY <1>2, <1>4

(* updateParentBuilds keeps the shape of parentBuilds. *)
LEMMA MergedType ==
  ASSUME NEW p \in Parents, NEW q \in Parents
  PROVE  MergedParents(p, q) \in Parents
BY DEF MergedParents, Parents

(* A typed table: what TypeOK says of the builds. *)
Table(t) == \A i \in DOMAIN t : t[i] \in Row /\ t[i].id = i

(* Writing one field of one row keeps the table typed and no row moves to *)
(* another job.                                                           *)
LEMMA WriteType ==
  ASSUME Table(build), NEW i
  PROVE  /\ \A s \in Status : /\ DOMAIN WithStatus(i, s) = DOMAIN build
                              /\ Table(WithStatus(i, s))
                              /\ \A k \in DOMAIN build :
                                   WithStatus(i, s)[k].job = build[k].job
         /\ \A p \in Parents : /\ DOMAIN WithParents(i, p) = DOMAIN build
                               /\ Table(WithParents(i, p))
                               /\ \A k \in DOMAIN build :
                                    WithParents(i, p)[k].job = build[k].job
<1>1. ASSUME NEW s \in Status
      PROVE  /\ DOMAIN WithStatus(i, s) = DOMAIN build
             /\ Table(WithStatus(i, s))
             /\ \A k \in DOMAIN build : WithStatus(i, s)[k].job = build[k].job
  BY DEF WithStatus, Table, Row
<1>2. ASSUME NEW p \in Parents
      PROVE  /\ DOMAIN WithParents(i, p) = DOMAIN build
             /\ Table(WithParents(i, p))
             /\ \A k \in DOMAIN build : WithParents(i, p)[k].job = build[k].job
  BY DEF WithParents, Table, Row
<1> QED BY <1>1, <1>2

-----------------------------------------------------------------------------
(* Type correctness *)

(* An event begins with well-formed rows for its root jobs. *)
LEMMA InitType == Init => TypeInv
<1> SUFFICES ASSUME Init PROVE TypeInv OBVIOUS
<1>1. Roots \subseteq Jobs BY DEF Roots
<1>2. Cardinality(Roots) \in Nat
  BY <1>1, GraphAssumption, FS_Subset, FS_CardinalityType
<1>3. PICK ids \in [Roots -> 1..Cardinality(Roots)] :
        /\ \A j, k \in Roots : ids[j] = ids[k] => j = k
        /\ build = [i \in {ids[j] : j \in Roots} |->
                      LET j == CHOOSE k \in Roots : ids[k] = i
                      IN  [id |-> i, job |-> j,
                           status |-> IF j \in Virtual THEN "CREATED" ELSE "QUEUED",
                           parents |-> [k \in Jobs |-> NoId]]]
  BY DEF Init
<1>4. DOMAIN build \subseteq 1..Cardinality(Roots) BY <1>3
<1>5. ASSUME NEW i \in DOMAIN build
      PROVE  build[i] \in Row /\ build[i].id = i
  <2> DEFINE j == CHOOSE k \in Roots : ids[k] = i
  <2>1. j \in Roots BY <1>3, <1>5
  <2>2. i \in Nat \ {NoId} BY <1>2, <1>4, <1>5 DEF NoId
  <2>3. build[i] = [id |-> i, job |-> j,
                    status |-> IF j \in Virtual THEN "CREATED" ELSE "QUEUED",
                    parents |-> [k \in Jobs |-> NoId]]
    BY <1>3, <1>5
  <2>4. [k \in Jobs |-> NoId] \in Parents BY DEF Parents, NoId
  <2> HIDE DEF j
  <2> QED BY <1>1, <2>1, <2>2, <2>3, <2>4 DEF Row, Status
<1>6. (CHOOSE j \in Jobs : TRUE) \in Jobs BY GraphAssumption
<1>7. TypeOK
  <2>1. nextId = Cardinality(Roots) + 1 BY DEF Init
  <2>2. /\ nextId \in Nat \ {NoId}
        /\ DOMAIN build \subseteq 1..(nextId - 1)
    BY <1>2, <1>4, <2>1 DEF NoId
  <2>3. starts \in [Jobs -> Nat] BY DEF Init
  <2>4. /\ lock \in Requests \cup {NoRequest}
        /\ pc   \in [Requests -> Labels]
        /\ cur  \in [Requests -> Row \cup {NoBuild}]
        /\ todo \in [Requests -> SUBSET Jobs]
        /\ nb   \in [Requests -> Row \cup {NoBuild}]
        /\ par  \in [Requests -> Parents]
        /\ del  \in [Requests -> SUBSET Nat]
        /\ down \in [Requests -> SUBSET Row]
    BY DEF Init, Labels, Parents, NoId
  <2>5. tgt \in [Requests -> Jobs] BY <1>6 DEF Init
  <2> QED BY <1>5, <2>2, <2>3, <2>4, <2>5 DEF TypeOK
<1>8. ObjectsOK BY DEF Init, ObjectsOK
<1> QED BY <1>7, <1>8 DEF TypeInv

(* Ending a build keeps the types, whoever ends it. *)
LEMMA EndBuildType ==
  ASSUME TypeInv, NEW w \in Requests, NEW b \in DOMAIN build,
         NEW s \in Ended, pc[w] = "idle", EndBuild(w, b, s)
  PROVE  TypeInv'
<1> USE DEF TypeInv
<1>1. s \in Status BY DEF Ended, Status
<1>2. Table(build) BY DEF TypeOK, Table
<1>3. DOMAIN build' = DOMAIN build /\ Table(build')
  BY <1>1, <1>2, WriteType DEF EndBuild
<1>4. [build[b] EXCEPT !.status = s] \in Row BY <1>1, <1>2 DEF Table, Row
<1>5. NextJobs(build[b].job) \subseteq Jobs BY DEF NextJobs
<1>6. TypeOK'
  BY <1>3, <1>4, <1>5 DEF TypeOK, EndBuild, Labels, Table
<1>7. ObjectsOK'
  BY <1>4 DEF TypeOK, ObjectsOK, EndBuild, Labels
<1> QED BY <1>6, <1>7

(* A fresh row keeps the table typed and stays below the next id. *)
LEMMA CreateType ==
  ASSUME TypeInv, NEW w \in Requests, NEW started \in BOOLEAN,
         CreateBuild(w, started)
  PROVE  /\ nextId' \in Nat \ {NoId}
         /\ DOMAIN build' \subseteq 1..(nextId' - 1)
         /\ Table(build')
         /\ nb' \in [Requests -> Row \cup {NoBuild}]
         /\ nb'[w] \in Row
         /\ \A u \in Requests \ {w} : nb'[u] = nb[u]
<1> DEFINE r == [id |-> nextId, job |-> tgt[w], parents |-> par[w],
                 status |-> IF started THEN "QUEUED" ELSE "CREATED"]
<1>1. r \in Row /\ r.id = nextId BY DEF TypeInv, TypeOK, Row, Status
<1>2. build' = Inserted(r) /\ nextId' = nextId + 1 /\ nb' = [nb EXCEPT ![w] = r]
  BY DEF CreateBuild
<1>3. DOMAIN build' = DOMAIN build \cup {nextId} BY <1>1, <1>2 DEF Inserted
<1> HIDE DEF r
<1>4. Table(build') BY <1>1, <1>2, <1>3 DEF Inserted, Table, TypeInv, TypeOK
<1>5. nextId' \in Nat \ {NoId} /\ DOMAIN build' \subseteq 1..(nextId' - 1)
  BY <1>2, <1>3 DEF TypeInv, TypeOK, NoId
<1> QED BY <1>1, <1>2, <1>4, <1>5 DEF TypeInv, TypeOK

(* Every step of a request keeps the types. *)
LEMMA StepType ==
  ASSUME TypeInv, NEW w \in Requests, Step(w)
  PROVE  TypeInv'
<1> USE DEF TypeInv
<1>t. Table(build) BY DEF TypeOK, Table
<1>1. CASE RemoveRead(w)
  <2>1. del' \in [Requests -> SUBSET Nat] /\ todo' \in [Requests -> SUBSET Jobs]
    BY <1>1 DEF RemoveRead, TypeOK, RowsOf
  <2> QED BY <1>1, <2>1 DEF RemoveRead, TypeOK, ObjectsOK, db
<1>2. CASE RemoveRow(w)
  <2>1. del' \in [Requests -> SUBSET Nat] BY <1>2 DEF RemoveRow, TypeOK
  <2>2. DOMAIN build' \subseteq DOMAIN build /\ Table(build')
    BY <1>2, <1>t DEF RemoveRow, Without, Table
  <2> QED BY <1>2, <2>1, <2>2 DEF RemoveRow, TypeOK, ObjectsOK, Table
<1>3. CASE RemoveDone(w)
  BY <1>3 DEF RemoveDone, Forget, TypeOK, ObjectsOK, Labels, db
<1>4. CASE LockNext(w)
  <2>1. lock' \in Requests \cup {NoRequest} BY <1>4 DEF LockNext, Acquire, TypeOK
  <2>2. /\ tgt'  \in [Requests -> Jobs]
        /\ todo' \in [Requests -> SUBSET Jobs]
        /\ pc'   \in [Requests -> Labels]
    BY <1>4 DEF LockNext, TypeOK, Labels
  <2> QED BY <1>4, <2>1, <2>2 DEF LockNext, TypeOK, ObjectsOK, db
<1>5. CASE Find(w)
  <2>1. cur[w] \in Row /\ tgt[w] \in Jobs BY <1>5 DEF Find, ObjectsOK, TypeOK
  <2>2. par' \in [Requests -> Parents]
    BY <1>5, <2>1, ParentsType DEF Find, TypeOK
  <2>3. nb' \in [Requests -> Row \cup {NoBuild}]
    BY <1>5, <1>t DEF Find, TypeOK, Table, RowsOf
  <2>4. pc' \in [Requests -> Labels] BY <1>5 DEF Find, TypeOK, Labels
  <2>5. TypeOK' BY <1>5, <2>2, <2>3, <2>4 DEF Find, TypeOK, db
  <2>6. ObjectsOK' BY <1>5, <2>1 DEF Find, ObjectsOK, TypeOK
  <2> QED BY <2>5, <2>6
<1>6. CASE StoreOr(w)
  <2>1. CASE CreateBuild(w, tgt[w] \notin Virtual) /\ tgt[w] \notin Disabled
             /\ pc' = [pc EXCEPT ![w] = IF tgt[w] \in Virtual THEN "start" ELSE "exec"]
    <3>1. /\ nextId' \in Nat \ {NoId} /\ DOMAIN build' \subseteq 1..(nextId' - 1)
          /\ Table(build') /\ nb' \in [Requests -> Row \cup {NoBuild}]
          /\ nb'[w] \in Row /\ \A u \in Requests \ {w} : nb'[u] = nb[u]
      BY <2>1, CreateType
    <3> QED BY <1>6, <2>1, <3>1 DEF StoreOr, TypeOK, ObjectsOK, Table, Labels
  <2>2. CASE UNCHANGED <<build, nextId, nb>> /\ pc' = [pc EXCEPT ![w] = "unlock"]
    BY <1>6, <2>2 DEF StoreOr, TypeOK, ObjectsOK, Labels
  <2>3. CASE /\ UNCHANGED <<build, nextId, nb>> /\ nb[w] # NoBuild
             /\ pc' = [pc EXCEPT ![w] = IF nb[w].status = "CREATED" THEN "start" ELSE "unlock"]
    BY <1>6, <2>3 DEF StoreOr, TypeOK, ObjectsOK, Labels
  <2> QED BY <1>6, <2>1, <2>2, <2>3 DEF StoreOr
<1>7. CASE StoreAnd(w)
  <2>1. CASE CreateBuild(w, FALSE) /\ pc' = [pc EXCEPT ![w] = "check"]
    <3>1. /\ nextId' \in Nat \ {NoId} /\ DOMAIN build' \subseteq 1..(nextId' - 1)
          /\ Table(build') /\ nb' \in [Requests -> Row \cup {NoBuild}]
          /\ nb'[w] \in Row /\ \A u \in Requests \ {w} : nb'[u] = nb[u]
      BY <2>1, CreateType
    <3> QED BY <1>7, <2>1, <3>1 DEF StoreAnd, TypeOK, ObjectsOK, Table, Labels
  <2>2. CASE UNCHANGED <<build, nextId, nb>> /\ pc' = [pc EXCEPT ![w] = "unlock"]
    BY <1>7, <2>2 DEF StoreAnd, TypeOK, ObjectsOK, Labels
  <2>3. CASE /\ nb[w] # NoBuild
             /\ nb' = [nb EXCEPT ![w].parents = MergedParents(par[w], nb[w].parents)]
             /\ build' = WithParents(nb[w].id, MergedParents(par[w], nb[w].parents))
             /\ pc' = [pc EXCEPT ![w] = "check"]
             /\ UNCHANGED nextId
    <3>1. nb[w] \in Row /\ par[w] \in Parents /\ nb[w].parents \in Parents
      BY <2>3 DEF TypeOK, Row
    <3>2. MergedParents(par[w], nb[w].parents) \in Parents BY <3>1, MergedType
    <3>3. DOMAIN build' = DOMAIN build /\ Table(build')
      BY <2>3, <3>2, <1>t, WriteType
    <3>4. [nb[w] EXCEPT !.parents = MergedParents(par[w], nb[w].parents)] \in Row
      BY <3>1, <3>2 DEF Row
    <3>5. /\ nb' \in [Requests -> Row \cup {NoBuild}] /\ nb'[w] \in Row
          /\ \A u \in Requests \ {w} : nb'[u] = nb[u]
      BY <2>3, <3>4 DEF TypeOK
    <3> QED BY <1>7, <2>3, <3>3, <3>5 DEF StoreAnd, TypeOK, ObjectsOK, Table, Labels
  <2> QED BY <1>7, <2>1, <2>2, <2>3 DEF StoreAnd
<1>8. CASE Check(w)
  <2>1. Verdict(tgt[w], nb[w]) \in {"unlock", "drop", "start"} BY DEF Verdict
  <2>2. nb[w] \in Row BY <1>8 DEF Check, ObjectsOK
  <2>3. nb' \in [Requests -> Row \cup {NoBuild}]
    BY <1>8 DEF Check, TypeOK
  <2>4. pc' \in [Requests -> Labels] BY <1>8, <2>1 DEF Check, TypeOK, Labels
  <2>5. ObjectsOK' BY <1>8, <2>1, <2>2 DEF Check, ObjectsOK, TypeOK
  <2> QED BY <1>8, <2>3, <2>4, <2>5 DEF Check, TypeOK, db
<1>9. CASE Drop(w)
  <2>1. DOMAIN build' \subseteq DOMAIN build /\ Table(build')
    BY <1>9, <1>t DEF Drop, Without, Table
  <2> QED BY <1>9, <2>1 DEF Drop, TypeOK, ObjectsOK, Table, Labels
<1>10. CASE Start(w)
  <2> DEFINE s == IF tgt[w] \in Virtual THEN "SUCCESS" ELSE "QUEUED"
  <2>1. s \in Status BY DEF Status
  <2>2. build' = WithStatus(nb[w].id, s) /\ nb' = [nb EXCEPT ![w].status = s]
    BY <1>10 DEF Start
  <2> HIDE DEF s
  <2>3. DOMAIN build' = DOMAIN build /\ Table(build')
    BY <2>1, <2>2, <1>t, WriteType
  <2>4. nb[w] \in Row BY <1>10 DEF Start, ObjectsOK
  <2>5. [nb[w] EXCEPT !.status = s] \in Row BY <2>1, <2>4 DEF Row
  <2>6. /\ nb' \in [Requests -> Row \cup {NoBuild}]
        /\ \A u \in Requests \ {w} : nb'[u] = nb[u]
    BY <2>2, <2>5 DEF TypeOK
  <2> QED BY <1>10, <2>3, <2>6 DEF Start, TypeOK, ObjectsOK, Table, Labels
<1>11. CASE Exec(w)
  BY <1>11 DEF Exec, TypeOK, ObjectsOK, Labels
<1>12. CASE Unlock(w)
  <2>1. nb[w] # NoBuild => nb[w] \in Row BY DEF TypeOK
  <2>2. down' \in [Requests -> SUBSET Row] BY <1>12, <2>1 DEF Unlock, TypeOK
  <2>3. /\ lock' \in Requests \cup {NoRequest}
        /\ nb' \in [Requests -> Row \cup {NoBuild}]
        /\ pc' \in [Requests -> Labels]
    BY <1>12 DEF Unlock, TypeOK, Labels
  <2>4. ObjectsOK' BY <1>12 DEF Unlock, ObjectsOK, TypeOK
  <2> QED BY <1>12, <2>2, <2>3, <2>4 DEF Unlock, TypeOK, db
<1>13. CASE Descend(w)
  <2>1. PICK d \in down[w] :
          /\ down' = [down EXCEPT ![w] = @ \ {d}]
          /\ cur'  = [cur EXCEPT ![w] = d]
          /\ todo' = [todo EXCEPT ![w] = NextJobs(d.job)]
    BY <1>13 DEF Descend
  <2>2. d \in Row /\ NextJobs(d.job) \subseteq Jobs BY DEF TypeOK, NextJobs
  <2>3. TypeOK' BY <1>13, <2>1, <2>2 DEF Descend, TypeOK, db
  <2>4. ObjectsOK' BY <1>13, <2>1, <2>2 DEF Descend, ObjectsOK, TypeOK
  <2> QED BY <2>3, <2>4
<1>14. CASE TriggerDone(w)
  BY <1>14 DEF TriggerDone, Forget, TypeOK, ObjectsOK, Labels, db
<1> QED
  BY <1>1, <1>2, <1>3, <1>4, <1>5, <1>6, <1>7, <1>8, <1>9, <1>10, <1>11, <1>12,
     <1>13, <1>14 DEF Step

(* The types and the objects a label needs are preserved by every step. *)
LEMMA NextType == TypeInv /\ [Next]_vars => TypeInv'
<1> SUFFICES ASSUME TypeInv, [Next]_vars PROVE TypeInv' OBVIOUS
<1>1. ASSUME NEW w \in Requests, NEW b \in DOMAIN build, NEW s \in Outcomes,
             Finish(w, b, s)
      PROVE  TypeInv'
  <2>1. s \in Ended BY OutcomeAssumption DEF Ended
  <2> QED BY <1>1, <2>1, EndBuildType DEF Finish
<1>2. ASSUME NEW w \in Requests, NEW b \in DOMAIN build, BypassRoot(w, b)
      PROVE  TypeInv'
  <2>1. "SUCCESS" \in Ended BY DEF Ended
  <2> QED BY <1>2, <2>1, EndBuildType DEF BypassRoot
<1>3. CASE UNCHANGED vars
  BY <1>3 DEF TypeInv, TypeOK, ObjectsOK, vars, RowsOf
<1> QED BY <1>1, <1>2, <1>3, StepType DEF Next

LEMMA TypeInvariant == Spec => []TypeInv
BY InitType, NextType, PTL DEF Spec

(* Every reachable state is well typed: rows keep their id and ids are never *)
(* handed out twice.                                                         *)
THEOREM TypeCorrect == Spec => []TypeOK
<1>1. TypeInv => TypeOK BY DEF TypeInv
<1> QED BY TypeInvariant, <1>1, PTL

-----------------------------------------------------------------------------
(* One build per job *)

Mutex == LockHeld /\ AbsentAtStore /\ OneBuildPerJob

(* No row appears and none moves to another job. *)
NoNewRow == /\ DOMAIN build' \subseteq DOMAIN build
            /\ \A i \in DOMAIN build' : build'[i].job = build[i].job

LEMMA NoNewRowKeeps ==
  ASSUME OneBuildPerJob, NoNewRow
  PROVE  OneBuildPerJob' /\ \A j : RowsOf(j)' \subseteq RowsOf(j)
BY DEF OneBuildPerJob, NoNewRow, RowsOf

(* An event begins with one build for each root job, and no request at work. *)
LEMMA InitMutex == Init => Mutex
<1> SUFFICES ASSUME Init PROVE Mutex OBVIOUS
<1>1. PICK ids \in [Roots -> 1..Cardinality(Roots)] :
        build = [i \in {ids[j] : j \in Roots} |->
                  LET j == CHOOSE k \in Roots : ids[k] = i
                  IN  [id |-> i, job |-> j,
                       status |-> IF j \in Virtual THEN "CREATED" ELSE "QUEUED",
                       parents |-> [k \in Jobs |-> NoId]]]
  BY DEF Init
<1>2. ASSUME NEW i \in DOMAIN build
      PROVE  ids[build[i].job] = i
  <2> DEFINE j == CHOOSE k \in Roots : ids[k] = i
  <2>1. ids[j] = i BY <1>1, <1>2
  <2>2. build[i].job = j BY <1>1, <1>2
  <2> QED BY <2>1, <2>2
<1>3. OneBuildPerJob BY <1>2 DEF OneBuildPerJob
<1>4. \A w \in Requests : pc[w] = "idle" BY DEF Init
<1> QED BY <1>3, <1>4 DEF Mutex, LockHeld, AbsentAtStore, Critical

(* A request that creates a build holds the lock, so no other request is   *)
(* about to create one, and its own job had no build.                      *)
LEMMA CreateMutex ==
  ASSUME TypeInv, Mutex, NEW w \in Requests, NEW started \in BOOLEAN,
         pc[w] = "store", nb[w] = NoBuild, CreateBuild(w, started),
         UNCHANGED <<lock, tgt>>,
         NEW l \in Critical \ {"find", "store"}, pc' = [pc EXCEPT ![w] = l]
  PROVE  Mutex'
<1>1. nextId \notin DOMAIN build /\ tgt[w] \in Jobs
  BY DEF TypeInv, TypeOK
<1>2. /\ DOMAIN build' = DOMAIN build \cup {nextId}
      /\ build'[nextId].job = tgt[w]
      /\ \A i \in DOMAIN build : build'[i] = build[i]
  BY <1>1 DEF CreateBuild, Inserted
<1>3. RowsOf(tgt[w]) = {} BY DEF Mutex, AbsentAtStore
<1>4. OneBuildPerJob' BY <1>2, <1>3 DEF Mutex, OneBuildPerJob, RowsOf
<1>5. lock = w /\ \A u \in Requests \ {w} : pc[u] \notin Critical
  BY DEF Mutex, LockHeld, Critical
<1>6. \A u \in Requests : pc'[u] = IF u = w THEN l ELSE pc[u]
  BY DEF TypeInv, TypeOK
<1>7. LockHeld' BY <1>5, <1>6 DEF LockHeld
<1>8. AbsentAtStore' BY <1>5, <1>6 DEF AbsentAtStore, Critical
<1> QED BY <1>4, <1>7, <1>8 DEF Mutex

(* A step that creates nothing and stays on its side of the lock. *)
LEMMA QuietMutex ==
  ASSUME TypeInv, Mutex, NoNewRow, NEW w \in Requests, NEW l,
         pc' = [pc EXCEPT ![w] = l], UNCHANGED <<lock, tgt>>,
         l \in Critical => pc[w] \in Critical,
         l # "store", \A u \in Requests \ {w} : nb'[u] = nb[u]
  PROVE  Mutex'
<1>1. \A u \in Requests : pc'[u] = IF u = w THEN l ELSE pc[u]
  BY DEF TypeInv, TypeOK
<1>2. LockHeld' BY <1>1 DEF Mutex, LockHeld
<1>3. OneBuildPerJob' /\ \A j : RowsOf(j)' \subseteq RowsOf(j)
  BY NoNewRowKeeps DEF Mutex
<1>4. AbsentAtStore'
  <2> SUFFICES ASSUME NEW u \in Requests, pc'[u] = "store", nb'[u] = NoBuild
               PROVE  RowsOf(tgt[u])' = {}
    BY DEF AbsentAtStore
  <2>1. u # w /\ RowsOf(tgt[u]) = {} BY <1>1 DEF Mutex, AbsentAtStore
  <2>2. RowsOf(tgt[u])' \subseteq RowsOf(tgt[u]) BY <1>3 DEF RowsOf
  <2> QED BY <2>1, <2>2
<1> QED BY <1>2, <1>3, <1>4 DEF Mutex

(* Every step of a request keeps the lock discipline. *)
LEMMA StepMutex ==
  ASSUME LockReliable, TypeInv, Mutex, NEW w \in Requests, Step(w)
  PROVE  Mutex'
<1>c. /\ {"check", "drop", "start", "exec", "unlock"} \subseteq Critical \ {"find", "store"}
      /\ {"remove", "next", "idle"} \cap Critical = {}
      /\ {"find", "store"} \subseteq Critical
  BY DEF Critical
<1>1. CASE RemoveRead(w)
  BY <1>1 DEF RemoveRead, db, Mutex, LockHeld, AbsentAtStore, OneBuildPerJob, RowsOf
<1>2. CASE RemoveRow(w)
  <2>1. NoNewRow BY <1>2 DEF RemoveRow, Without, NoNewRow
  <2>2. pc' = [pc EXCEPT ![w] = "remove"] BY <1>2 DEF RemoveRow, TypeInv, TypeOK
  <2> QED BY <1>2, <1>c, <2>1, <2>2, QuietMutex DEF RemoveRow
<1>3. CASE RemoveDone(w)
  <2>1. NoNewRow BY <1>3 DEF RemoveDone, db, NoNewRow
  <2> QED BY <1>3, <1>c, <2>1, QuietMutex DEF RemoveDone, Forget
<1>4. CASE LockNext(w)
  <2>1. lock = NoRequest /\ lock' = w /\ UNCHANGED <<build, nb>>
    BY <1>4 DEF LockNext, Acquire, db
  <2>2. \A u \in Requests : pc[u] \notin Critical
    BY <2>1, RequestAssumption DEF Mutex, LockHeld
  <2>3. /\ \A u \in Requests : pc'[u] = IF u = w THEN "find" ELSE pc[u]
        /\ \A u \in Requests \ {w} : tgt'[u] = tgt[u]
    BY <1>4 DEF LockNext, TypeInv, TypeOK
  <2>4. LockHeld' BY <2>1, <2>2, <2>3 DEF LockHeld
  <2>5. AbsentAtStore' BY <1>c, <2>2, <2>3 DEF AbsentAtStore
  <2>6. OneBuildPerJob' BY <2>1 DEF Mutex, OneBuildPerJob
  <2> QED BY <2>4, <2>5, <2>6 DEF Mutex
<1>5. CASE Find(w)
  <2>1. /\ pc[w] = "find" /\ UNCHANGED <<build, lock, tgt>>
        /\ \A u \in Requests : pc'[u] = IF u = w THEN "store" ELSE pc[u]
        /\ \A u \in Requests \ {w} : nb'[u] = nb[u]
    BY <1>5 DEF Find, db, TypeInv, TypeOK
  <2>2. LockHeld' BY <1>c, <2>1 DEF Mutex, LockHeld
  <2>3. nb'[w] = NoBuild => RowsOf(tgt[w]) = {}
    <3>1. SUFFICES ASSUME NEW i \in RowsOf(tgt[w]), nb' = [nb EXCEPT ![w] = build[i]]
                   PROVE  nb'[w] # NoBuild
      BY <1>5 DEF Find
    <3>2. build[i].id \in Nat \ {NoId} BY DEF RowsOf, TypeInv, TypeOK, Row
    <3>3. NoBuild.id = NoId BY DEF NoBuild
    <3>4. build[i] # NoBuild BY <3>2, <3>3
    <3> QED BY <3>1, <3>4 DEF TypeInv, TypeOK
  <2>4. AbsentAtStore' BY <2>1, <2>3 DEF Mutex, AbsentAtStore, RowsOf
  <2>5. OneBuildPerJob' BY <2>1 DEF Mutex, OneBuildPerJob
  <2> QED BY <2>2, <2>4, <2>5 DEF Mutex
<1>6. CASE StoreOr(w)
  <2>1. pc[w] = "store" /\ UNCHANGED <<lock, tgt>> BY <1>6 DEF StoreOr
  <2>2. CASE nb[w] = NoBuild /\ tgt[w] \notin Disabled
    <3> DEFINE l == IF tgt[w] \in Virtual THEN "start" ELSE "exec"
    <3>1. CreateBuild(w, tgt[w] \notin Virtual) /\ pc' = [pc EXCEPT ![w] = l]
      BY <1>6, <2>2 DEF StoreOr
    <3>2. l \in Critical \ {"find", "store"} BY <1>c
    <3> HIDE DEF l
    <3>3. (tgt[w] \notin Virtual) \in BOOLEAN OBVIOUS
    <3> QED BY <2>1, <2>2, <3>1, <3>2, <3>3, CreateMutex
  <2>3. CASE ~(nb[w] = NoBuild /\ tgt[w] \notin Disabled)
    <3>1. UNCHANGED <<build, nb>> BY <1>6, <2>3 DEF StoreOr
    <3>2. PICK l \in {"unlock", "start"} : pc' = [pc EXCEPT ![w] = l]
      BY <1>6, <2>3 DEF StoreOr
    <3>3. NoNewRow BY <3>1 DEF NoNewRow
    <3> QED BY <1>c, <2>1, <3>1, <3>2, <3>3, QuietMutex
  <2> QED BY <2>2, <2>3
<1>7. CASE StoreAnd(w)
  <2>1. pc[w] = "store" /\ UNCHANGED <<lock, tgt>> BY <1>7 DEF StoreAnd
  <2>2. CASE nb[w] = NoBuild /\ tgt[w] \notin Disabled
    <3>1. CreateBuild(w, FALSE) /\ pc' = [pc EXCEPT ![w] = "check"]
      BY <1>7, <2>2 DEF StoreAnd
    <3>2. "check" \in Critical \ {"find", "store"} BY <1>c
    <3> QED BY <2>1, <2>2, <3>1, <3>2, CreateMutex
  <2>3. CASE nb[w] = NoBuild /\ tgt[w] \in Disabled
    <3>1. UNCHANGED <<build, nb>> /\ pc' = [pc EXCEPT ![w] = "unlock"]
      BY <1>7, <2>3 DEF StoreAnd
    <3>2. NoNewRow BY <3>1 DEF NoNewRow
    <3> QED BY <1>c, <2>1, <3>1, <3>2, QuietMutex
  <2>4. CASE nb[w] # NoBuild
    <3>1. /\ build' = WithParents(nb[w].id, MergedParents(par[w], nb[w].parents))
          /\ pc' = [pc EXCEPT ![w] = "check"]
          /\ \A u \in Requests \ {w} : nb'[u] = nb[u]
      BY <1>7, <2>4 DEF StoreAnd, TypeInv, TypeOK
    <3>2. NoNewRow
      <4>1. Table(build) BY DEF TypeInv, TypeOK, Table
      <4>2. MergedParents(par[w], nb[w].parents) \in Parents
        BY <2>4, MergedType DEF TypeInv, TypeOK, Row
      <4> QED BY <3>1, <4>1, <4>2, WriteType DEF NoNewRow
    <3> QED BY <1>c, <2>1, <3>1, <3>2, QuietMutex
  <2> QED BY <2>2, <2>3, <2>4
<1>8. CASE Check(w)
  <2>1. Verdict(tgt[w], nb[w]) \in {"unlock", "drop", "start"} BY DEF Verdict
  <2>2. NoNewRow BY <1>8 DEF Check, db, NoNewRow
  <2>3. /\ pc' = [pc EXCEPT ![w] = Verdict(tgt[w], nb[w])]
        /\ \A u \in Requests \ {w} : nb'[u] = nb[u]
    BY <1>8 DEF Check, TypeInv, TypeOK
  <2> QED BY <1>8, <1>c, <2>1, <2>2, <2>3, QuietMutex DEF Check
<1>9. CASE Drop(w)
  <2>1. NoNewRow BY <1>9 DEF Drop, Without, NoNewRow
  <2>2. \A u \in Requests \ {w} : nb'[u] = nb[u] BY <1>9 DEF Drop, TypeInv, TypeOK
  <2> QED BY <1>9, <1>c, <2>1, <2>2, QuietMutex DEF Drop
<1>10. CASE Start(w)
  <2> DEFINE l == IF tgt[w] \in Virtual THEN "unlock" ELSE "exec"
             s == IF tgt[w] \in Virtual THEN "SUCCESS" ELSE "QUEUED"
  <2>1. l \in Critical /\ l # "store" /\ s \in Status BY <1>c DEF Status
  <2>2. /\ build' = WithStatus(nb[w].id, s) /\ pc' = [pc EXCEPT ![w] = l]
        /\ \A u \in Requests \ {w} : nb'[u] = nb[u]
    BY <1>10 DEF Start, TypeInv, TypeOK
  <2> HIDE DEF l, s
  <2>3. Table(build) BY DEF TypeInv, TypeOK, Table
  <2>4. NoNewRow BY <2>1, <2>2, <2>3, WriteType DEF NoNewRow
  <2> QED BY <1>10, <1>c, <2>1, <2>2, <2>4, QuietMutex DEF Start
<1>11. CASE Exec(w)
  <2>1. NoNewRow BY <1>11 DEF Exec, NoNewRow
  <2> QED BY <1>11, <1>c, <2>1, QuietMutex DEF Exec
<1>12. CASE Unlock(w)
  <2>1. /\ lock = w /\ UNCHANGED <<build, tgt>>
        /\ \A u \in Requests : pc'[u] = IF u = w THEN "next" ELSE pc[u]
        /\ \A u \in Requests \ {w} : nb'[u] = nb[u]
    BY <1>12, <1>c DEF Unlock, db, Mutex, LockHeld, TypeInv, TypeOK
  <2>2. \A u \in Requests : pc'[u] \notin Critical
    BY <1>c, <2>1 DEF Mutex, LockHeld
  <2>3. LockHeld' /\ AbsentAtStore' BY <1>c, <2>2 DEF LockHeld, AbsentAtStore
  <2>4. OneBuildPerJob' BY <2>1 DEF Mutex, OneBuildPerJob
  <2> QED BY <2>3, <2>4 DEF Mutex
<1>13. CASE Descend(w)
  <2>1. NoNewRow BY <1>13 DEF Descend, db, NoNewRow
  <2>2. pc' = [pc EXCEPT ![w] = "next"] BY <1>13 DEF Descend, TypeInv, TypeOK
  <2> QED BY <1>13, <1>c, <2>1, <2>2, QuietMutex DEF Descend
<1>14. CASE TriggerDone(w)
  <2>1. NoNewRow BY <1>14 DEF TriggerDone, db, NoNewRow
  <2> QED BY <1>14, <1>c, <2>1, QuietMutex DEF TriggerDone, Forget
<1> QED
  BY <1>1, <1>2, <1>3, <1>4, <1>5, <1>6, <1>7, <1>8, <1>9, <1>10, <1>11, <1>12,
     <1>13, <1>14 DEF Step

(* So does the end of a build, which creates nothing and takes no lock. *)
LEMMA EndBuildMutex ==
  ASSUME TypeInv, Mutex, NEW w \in Requests, NEW b \in DOMAIN build,
         NEW s \in Ended, pc[w] = "idle", EndBuild(w, b, s)
  PROVE  Mutex'
<1> DEFINE l == CASE s = "SUCCESS" -> "next"
                  [] s = "FAILURE" -> "remove"
                  [] OTHER         -> "idle"
<1>1. l \notin Critical /\ l # "store" BY DEF Critical
<1>2. s \in Status /\ Table(build) BY DEF Ended, Status, TypeInv, TypeOK, Table
<1>3. build' = WithStatus(b, s) /\ pc' = [pc EXCEPT ![w] = l] BY DEF EndBuild
<1> HIDE DEF l
<1>4. NoNewRow BY <1>2, <1>3, WriteType DEF NoNewRow
<1> QED BY <1>1, <1>3, <1>4, QuietMutex DEF EndBuild

LEMMA NextMutex == LockReliable /\ TypeInv /\ Mutex /\ [Next]_vars => Mutex'
<1> SUFFICES ASSUME LockReliable, TypeInv, Mutex, [Next]_vars PROVE Mutex' OBVIOUS
<1>1. ASSUME NEW w \in Requests, NEW b \in DOMAIN build, NEW s \in Outcomes,
             Finish(w, b, s)
      PROVE  Mutex'
  <2>1. s \in Ended BY OutcomeAssumption DEF Ended
  <2> QED BY <1>1, <2>1, EndBuildMutex DEF Finish
<1>2. ASSUME NEW w \in Requests, NEW b \in DOMAIN build, BypassRoot(w, b)
      PROVE  Mutex'
  <2>1. "SUCCESS" \in Ended BY DEF Ended
  <2> QED BY <1>2, <2>1, EndBuildMutex DEF BypassRoot
<1>3. CASE UNCHANGED vars
  BY <1>3 DEF Mutex, LockHeld, AbsentAtStore, OneBuildPerJob, vars, RowsOf
<1> QED BY <1>1, <1>2, <1>3, StepMutex DEF Next

(* The critical section of triggerNextJobs is one: two requests are never *)
(* between locker.lock and locker.unlock, if the lock can be relied on.    *)
THEOREM LockDiscipline == Spec => [](LockReliable => LockHeld)
<1> DEFINE MInv == TypeInv /\ (LockReliable => Mutex)
<1>1. Init => MInv BY InitType, InitMutex
<1>2. MInv /\ [Next]_vars => MInv' BY NextType, NextMutex
<1>3. MInv => (LockReliable => LockHeld) BY DEF Mutex
<1> QED BY <1>1, <1>2, <1>3, PTL DEF Spec

(* However many upstream builds end at the same time, an event gets at most *)
(* one build per job, provided redlock always hands the lock out: the find  *)
(* and the create of triggerNextJobs are one step to every other request.   *)
THEOREM NoDuplicateBuild == Spec => [](LockReliable => OneBuildPerJob)
<1> DEFINE MInv == TypeInv /\ (LockReliable => Mutex)
<1>1. Init => MInv BY InitType, InitMutex
<1>2. MInv /\ [Next]_vars => MInv' BY NextType, NextMutex
<1>3. MInv => (LockReliable => OneBuildPerJob) BY DEF Mutex
<1> QED BY <1>1, <1>2, <1>3, PTL DEF Spec

-----------------------------------------------------------------------------
(***************************************************************************)
(* What is started and what is removed                                     *)
(*                                                                         *)
(* A job that joins and is an OR target as well (design/workflow.md allows *)
(* it) may be removed for one source that failed while another one starts  *)
(* it: the run join_mixed shows that.  So may a virtual job with two OR    *)
(* sources, between its creation and its being passed over.  For every     *)
(* other graph a build is removed only when its job is doomed: one of its  *)
(* sources has failed for good, so that the job can never be started.      *)
(***************************************************************************)
Plain == /\ \A j, k \in Jobs : JoinSrc(k) # {} => ~IsOr(j, k)
         /\ \A i, j \in Jobs : \A k \in Virtual : IsOr(i, k) /\ IsOr(j, k) => i = j

Trig == {"next"} \cup Critical

\* Facts about a table t of builds whose next id is n.
RowOf(t, i, j)   == i \in DOMAIN t /\ t[i].job = j
Empty(t, j)      == \A i \in DOMAIN t : t[i].job # j
Has(t, j, S)     == \E i \in DOMAIN t : t[i].job = j /\ t[i].status \in S
Begun(t, j)      == \E i \in DOMAIN t : t[i].job = j /\ t[i].status # "CREATED"
Succ(t, i, j)    == RowOf(t, i, j) /\ t[i].status = "SUCCESS"
Given(n, i)      == i \in Nat /\ i < n
Doomed(t, j)     == /\ JoinSrc(j) # {} \/ j \in Virtual
                    /\ \E f \in Jobs : j \in NextJobs(f) /\ Has(t, f, Failed)

\* What the id of a build of job j may refer to: its row, or a row that was removed.
Refers(t, n, i, j) == \/ RowOf(t, i, j)
                      \/ i \notin DOMAIN t /\ Given(n, i) /\ Doomed(t, j)
GoodRefs(t, n, p)  == \A j \in Jobs : p[j] # NoId => Refers(t, n, p[j], j)

\* The object of a build that has ended agrees with its row.
Held(t, c, s) == RowOf(t, c.id, c.job) /\ t[c.id].status = s

CurWell(w) == /\ GoodRefs(build, nextId, par[w])
              /\ cur[w] # NoBuild => GoodRefs(build, nextId, cur[w].parents)
              /\ pc[w] \in Trig => Held(build, cur[w], "SUCCESS")
              /\ pc[w] = "remove" => Held(build, cur[w], "FAILURE")
              /\ \A d \in down[w] : /\ Held(build, d, "SUCCESS")
                                    /\ GoodRefs(build, nextId, d.parents)

TargetWell(w) == /\ pc[w] # "idle" => todo[w] \subseteq NextJobs(cur[w].job)
                 /\ pc[w] \in Critical => tgt[w] \in NextJobs(cur[w].job)

\* Only builds that will never be started are removed.
Condemned(t, n, i) == /\ Given(n, i)
                      /\ i \in DOMAIN t => t[i].status = "CREATED" /\ Doomed(t, t[i].job)
DelWell(w) == \A i \in del[w] : Condemned(build, nextId, i)

\* The next build a request has found is still the row, as far as it matters.
SameRow(x, r) == /\ r.parents = x.parents
                 /\ x.status = "CREATED" <=> r.status = "CREATED"
                 /\ x.status = "SUCCESS" => r.status = "SUCCESS"
Found(t, n, x, k) ==
  /\ x.job = k /\ Given(n, x.id) /\ GoodRefs(t, n, x.parents)
  /\ x.id \in DOMAIN t => t[x.id].job = k /\ SameRow(x, t[x.id])
  /\ x.id \notin DOMAIN t => Empty(t, k) /\ Doomed(t, k) /\ x.status = "CREATED"
NextWell(w) == nb[w] # NoBuild => /\ pc[w] \in Critical \ {"find"}
                                  /\ Found(build, nextId, nb[w], tgt[w])

\* A request that is about to start a build, or to remove it, has seen why.
StartWell(w) ==
  /\ pc[w] = "start" =>
       /\ nb[w].status = "CREATED"
       /\ IsOr(cur[w].job, tgt[w])
            \/ \A j \in JoinSrc(tgt[w]) : Succ(build, nb[w].parents[j], j)
  /\ pc[w] = "drop" => nb[w].status = "CREATED" /\ Doomed(build, tgt[w])
  /\ pc[w] = "exec" => starts[tgt[w]] = 0 /\ Begun(build, tgt[w])

LocalWell(w) == /\ CurWell(w) /\ TargetWell(w) /\ DelWell(w)
                /\ NextWell(w) /\ StartWell(w)

\* The parents of a build that was started have succeeded.
WasReady(t, r) == /\ \A j \in JoinSrc(r.job) : Succ(t, r.parents[j], j)
                  /\ r.job \in Virtual =>
                       \A f \in Jobs : IsOr(f, r.job) => Has(t, f, {"SUCCESS"})
RowWell(t, n, r) ==
  /\ GoodRefs(t, n, r.parents)
  /\ IF r.status = "CREATED" THEN JoinSrc(r.job) # {} \/ r.job \in Virtual
                             ELSE WasReady(t, r)

StartsWell == \A j \in Jobs : starts[j] <= 1 /\ (starts[j] > 0 => Begun(build, j))

StartInv == /\ TypeInv /\ Mutex /\ StartsWell
            /\ \A w \in Requests : LocalWell(w)
            /\ \A i \in DOMAIN build : RowWell(build, nextId, build[i])

(* A step takes nothing back: what has ended stays, only builds that wait  *)
(* for a failed source go, none of them is started, and ids are new.       *)
Grows ==
  /\ nextId' \in Nat /\ nextId <= nextId'
  /\ \A i \in DOMAIN build' : i \notin DOMAIN build => i = nextId
  /\ \A i \in DOMAIN build :
       IF i \in DOMAIN build'
       THEN /\ build'[i].job = build[i].job
            /\ build[i].status \in Ended => build'[i].status = build[i].status
            /\ build[i].status # "CREATED" => build'[i].status # "CREATED"
            /\ build[i].status = "CREATED" /\ Doomed(build, build[i].job)
                 => build'[i].status = "CREATED"
       ELSE build[i].status = "CREATED" /\ Doomed(build, build[i].job)

LEMMA Lasts ==
  ASSUME TypeInv, Grows
  PROVE  /\ \A j : \A S \in SUBSET Ended : Has(build, j, S) => Has(build', j, S)
         /\ \A j : Begun(build, j) => Begun(build', j)
         /\ \A j : Doomed(build, j) => Doomed(build', j)
         /\ \A i, j : Succ(build, i, j) => Succ(build', i, j)
         /\ \A i : Given(nextId, i) => Given(nextId', i)
         /\ \A i : Condemned(build, nextId, i) => Condemned(build', nextId', i)
         /\ \A p : GoodRefs(build, nextId, p) => GoodRefs(build', nextId', p)
         /\ \A c : \A s \in Ended : Held(build, c, s) => Held(build', c, s)
<1>1. ASSUME NEW i \in DOMAIN build, build[i].status # "CREATED"
      PROVE  /\ i \in DOMAIN build' /\ build'[i].job = build[i].job
             /\ build'[i].status # "CREATED"
             /\ build[i].status \in Ended => build'[i].status = build[i].status
  BY <1>1 DEF Grows
<1>2. Ended \subseteq Status \ {"CREATED"} /\ Failed \subseteq Ended /\ "SUCCESS" \in Ended
  BY DEF Ended, Status, Failed
<1>3. \A j : \A S \in SUBSET Ended : Has(build, j, S) => Has(build', j, S)
  BY <1>1, <1>2 DEF Has
<1>4. \A j : Begun(build, j) => Begun(build', j)
  BY <1>1 DEF Begun
<1>5. \A j : Doomed(build, j) => Doomed(build', j)
  BY <1>2, <1>3 DEF Doomed
<1>6. \A i, j : Succ(build, i, j) => Succ(build', i, j)
  BY <1>1, <1>2 DEF Succ, RowOf
<1>g. ASSUME NEW i, Given(nextId, i)
      PROVE  Given(nextId', i) /\ (i \in DOMAIN build' => i \in DOMAIN build)
  <2>1. nextId \in Nat /\ nextId' \in Nat /\ nextId <= nextId'
    BY DEF Grows, TypeInv, TypeOK
  <2>2. i \in Nat /\ i < nextId /\ i # nextId
    BY <1>g, <2>1 DEF Given
  <2>3. i < nextId'
    BY <2>1, <2>2
  <2> QED
    BY <2>2, <2>3 DEF Given, Grows
<1>7. ASSUME NEW i, NEW j, Refers(build, nextId, i, j)
      PROVE  Refers(build', nextId', i, j)
  <2>1. CASE RowOf(build, i, j)
    <3>1. Given(nextId, i)
      BY <2>1 DEF RowOf, Given, TypeInv, TypeOK
    <3>2. CASE i \in DOMAIN build'
      BY <2>1, <3>2 DEF Grows, RowOf, Refers
    <3>3. CASE i \notin DOMAIN build'
      BY <2>1, <3>1, <3>3, <1>5, <1>g DEF Grows, RowOf, Refers
    <3> QED
      BY <3>2, <3>3
  <2>2. CASE i \notin DOMAIN build /\ Given(nextId, i) /\ Doomed(build, j)
    BY <2>2, <1>5, <1>g DEF Refers
  <2> QED
    BY <1>7, <2>1, <2>2 DEF Refers
<1>8. \A p : GoodRefs(build, nextId, p) => GoodRefs(build', nextId', p)
  BY <1>7 DEF GoodRefs
<1>9. \A c : \A s \in Ended : Held(build, c, s) => Held(build', c, s)
  BY <1>1, <1>2 DEF Held, RowOf
<1>10. \A i : Condemned(build, nextId, i) => Condemned(build', nextId', i)
  BY <1>5, <1>g DEF Condemned, Grows
<1> QED
  BY <1>3, <1>4, <1>5, <1>6, <1>8, <1>9, <1>10, <1>g

(* A step of a request without the lock starts nothing and leaves alone what *)
(* a request with the lock has read.                                         *)
Gentle == /\ starts' = starts
          /\ \A i \in DOMAIN build' :
               /\ i \in DOMAIN build /\ build'[i].parents = build[i].parents
               /\ build[i].status = "CREATED" /\ build'[i].status # "CREATED"
                    => build[i].job \in Roots

Same(u) == /\ pc'[u] = pc[u] /\ cur'[u] = cur[u] /\ todo'[u] = todo[u] /\ tgt'[u] = tgt[u]
           /\ nb'[u] = nb[u] /\ par'[u] = par[u] /\ del'[u] = del[u] /\ down'[u] = down[u]

LEMMA FoundLasts ==
  ASSUME TypeInv, OneBuildPerJob, Grows, Gentle, NEW x, NEW k \in Jobs \ Roots,
         Found(build, nextId, x, k)
  PROVE  Found(build', nextId', x, k)
<1>1. Given(nextId', x.id) /\ GoodRefs(build', nextId', x.parents)
  BY Lasts DEF Found
<1>2. CASE x.id \in DOMAIN build
  <2>1. SameRow(x, build[x.id]) /\ RowOf(build, x.id, k)
    BY <1>2 DEF Found, RowOf
  <2>2. CASE x.id \in DOMAIN build'
    <3>1. RowOf(build', x.id, k) /\ build'[x.id].parents = build[x.id].parents
      BY <2>1, <2>2 DEF Grows, Gentle, RowOf
    <3>2. (build[x.id].status = "CREATED") <=> (build'[x.id].status = "CREATED")
      BY <2>1, <2>2 DEF Grows, Gentle, RowOf
    <3>3. build[x.id].status = "SUCCESS" => build'[x.id].status = "SUCCESS"
      BY <2>1, <2>2 DEF Grows, RowOf, Ended
    <3> QED
      BY <1>1, <2>1, <3>1, <3>2, <3>3 DEF Found, SameRow, RowOf
  <2>3. CASE x.id \notin DOMAIN build'
    <3>1. build[x.id].status = "CREATED" /\ Doomed(build, k)
      BY <2>1, <2>3 DEF Grows, RowOf
    <3>2. \A i \in DOMAIN build' : build'[i].job # k
      BY <2>1, <2>3 DEF OneBuildPerJob, Grows, Gentle, RowOf
    <3> QED
      BY <1>1, <2>1, <2>3, <3>1, <3>2, Lasts DEF Found, SameRow, RowOf, Empty
  <2> QED
    BY <2>2, <2>3
<1>3. CASE x.id \notin DOMAIN build
  <2>1. (\A i \in DOMAIN build' : build'[i].job # k) /\ x.id \notin DOMAIN build'
    BY <1>3 DEF Found, Empty, Grows, Gentle
  <2> QED
    BY <1>1, <1>3, <2>1, Lasts DEF Found, Empty
<1> QED
  BY <1>2, <1>3

LEMMA OthersKeep ==
  ASSUME StartInv, Grows, NEW w \in Requests, NEW u \in Requests \ {w}, Same(u),
         pc[w] \in Critical \/ Gentle
  PROVE  LocalWell(u)'
<1>1. LocalWell(u)
  BY DEF StartInv
<1>2. pc[u] \in Critical => Gentle
  BY DEF StartInv, Mutex, LockHeld
<1>3. TypeInv /\ OneBuildPerJob
  BY DEF StartInv, Mutex
<1>4. "SUCCESS" \in Ended /\ "FAILURE" \in Ended
  BY DEF Ended
<1>5. CurWell(u)'
  BY <1>1, <1>3, <1>4, Lasts DEF LocalWell, CurWell, Same
<1>6. TargetWell(u)'
  BY <1>1 DEF LocalWell, TargetWell, Same
<1>7. DelWell(u)'
  BY <1>1, <1>3, Lasts DEF LocalWell, DelWell, Same
<1>8. NextWell(u)'
  <2> SUFFICES ASSUME nb[u] # NoBuild
               PROVE  pc[u] \in Critical \ {"find"} /\ Found(build', nextId', nb[u], tgt[u])
    BY DEF NextWell, Same
  <2>1. pc[u] \in Critical \ {"find"} /\ Found(build, nextId, nb[u], tgt[u])
    BY <1>1 DEF LocalWell, NextWell
  <2>2. tgt[u] \in Jobs \ Roots
    <3>1. tgt[u] \in NextJobs(cur[u].job) /\ cur[u] \in Row
      BY <1>1, <1>3, <2>1 DEF LocalWell, TargetWell, TypeInv, ObjectsOK, Critical
    <3> QED
      BY <3>1 DEF NextJobs, Roots, Row
  <2> QED
    BY <1>2, <1>3, <2>1, <2>2, FoundLasts
<1>9. StartWell(u)'
  <2>1. pc[u] \in {"start", "exec"} => starts' = starts
    BY <1>2 DEF Critical, Gentle
  <2> QED
    BY <1>1, <1>3, <2>1, Lasts DEF LocalWell, StartWell, Same
<1> QED
  BY <1>5, <1>6, <1>7, <1>8, <1>9 DEF LocalWell

(* The rows of the table are as they have to be after a gentle step. *)
LEMMA RowsKeep ==
  ASSUME StartInv, Grows, Gentle
  PROVE  StartsWell' /\ \A i \in DOMAIN build' : RowWell(build', nextId', build'[i])
<1>1. TypeInv
  BY DEF StartInv
<1>2. StartsWell'
  BY <1>1, Lasts DEF StartInv, StartsWell, Gentle
<1>3. ASSUME NEW i \in DOMAIN build'
      PROVE  RowWell(build', nextId', build'[i])
  <2>1. /\ i \in DOMAIN build /\ build'[i].job = build[i].job
        /\ build'[i].parents = build[i].parents
        /\ build[i].status # "CREATED" => build'[i].status # "CREATED"
    BY <1>3 DEF Grows, Gentle
  <2>2. RowWell(build, nextId, build[i])
    BY <2>1 DEF StartInv
  <2>3. GoodRefs(build', nextId', build'[i].parents)
    BY <1>1, <2>1, <2>2, Lasts DEF RowWell
  <2>4. CASE build'[i].status = "CREATED"
    BY <2>1, <2>2, <2>3, <2>4 DEF RowWell
  <2>5. CASE build'[i].status # "CREATED"
    <3>1. WasReady(build, build[i])
      <4>1. CASE build[i].status # "CREATED"
        BY <2>2, <4>1 DEF RowWell
      <4>2. CASE build[i].job \in Roots
        BY <4>2 DEF WasReady, Roots, NextJobs, JoinSrc, IsOr
      <4> QED
        BY <1>3, <2>5, <4>1, <4>2 DEF Gentle
    <3>2. {"SUCCESS"} \in SUBSET Ended
      BY DEF Ended
    <3>3. WasReady(build', build'[i])
      BY <1>1, <2>1, <3>1, <3>2, Lasts DEF WasReady
    <3> QED
      BY <2>3, <2>5, <3>3 DEF RowWell
  <2> QED
    BY <2>4, <2>5
<1> QED
  BY <1>2, <1>3

LEMMA NoChange ==
  ASSUME TypeInv, UNCHANGED <<build, nextId>>
  PROVE  Grows /\ (UNCHANGED starts => Gentle)
BY DEF TypeInv, TypeOK, Grows, Gentle

(* What a request has at hand is not spoilt by a step, its own or another's. *)
LEMMA Carried ==
  ASSUME StartInv, Grows, NEW w \in Requests
  PROVE  /\ GoodRefs(build', nextId', par[w])
         /\ cur[w] # NoBuild => GoodRefs(build', nextId', cur[w].parents)
         /\ pc[w] \in Trig => Held(build', cur[w], "SUCCESS")
         /\ pc[w] = "remove" => Held(build', cur[w], "FAILURE")
         /\ \A d \in down[w] : Held(build', d, "SUCCESS") /\ GoodRefs(build', nextId', d.parents)
         /\ \A i \in del[w] : Condemned(build', nextId', i)
<1>1. CurWell(w) /\ DelWell(w) /\ TypeInv
  BY DEF StartInv, LocalWell
<1>2. "SUCCESS" \in Ended /\ "FAILURE" \in Ended
  BY DEF Ended
<1> QED
  BY <1>1, <1>2, Lasts DEF CurWell, DelWell

(* A step of request w takes nothing back, and with the lock in other hands it *)
(* is a gentle one.                                                           *)
Moves(w) == /\ Grows /\ \A u \in Requests \ {w} : Same(u)
            /\ pc[w] \in Critical \/ Gentle

(* The step of a request without the lock. *)
LEMMA GentleStep ==
  ASSUME LockReliable, StartInv, [Next]_vars, Grows, Gentle, NEW w \in Requests,
         \A u \in Requests \ {w} : Same(u), LocalWell(w)'
  PROVE  StartInv' /\ Moves(w)
<1>1. TypeInv' /\ Mutex'
  BY NextType, NextMutex DEF StartInv
<1>2. \A u \in Requests \ {w} : LocalWell(u)'
  BY OthersKeep
<1> QED
  BY <1>1, <1>2, RowsKeep DEF StartInv, Moves

(* The step of a request with the lock. *)
LEMMA LockedStep ==
  ASSUME LockReliable, StartInv, [Next]_vars, Grows, NEW w \in Requests, pc[w] \in Critical,
         \A u \in Requests \ {w} : Same(u), LocalWell(w)',
         StartsWell', \A i \in DOMAIN build' : RowWell(build', nextId', build'[i])
  PROVE  StartInv' /\ Moves(w)
<1>1. TypeInv' /\ Mutex'
  BY NextType, NextMutex DEF StartInv
<1>2. \A u \in Requests \ {w} : LocalWell(u)'
  BY OthersKeep
<1> QED
  BY <1>1, <1>2 DEF StartInv, Moves

(* The table after a status was written. *)
LEMMA StatusRows ==
  ASSUME TypeInv, NEW b, NEW s \in Status, build' = WithStatus(b, s)
  PROVE  /\ DOMAIN build' = DOMAIN build
         /\ \A i \in DOMAIN build : /\ build'[i].job = build[i].job
                                    /\ build'[i].parents = build[i].parents
                                    /\ build'[i].status = IF i = b THEN s ELSE build[i].status
BY DEF WithStatus, TypeInv, TypeOK, Row

(* A build ends: it was started, or is a virtual root. *)
LEMMA EndBuildStart ==
  ASSUME LockReliable, StartInv, [Next]_vars, NEW w \in Requests, NEW b \in DOMAIN build,
         NEW s \in Ended, pc[w] = "idle", EndBuild(w, b, s),
         \/ build[b].status = "QUEUED"
         \/ build[b].status = "CREATED" /\ build[b].job \in Roots
  PROVE  StartInv' /\ Moves(w)
<1>1. TypeInv /\ LocalWell(w) /\ RowWell(build, nextId, build[b]) /\ nextId \in Nat
  BY DEF StartInv, TypeInv, TypeOK
<1>2. s \in Status \ {"CREATED"} /\ build[b].status \notin Ended /\ UNCHANGED <<nextId, starts>>
  BY DEF Ended, Status, EndBuild
<1>3. /\ DOMAIN build' = DOMAIN build
      /\ \A i \in DOMAIN build : /\ build'[i].job = build[i].job
                                 /\ build'[i].parents = build[i].parents
                                 /\ build'[i].status = IF i = b THEN s ELSE build[i].status
  BY <1>1, <1>2, StatusRows DEF EndBuild
<1>4. build[b].job \in Roots => ~Doomed(build, build[b].job)
  BY <1>1 DEF Doomed, Roots, NextJobs
<1>5. Grows
  BY <1>1, <1>2, <1>3, <1>4 DEF Grows
<1>6. Gentle
  BY <1>2, <1>3 DEF Gentle
<1>7. \A u \in Requests \ {w} : Same(u)
  BY <1>1 DEF EndBuild, Same, TypeInv, TypeOK
<1>8. /\ cur'[w] = [build[b] EXCEPT !.status = s] /\ UNCHANGED <<par, nb, del, down>>
      /\ pc'[w] = CASE s = "SUCCESS" -> "next" [] s = "FAILURE" -> "remove" [] OTHER -> "idle"
      /\ todo'[w] = IF s = "ABORTED" THEN {} ELSE NextJobs(build[b].job)
  BY <1>1 DEF EndBuild, TypeInv, TypeOK
<1>9. /\ cur'[w].id = b /\ cur'[w].job = build[b].job /\ cur'[w].parents = build[b].parents
  BY <1>1, <1>8 DEF TypeInv, TypeOK, Row
<1>10. nb[w] = NoBuild
  BY <1>1 DEF LocalWell, NextWell, Critical
<1>11. CurWell(w)'
  <2>1. GoodRefs(build', nextId', build[b].parents)
    BY <1>1, <1>5, Lasts DEF RowWell
  <2>2. Held(build', cur'[w], s)
    BY <1>3, <1>9 DEF Held, RowOf
  <2>3. (pc'[w] \in Trig => s = "SUCCESS") /\ (pc'[w] = "remove" => s = "FAILURE")
    BY <1>8 DEF Trig, Critical
  <2> QED
    BY <1>5, <1>8, <1>9, <2>1, <2>2, <2>3, Carried DEF CurWell
<1>12. TargetWell(w)'
  <2>1. pc'[w] \notin Critical /\ (pc'[w] # "idle" => s # "ABORTED")
    BY <1>8 DEF Critical
  <2> QED
    BY <1>8, <1>9, <2>1 DEF TargetWell
<1>13. DelWell(w)' /\ NextWell(w)' /\ StartWell(w)'
  BY <1>5, <1>8, <1>10, Carried DEF DelWell, NextWell, StartWell
<1> QED
  BY <1>5, <1>6, <1>7, <1>11, <1>12, <1>13, GentleStep DEF LocalWell

(* removeJoinBuilds: only builds of jobs downstream of the failed one are chosen, *)
(* and only while they wait.                                                      *)
LEMMA RemoveReadStart ==
  ASSUME LockReliable, StartInv, [Next]_vars, NEW w \in Requests, RemoveRead(w)
  PROVE  StartInv' /\ Moves(w)
<1>1. TypeInv /\ LocalWell(w) /\ pc[w] = "remove"
  BY DEF StartInv, RemoveRead
<1>2. Grows /\ Gentle
  BY <1>1, NoChange DEF RemoveRead, db
<1>3. \A u \in Requests \ {w} : Same(u)
  BY <1>1 DEF RemoveRead, Same, TypeInv, TypeOK
<1>4. UNCHANGED <<build, nextId, pc, cur, tgt, nb, par, down>> /\ todo'[w] \subseteq todo[w]
  BY <1>1 DEF RemoveRead, db, TypeInv, TypeOK
<1>5. PICK j \in todo[w] : del'[w] = del[w] \/ \E i \in RowsOf(j) :
                              del'[w] = del[w] \cup {i} /\ build[i].status = "CREATED"
  BY <1>1 DEF RemoveRead, Removable, TypeInv, TypeOK
<1>6. ASSUME NEW i \in RowsOf(j), build[i].status = "CREATED"
      PROVE  Condemned(build, nextId, i)
  <2>1. i \in DOMAIN build /\ build[i].job = j /\ Given(nextId, i)
    BY <1>1 DEF RowsOf, Given, TypeInv, TypeOK
  <2>2. JoinSrc(j) # {} \/ j \in Virtual
    BY <1>6, <2>1 DEF StartInv, RowWell
  <2>3. j \in NextJobs(cur[w].job) /\ cur[w].job \in Jobs
    BY <1>1 DEF LocalWell, TargetWell, TypeInv, ObjectsOK, Row
  <2>4. Has(build, cur[w].job, Failed)
    BY <1>1 DEF LocalWell, CurWell, Held, RowOf, Has, Failed
  <2> QED
    BY <1>6, <2>1, <2>2, <2>3, <2>4 DEF Condemned, Doomed
<1>7. DelWell(w)'
  BY <1>1, <1>4, <1>5, <1>6 DEF LocalWell, DelWell
<1>8. CurWell(w)' /\ TargetWell(w)' /\ NextWell(w)' /\ StartWell(w)'
  BY <1>1, <1>4 DEF LocalWell, CurWell, TargetWell, NextWell, StartWell
<1> QED
  BY <1>2, <1>3, <1>7, <1>8, GentleStep DEF LocalWell

LEMMA RemoveRowStart ==
  ASSUME LockReliable, StartInv, [Next]_vars, NEW w \in Requests, RemoveRow(w)
  PROVE  StartInv' /\ Moves(w)
<1>1. TypeInv /\ LocalWell(w) /\ pc[w] = "remove"
  BY DEF StartInv, RemoveRow
<1>2. PICK r \in del[w] : build' = Without(r) /\ del' = [del EXCEPT ![w] = @ \ {r}]
  BY DEF RemoveRow
<1>3. /\ DOMAIN build' = DOMAIN build \ {r} /\ nextId \in Nat
      /\ \A i \in DOMAIN build' : build'[i] = build[i]
  BY <1>1, <1>2 DEF Without, TypeInv, TypeOK
<1>4. UNCHANGED <<nextId, starts, pc, cur, todo, tgt, nb, par, down>> /\ del'[w] = del[w] \ {r}
  BY <1>1, <1>2 DEF RemoveRow, TypeInv, TypeOK
<1>5. r \in DOMAIN build => build[r].status = "CREATED" /\ Doomed(build, build[r].job)
  BY <1>1, <1>2 DEF LocalWell, DelWell, Condemned
<1>6. Grows /\ Gentle
  BY <1>3, <1>4, <1>5 DEF Grows, Gentle
<1>7. \A u \in Requests \ {w} : Same(u)
  BY <1>1, <1>2, <1>4 DEF Same, TypeInv, TypeOK
<1>8. "remove" \notin Critical /\ "remove" \notin Trig
  BY DEF Critical, Trig
<1>9. CurWell(w)' /\ DelWell(w)'
  BY <1>1, <1>4, <1>6, Carried DEF CurWell, DelWell
<1>10. TargetWell(w)' /\ NextWell(w)' /\ StartWell(w)'
  BY <1>1, <1>4, <1>8 DEF LocalWell, TargetWell, NextWell, StartWell
<1> QED
  BY <1>6, <1>7, <1>9, <1>10, GentleStep DEF LocalWell

(* The request is answered. *)
LEMMA ForgetStart ==
  ASSUME LockReliable, StartInv, [Next]_vars, NEW w \in Requests, RemoveDone(w) \/ TriggerDone(w)
  PROVE  StartInv' /\ Moves(w)
<1>1. TypeInv /\ LocalWell(w) /\ pc[w] \notin Critical
  BY DEF StartInv, RemoveDone, TriggerDone, Critical
<1>2. /\ UNCHANGED <<build, nextId, starts, todo, tgt, nb, par, del, down>>
      /\ pc' = [pc EXCEPT ![w] = "idle"] /\ cur' = [cur EXCEPT ![w] = NoBuild]
  BY DEF RemoveDone, TriggerDone, Forget, db
<1>3. Grows /\ Gentle
  BY <1>1, <1>2, NoChange
<1>4. (\A u \in Requests \ {w} : Same(u)) /\ pc'[w] = "idle" /\ cur'[w] = NoBuild
  BY <1>1, <1>2 DEF Same, TypeInv, TypeOK
<1>5. "idle" \notin Critical /\ "idle" \notin Trig
  BY DEF Critical, Trig
<1> QED
  BY <1>1, <1>2, <1>3, <1>4, <1>5, GentleStep
  DEF LocalWell, CurWell, TargetWell, DelWell, NextWell, StartWell

LEMMA LockNextStart ==
  ASSUME LockReliable, StartInv, [Next]_vars, NEW w \in Requests, LockNext(w)
  PROVE  StartInv' /\ Moves(w)
<1>1. TypeInv /\ LocalWell(w) /\ pc[w] = "next"
  BY DEF StartInv, LockNext
<1>2. UNCHANGED <<build, nextId, starts, cur, nb, par, del, down>>
  BY DEF LockNext, db
<1>3. Grows /\ Gentle
  BY <1>1, <1>2, NoChange
<1>4. PICK j \in todo[w] : /\ tgt' = [tgt EXCEPT ![w] = j] /\ todo' = [todo EXCEPT ![w] = @ \ {j}]
                           /\ pc' = [pc EXCEPT ![w] = "find"]
  BY DEF LockNext
<1>5. \A u \in Requests \ {w} : Same(u)
  BY <1>1, <1>2, <1>4 DEF Same, TypeInv, TypeOK
<1>6. pc'[w] = "find" /\ tgt'[w] = j /\ todo'[w] = todo[w] \ {j}
  BY <1>1, <1>4 DEF TypeInv, TypeOK
<1>7. nb[w] = NoBuild /\ {"next", "find"} \subseteq Trig
  BY <1>1 DEF LocalWell, NextWell, Critical, Trig
<1>8. CurWell(w)' /\ TargetWell(w)' /\ DelWell(w)'
  BY <1>1, <1>2, <1>4, <1>6, <1>7 DEF LocalWell, CurWell, TargetWell, DelWell
<1>9. NextWell(w)' /\ StartWell(w)'
  BY <1>2, <1>6, <1>7 DEF NextWell, StartWell
<1> QED
  BY <1>3, <1>5, <1>8, <1>9, GentleStep DEF LocalWell

LEMMA DescendStart ==
  ASSUME LockReliable, StartInv, [Next]_vars, NEW w \in Requests, Descend(w)
  PROVE  StartInv' /\ Moves(w)
<1>1. TypeInv /\ LocalWell(w) /\ pc[w] = "next"
  BY DEF StartInv, Descend
<1>2. UNCHANGED <<build, nextId, starts, pc, tgt, nb, par, del>>
  BY DEF Descend, db
<1>3. Grows /\ Gentle
  BY <1>1, <1>2, NoChange
<1>4. PICK d \in down[w] : /\ down' = [down EXCEPT ![w] = @ \ {d}]
                           /\ cur' = [cur EXCEPT ![w] = d]
                           /\ todo' = [todo EXCEPT ![w] = NextJobs(d.job)]
  BY DEF Descend
<1>5. \A u \in Requests \ {w} : Same(u)
  BY <1>1, <1>2, <1>4 DEF Same, TypeInv, TypeOK
<1>6. cur'[w] = d /\ todo'[w] = NextJobs(d.job) /\ down'[w] = down[w] \ {d}
  BY <1>1, <1>4 DEF TypeInv, TypeOK
<1>7. Held(build, d, "SUCCESS") /\ GoodRefs(build, nextId, d.parents)
  BY <1>1, <1>4 DEF LocalWell, CurWell
<1>8. nb[w] = NoBuild /\ "next" \notin Critical
  BY <1>1 DEF LocalWell, NextWell, Critical
<1>9. CurWell(w)' /\ TargetWell(w)' /\ DelWell(w)'
  BY <1>1, <1>2, <1>6, <1>7, <1>8 DEF LocalWell, CurWell, TargetWell, DelWell
<1>10. NextWell(w)' /\ StartWell(w)'
  BY <1>1, <1>2, <1>8 DEF NextWell, StartWell
<1> QED
  BY <1>3, <1>5, <1>9, <1>10, GentleStep DEF LocalWell

-----------------------------------------------------------------------------
(* triggerNextJobs *)

(* The parents a request computes for a next job are builds of those jobs. *)
LEMMA ComputedRefs ==
  ASSUME TypeInv, NEW c \in Row, NEW k \in Jobs, GoodRefs(build, nextId, c.parents),
         RowOf(build, c.id, c.job)
  PROVE  /\ GoodRefs(build, nextId, OwnParents(c))
         /\ GoodRefs(build, nextId, FilledParents(c, k))
<1>1. \A j \in Jobs : OwnParents(c)[j] = IF j = c.job THEN c.id ELSE c.parents[j]
  BY DEF OwnParents, Row, Parents
<1>2. GoodRefs(build, nextId, OwnParents(c))
  BY <1>1 DEF GoodRefs, Refers
<1>3. ASSUME NEW j \in Jobs, Latest(j) # NoId
      PROVE  RowOf(build, Latest(j), j)
  <2>1. RowsOf(j) # {}
    BY <1>3 DEF Latest
  <2>2. Latest(j) \in RowsOf(j)
    BY <2>1, LatestType DEF TypeInv
  <2> QED
    BY <2>2 DEF RowsOf, RowOf
<1>4. \A j \in Jobs : FilledParents(c, k)[j] \in {Latest(j), OwnParents(c)[j]}
  BY DEF FilledParents
<1>5. GoodRefs(build, nextId, FilledParents(c, k))
  BY <1>2, <1>3, <1>4 DEF GoodRefs, Refers
<1> QED
  BY <1>2, <1>5

LEMMA FindStart ==
  ASSUME LockReliable, StartInv, [Next]_vars, NEW w \in Requests, Find(w)
  PROVE  StartInv' /\ Moves(w)
<1>1. TypeInv /\ LocalWell(w) /\ pc[w] = "find"
  BY DEF StartInv, Find
<1>2. /\ UNCHANGED <<build, nextId, starts, cur, todo, tgt, del, down>>
      /\ pc' = [pc EXCEPT ![w] = "store"]
  BY DEF Find, db
<1>3. Grows /\ Gentle
  BY <1>1, <1>2, NoChange
<1>4. \A u \in Requests \ {w} : Same(u)
  BY <1>1 DEF Find, db, Same, TypeInv, TypeOK
<1>5. cur[w] \in Row /\ tgt[w] \in Jobs /\ cur[w] # NoBuild
  BY <1>1 DEF TypeInv, TypeOK, ObjectsOK, Row, NoBuild, NoId
<1>6. pc'[w] = "store" /\ par'[w] \in {OwnParents(cur[w]), FilledParents(cur[w], tgt[w])}
  BY <1>1 DEF Find, TypeInv, TypeOK
<1>7. GoodRefs(build, nextId, par'[w])
  BY <1>1, <1>5, <1>6, ComputedRefs DEF LocalWell, CurWell, Held, Trig, Critical
<1>8. nb'[w] = NoBuild \/ \E i \in RowsOf(tgt[w]) : nb'[w] = build[i]
  BY <1>1 DEF Find, TypeInv, TypeOK
<1>9. ASSUME NEW i \in RowsOf(tgt[w]) PROVE Found(build, nextId, build[i], tgt[w])
  <2>1. i \in DOMAIN build /\ build[i].job = tgt[w] /\ build[i].id = i /\ Given(nextId, i)
    BY <1>1 DEF RowsOf, Given, TypeInv, TypeOK
  <2>2. GoodRefs(build, nextId, build[i].parents)
    BY <2>1 DEF StartInv, RowWell
  <2> QED
    BY <2>1, <2>2 DEF Found, SameRow, RowOf
<1>10. {"find", "store"} \subseteq Critical /\ "store" \in Trig /\ "find" \in Trig
  BY DEF Critical, Trig
<1>11. CurWell(w)' /\ TargetWell(w)' /\ DelWell(w)'
  BY <1>1, <1>2, <1>6, <1>7, <1>10 DEF LocalWell, CurWell, TargetWell, DelWell
<1>12. NextWell(w)' /\ StartWell(w)'
  BY <1>2, <1>6, <1>8, <1>9, <1>10 DEF NextWell, StartWell
<1> QED
  BY <1>3, <1>4, <1>11, <1>12, GentleStep DEF LocalWell

LEMMA CheckStart ==
  ASSUME LockReliable, StartInv, [Next]_vars, NEW w \in Requests, Check(w)
  PROVE  StartInv' /\ Moves(w)
<1> DEFINE k == tgt[w]
           x == nb[w]
<1>1. TypeInv /\ LocalWell(w) /\ pc[w] = "check"
  BY DEF StartInv, Check
<1>2. UNCHANGED <<build, nextId, starts, cur, todo, tgt, par, del, down>>
  BY DEF Check, db
<1>3. Grows /\ Gentle
  BY <1>1, <1>2, NoChange
<1>4. \A u \in Requests \ {w} : Same(u)
  BY <1>1, <1>2 DEF Check, Same, TypeInv, TypeOK
<1>5. pc'[w] = Verdict(k, x) /\ nb'[w] = IF Verdict(k, x) = "unlock" THEN NoBuild ELSE x
  BY <1>1 DEF Check, TypeInv, TypeOK
<1>6. x \in Row /\ x # NoBuild /\ k \in Jobs
  BY <1>1 DEF TypeInv, TypeOK, ObjectsOK, Row, NoBuild, NoId
<1>7. GoodRefs(build, nextId, x.parents)
  BY <1>1, <1>6 DEF LocalWell, NextWell, Found
<1>8. ASSUME NEW j \in Known(k, x.parents), ~Missing(k, x.parents)
      PROVE  RowOf(build, x.parents[j], j) /\ j \in JoinSrc(k) /\ j \in Jobs
  BY <1>7, <1>8 DEF Known, Missing, GoodRefs, Refers, JoinSrc
<1>9. Verdict(k, x) \in {"unlock", "drop", "start"}
  BY DEF Verdict
<1>10. ASSUME Verdict(k, x) = "start"
       PROVE  x.status = "CREATED" /\ \A j \in JoinSrc(k) : Succ(build, x.parents[j], j)
  <2>1. /\ ~Missing(k, x.parents) /\ Done(k, x.parents)
        /\ x.status = "CREATED" /\ ~HasFailure(k, x.parents)
    BY <1>10 DEF Verdict
  <2>2. ASSUME NEW j \in JoinSrc(k) PROVE Succ(build, x.parents[j], j)
    <3>1. j \in Known(k, x.parents)
      BY <2>1 DEF Done
    <3>2. build[x.parents[j]].status \in Ended /\ build[x.parents[j]].status \notin Failed
      BY <2>1, <3>1 DEF Done, HasFailure
    <3> QED
      BY <1>8, <2>1, <3>1, <3>2 DEF Succ, Ended, Failed
  <2> QED
    BY <2>1, <2>2
<1>11. ASSUME Verdict(k, x) = "drop"
       PROVE  x.status = "CREATED" /\ Doomed(build, k)
  <2>1. /\ ~Missing(k, x.parents) /\ x.status = "CREATED" /\ HasFailure(k, x.parents)
    BY <1>11 DEF Verdict
  <2>2. PICK j \in Known(k, x.parents) : build[x.parents[j]].status \in Failed
    BY <2>1 DEF HasFailure
  <2>3. Has(build, j, Failed) /\ j \in JoinSrc(k) /\ j \in Jobs
    BY <1>8, <2>1, <2>2 DEF Has, RowOf
  <2>4. k \in NextJobs(j)
    BY <1>6, <2>3 DEF JoinSrc, NextJobs
  <2> QED
    BY <2>1, <2>3, <2>4 DEF Doomed
<1>12. /\ {"check", "unlock", "drop", "start"} \subseteq Critical \ {"find"}
       /\ {"check", "unlock", "drop", "start"} \subseteq Trig
  BY DEF Critical, Trig
<1>13. CurWell(w)' /\ TargetWell(w)' /\ DelWell(w)'
  <2>1. pc'[w] \in Critical /\ pc'[w] \in Trig /\ pc'[w] # "remove"
    BY <1>5, <1>9, <1>12
  <2> QED
    BY <1>1, <1>2, <1>12, <2>1 DEF LocalWell, CurWell, TargetWell, DelWell
<1>14. NextWell(w)'
  BY <1>1, <1>2, <1>5, <1>9, <1>12 DEF LocalWell, NextWell
<1>15. StartWell(w)'
  BY <1>2, <1>5, <1>9, <1>10, <1>11 DEF StartWell
<1> QED
  BY <1>3, <1>4, <1>13, <1>14, <1>15, GentleStep DEF LocalWell

LEMMA UnlockStart ==
  ASSUME LockReliable, StartInv, [Next]_vars, NEW w \in Requests, Unlock(w)
  PROVE  StartInv' /\ Moves(w)
<1>1. TypeInv /\ LocalWell(w) /\ pc[w] = "unlock"
  BY DEF StartInv, Unlock
<1>2. UNCHANGED <<build, nextId, starts, cur, todo, tgt, par, del>>
  BY DEF Unlock, db
<1>3. Grows /\ Gentle
  BY <1>1, <1>2, NoChange
<1>4. \A u \in Requests \ {w} : Same(u)
  BY <1>1, <1>2 DEF Unlock, Same, TypeInv, TypeOK
<1>5. pc'[w] = "next" /\ nb'[w] = NoBuild
  BY <1>1 DEF Unlock, TypeInv, TypeOK
<1>6. \/ down'[w] = down[w]
      \/ down'[w] = down[w] \cup {nb[w]} /\ nb[w] # NoBuild /\ nb[w].status = "SUCCESS"
  BY <1>1 DEF Unlock, TypeInv, TypeOK
<1>7. ASSUME nb[w] # NoBuild, nb[w].status = "SUCCESS"
      PROVE  Held(build, nb[w], "SUCCESS") /\ GoodRefs(build, nextId, nb[w].parents)
  BY <1>1, <1>7 DEF LocalWell, NextWell, Found, SameRow, Held, RowOf
<1>8. {"next", "unlock"} \subseteq Trig /\ "next" \notin Critical
  BY DEF Critical, Trig
<1>9. CurWell(w)' /\ TargetWell(w)' /\ DelWell(w)'
  BY <1>1, <1>2, <1>5, <1>6, <1>7, <1>8 DEF LocalWell, CurWell, TargetWell, DelWell
<1>10. NextWell(w)' /\ StartWell(w)'
  BY <1>5 DEF NextWell, StartWell
<1> QED
  BY <1>3, <1>4, <1>9, <1>10, GentleStep DEF LocalWell

LEMMA ExecStart ==
  ASSUME LockReliable, StartInv, [Next]_vars, NEW w \in Requests, Exec(w)
  PROVE  StartInv' /\ Moves(w)
<1>1. TypeInv /\ LocalWell(w) /\ pc[w] = "exec" /\ tgt[w] \in Jobs
  BY DEF StartInv, Exec, TypeInv, TypeOK
<1>2. /\ UNCHANGED <<build, nextId, cur, todo, tgt, nb, par, del, down>>
      /\ starts' = [starts EXCEPT ![tgt[w]] = @ + 1] /\ pc' = [pc EXCEPT ![w] = "unlock"]
  BY DEF Exec
<1>3. Grows
  BY <1>1, <1>2, NoChange
<1>4. (\A u \in Requests \ {w} : Same(u)) /\ pc'[w] = "unlock"
  BY <1>1, <1>2 DEF Same, TypeInv, TypeOK
<1>5. StartsWell'
  <2>1. starts[tgt[w]] = 0 /\ Begun(build, tgt[w])
    BY <1>1 DEF LocalWell, StartWell
  <2>2. \A j \in Jobs : starts'[j] = IF j = tgt[w] THEN 1 ELSE starts[j]
    BY <1>1, <1>2, <2>1 DEF TypeInv, TypeOK
  <2> QED
    BY <1>2, <2>1, <2>2 DEF StartInv, StartsWell
<1>6. \A i \in DOMAIN build' : RowWell(build', nextId', build'[i])
  BY <1>2 DEF StartInv
<1>7. {"exec", "unlock"} \subseteq Trig /\ {"exec", "unlock"} \subseteq Critical \ {"find"}
  BY DEF Critical, Trig
<1>8. CurWell(w)' /\ TargetWell(w)' /\ DelWell(w)' /\ NextWell(w)' /\ StartWell(w)'
  BY <1>1, <1>2, <1>4, <1>7 DEF LocalWell, CurWell, TargetWell, DelWell, NextWell, StartWell
<1> QED
  BY <1>1, <1>3, <1>4, <1>5, <1>6, <1>7, <1>8, LockedStep DEF LocalWell

-----------------------------------------------------------------------------
(* The steps that create, start and remove *)

(* With joins and OR edges kept apart, a doomed job has no started build. *)
LEMMA DoomedWaits ==
  ASSUME Plain, StartInv, NEW j \in Jobs, Doomed(build, j),
         NEW i \in DOMAIN build, build[i].job = j
  PROVE  build[i].status = "CREATED"
<1> SUFFICES ASSUME build[i].status # "CREATED" PROVE FALSE
  OBVIOUS
<1>1. WasReady(build, build[i])
  BY DEF StartInv, RowWell
<1>2. PICK f \in Jobs : j \in NextJobs(f) /\ Has(build, f, Failed)
  BY DEF Doomed
<1>3. OneBuildPerJob
  BY DEF StartInv, Mutex
<1>4. ~Has(build, f, {"SUCCESS"})
  BY <1>2, <1>3 DEF Has, Failed, OneBuildPerJob
<1>5. f \in JoinSrc(j) \/ IsOr(f, j)
  BY <1>2 DEF NextJobs, JoinSrc, IsOr
<1>6. f \notin JoinSrc(j)
  BY <1>1, <1>4 DEF WasReady, Succ, RowOf, Has
<1>7. IsOr(f, j) /\ j \in Virtual
  BY <1>5, <1>6 DEF Plain, Doomed
<1> QED
  BY <1>1, <1>4, <1>7 DEF WasReady

(* A row whose status and parents a step leaves alone is as it has to be. *)
LEMMA RowLasts ==
  ASSUME StartInv, Grows, NEW i \in DOMAIN build, i \in DOMAIN build',
         build'[i].parents = build[i].parents,
         (build[i].status = "CREATED") <=> (build'[i].status = "CREATED")
  PROVE  RowWell(build', nextId', build'[i])
<1>1. TypeInv /\ RowWell(build, nextId, build[i]) /\ build'[i].job = build[i].job
  BY DEF StartInv, Grows
<1>2. {"SUCCESS"} \in SUBSET Ended
  BY DEF Ended
<1>3. WasReady(build, build[i]) => WasReady(build', build'[i])
  BY <1>1, <1>2, Lasts DEF WasReady
<1> QED
  BY <1>1, <1>3, Lasts DEF RowWell

(* An AND target has join sources, and then no other ones. *)
LEMMA TargetKind ==
  ASSUME Plain, TypeInv, NEW w \in Requests, LocalWell(w), pc[w] \in Critical
  PROVE  /\ tgt[w] \in Jobs /\ cur[w].job \in Jobs
         /\ IsOr(cur[w].job, tgt[w]) => JoinSrc(tgt[w]) = {}
         /\ ~IsOr(cur[w].job, tgt[w]) => /\ cur[w].job \in JoinSrc(tgt[w])
                                         /\ \A j \in Jobs : ~IsOr(j, tgt[w])
<1>1. tgt[w] \in NextJobs(cur[w].job) /\ cur[w] \in Row /\ tgt[w] \in Jobs
  BY DEF LocalWell, TargetWell, TypeInv, TypeOK, ObjectsOK, Critical
<1>2. cur[w].job \in Jobs
  BY <1>1 DEF Row
<1> QED
  BY <1>1, <1>2 DEF Plain, NextJobs, JoinSrc, IsOr

LEMMA DropStart ==
  ASSUME LockReliable, Plain, StartInv, [Next]_vars, NEW w \in Requests, Drop(w)
  PROVE  StartInv' /\ Moves(w)
<1>1. TypeInv /\ LocalWell(w) /\ pc[w] = "drop" /\ tgt[w] \in Jobs
  BY DEF StartInv, Drop, TypeInv, TypeOK
<1>2. /\ UNCHANGED <<nextId, starts, cur, todo, tgt, par, del, down>>
      /\ build' = Without(nb[w].id) /\ nb' = [nb EXCEPT ![w] = NoBuild]
      /\ pc' = [pc EXCEPT ![w] = "unlock"]
  BY DEF Drop
<1>3. Doomed(build, tgt[w]) /\ nb[w] # NoBuild /\ Found(build, nextId, nb[w], tgt[w])
  BY <1>1 DEF LocalWell, StartWell, NextWell, TypeInv, ObjectsOK, Row, NoBuild, NoId
<1>4. /\ DOMAIN build' = DOMAIN build \ {nb[w].id} /\ nextId \in Nat
      /\ \A i \in DOMAIN build' : build'[i] = build[i]
  BY <1>1, <1>2 DEF Without, TypeInv, TypeOK
<1>5. nb[w].id \in DOMAIN build => RowOf(build, nb[w].id, tgt[w])
  BY <1>3 DEF Found, RowOf
<1>6. Grows /\ Gentle
  BY <1>2, <1>3, <1>4, <1>5, <1>1, DoomedWaits DEF Grows, Gentle, RowOf
<1>7. (\A u \in Requests \ {w} : Same(u)) /\ pc'[w] = "unlock" /\ nb'[w] = NoBuild
  BY <1>1, <1>2 DEF Same, TypeInv, TypeOK
<1>8. {"drop", "unlock"} \subseteq Trig /\ {"drop", "unlock"} \subseteq Critical
  BY DEF Critical, Trig
<1>9. CurWell(w)' /\ DelWell(w)'
  BY <1>1, <1>2, <1>6, <1>7, <1>8, Carried DEF CurWell, DelWell
<1>10. TargetWell(w)' /\ NextWell(w)' /\ StartWell(w)'
  BY <1>1, <1>2, <1>7, <1>8 DEF LocalWell, TargetWell, NextWell, StartWell
<1> QED
  BY <1>6, <1>7, <1>9, <1>10, GentleStep DEF LocalWell

(* Nothing that a request is about to start is doomed, so its row is there. *)
LEMMA StartedRow ==
  ASSUME Plain, StartInv, NEW w \in Requests, pc[w] = "start"
  PROVE  /\ RowOf(build, nb[w].id, tgt[w]) /\ nb[w] # NoBuild
         /\ build[nb[w].id].status = "CREATED" /\ build[nb[w].id].parents = nb[w].parents
         /\ ~Doomed(build, tgt[w])
<1> DEFINE k == tgt[w]
<1>1. TypeInv /\ LocalWell(w) /\ OneBuildPerJob
  BY DEF StartInv, Mutex
<1>2. /\ k \in Jobs /\ cur[w].job \in Jobs
      /\ IsOr(cur[w].job, k) => JoinSrc(k) = {}
      /\ ~IsOr(cur[w].job, k) => \A j \in Jobs : ~IsOr(j, k)
  BY <1>1, TargetKind DEF Critical
<1>3. Held(build, cur[w], "SUCCESS")
  BY <1>1 DEF LocalWell, CurWell, Trig, Critical
<1>4. ~Doomed(build, k)
  <2> SUFFICES ASSUME JoinSrc(k) # {} \/ k \in Virtual,
                      NEW f \in Jobs, k \in NextJobs(f), Has(build, f, Failed)
               PROVE  FALSE
    BY DEF Doomed
  <2>1. ASSUME NEW i \in DOMAIN build, build[i].job = f, build[i].status = "SUCCESS" PROVE FALSE
    BY <1>1, <2>1 DEF Has, Failed, OneBuildPerJob
  <2>2. CASE IsOr(cur[w].job, k)
    <3>1. IsOr(f, k) /\ k \in Virtual
      BY <1>2, <2>2 DEF NextJobs, JoinSrc, IsOr
    <3>2. f = cur[w].job
      BY <1>2, <2>2, <3>1 DEF Plain
    <3> QED
      BY <1>3, <2>1, <3>2 DEF Held, RowOf
  <2>3. CASE ~IsOr(cur[w].job, k)
    <3>1. f \in JoinSrc(k)
      BY <1>2, <2>3 DEF NextJobs, JoinSrc, IsOr
    <3>2. Succ(build, nb[w].parents[f], f)
      BY <1>1, <2>3, <3>1 DEF LocalWell, StartWell
    <3> QED
      BY <2>1, <3>2 DEF Succ, RowOf
  <2> QED
    BY <2>2, <2>3
<1>5. nb[w] # NoBuild /\ Found(build, nextId, nb[w], k) /\ nb[w].status = "CREATED"
  BY <1>1 DEF LocalWell, NextWell, StartWell, TypeInv, ObjectsOK, Row, NoBuild, NoId
<1> QED
  BY <1>4, <1>5 DEF Found, RowOf, SameRow

LEMMA StartStart ==
  ASSUME LockReliable, Plain, StartInv, [Next]_vars, NEW w \in Requests, Start(w)
  PROVE  StartInv' /\ Moves(w)
<1> DEFINE k == tgt[w]
           x == nb[w].id
           s == IF k \in Virtual THEN "SUCCESS" ELSE "QUEUED"
<1>1. TypeInv /\ LocalWell(w) /\ pc[w] = "start" /\ OneBuildPerJob /\ nextId \in Nat
  BY DEF StartInv, Start, Mutex, TypeInv, TypeOK
<1>2. /\ UNCHANGED <<nextId, starts, cur, todo, tgt, par, del, down>>
      /\ build' = WithStatus(x, s) /\ nb' = [nb EXCEPT ![w].status = s]
      /\ pc' = [pc EXCEPT ![w] = IF k \in Virtual THEN "unlock" ELSE "exec"]
  BY DEF Start
<1>3. /\ RowOf(build, x, k) /\ nb[w] # NoBuild /\ ~Doomed(build, k)
      /\ build[x].status = "CREATED" /\ build[x].parents = nb[w].parents
  BY <1>1, StartedRow
<1>4. s \in {"SUCCESS", "QUEUED"} /\ s \in Status \ {"CREATED"}
  BY DEF Status
<1>5. /\ DOMAIN build' = DOMAIN build
      /\ \A i \in DOMAIN build : /\ build'[i].job = build[i].job
                                 /\ build'[i].parents = build[i].parents
                                 /\ build'[i].status = IF i = x THEN s ELSE build[i].status
  BY <1>1, <1>2, <1>4, StatusRows
<1>6. Grows
  BY <1>1, <1>2, <1>3, <1>4, <1>5 DEF Grows, RowOf, Ended
<1>7. \A u \in Requests \ {w} : Same(u)
  BY <1>1, <1>2 DEF Same, TypeInv, TypeOK
<1>8. /\ nb[w] \in Row /\ nb'[w] = [nb[w] EXCEPT !.status = s]
      /\ pc'[w] = IF k \in Virtual THEN "unlock" ELSE "exec"
  BY <1>1, <1>2 DEF TypeInv, TypeOK, ObjectsOK
<1>9. /\ nb'[w].id = x /\ nb'[w].job = nb[w].job /\ nb'[w].parents = nb[w].parents
      /\ nb'[w].status = s
  BY <1>8 DEF Row
<1>10. /\ k \in Jobs /\ cur[w].job \in Jobs
       /\ IsOr(cur[w].job, k) => JoinSrc(k) = {}
       /\ ~IsOr(cur[w].job, k) => \A j \in Jobs : ~IsOr(j, k)
  BY <1>1, TargetKind DEF Critical
<1>11. WasReady(build', build'[x])
  <2>1. build'[x].job = k /\ build'[x].parents = nb[w].parents
    BY <1>3, <1>5 DEF RowOf
  <2>2. \A j \in JoinSrc(k) : Succ(build', nb[w].parents[j], j)
    BY <1>1, <1>6, <1>10, Lasts DEF LocalWell, StartWell
  <2>3. ASSUME k \in Virtual, NEW f \in Jobs, IsOr(f, k) PROVE Has(build', f, {"SUCCESS"})
    <3>1. f = cur[w].job
      BY <1>10, <2>3 DEF Plain
    <3>2. Held(build', cur[w], "SUCCESS")
      BY <1>1, <1>6, Carried DEF Trig, Critical
    <3> QED
      BY <3>1, <3>2 DEF Held, RowOf, Has
  <2> QED
    BY <2>1, <2>2, <2>3 DEF WasReady
<1>12. ASSUME NEW i \in DOMAIN build' PROVE RowWell(build', nextId', build'[i])
  <2>1. CASE i = x
    <3>1. RowWell(build, nextId, build[x])
      BY <1>3 DEF StartInv, RowOf
    <3> QED
      BY <1>1, <1>3, <1>4, <1>5, <1>6, <1>11, <2>1, <3>1, Lasts DEF RowWell, RowOf
  <2>2. CASE i # x
    BY <1>5, <1>6, <1>12, <2>2, RowLasts
  <2> QED
    BY <2>1, <2>2
<1>13. Begun(build', k) /\ starts[k] = 0
  <2>1. Begun(build', k)
    BY <1>3, <1>4, <1>5 DEF Begun, RowOf
  <2>2. ~Begun(build, k)
    BY <1>1, <1>3 DEF Begun, RowOf, OneBuildPerJob
  <2>3. starts[k] \in Nat /\ ~(starts[k] > 0)
    BY <1>1, <1>10, <2>2 DEF StartInv, StartsWell, TypeInv, TypeOK
  <2> QED
    BY <2>1, <2>3
<1>14. StartsWell'
  BY <1>1, <1>2, <1>6, Lasts DEF StartInv, StartsWell
<1>15. /\ {"start", "unlock", "exec"} \subseteq Critical \ {"find"}
       /\ {"start", "unlock", "exec"} \subseteq Trig
  BY DEF Critical, Trig
<1>16. NextWell(w)'
  <2>1. Found(build, nextId, nb[w], k)
    BY <1>1, <1>3 DEF LocalWell, NextWell
  <2>2. GoodRefs(build', nextId', nb'[w].parents) /\ Given(nextId', x)
    BY <1>1, <1>6, <1>9, <2>1, Lasts DEF Found
  <2>3. x \in DOMAIN build' /\ build'[x].job = k /\ SameRow(nb'[w], build'[x])
    BY <1>3, <1>4, <1>5, <1>9 DEF RowOf, SameRow
  <2>4. Found(build', nextId', nb'[w], k)
    BY <1>9, <2>1, <2>2, <2>3 DEF Found
  <2> QED
    BY <1>2, <1>8, <1>15, <2>4 DEF NextWell
<1>17. CurWell(w)' /\ DelWell(w)'
  BY <1>1, <1>2, <1>6, <1>8, <1>15, Carried DEF CurWell, DelWell
<1>18. TargetWell(w)' /\ StartWell(w)'
  BY <1>1, <1>2, <1>8, <1>13, <1>15 DEF LocalWell, TargetWell, StartWell
<1> QED
  BY <1>1, <1>6, <1>7, <1>12, <1>14, <1>15, <1>16, <1>17, <1>18, LockedStep DEF LocalWell

(* A new build takes nothing away, and it is the first of its job. *)
LEMMA CreateStart ==
  ASSUME LockReliable, StartInv, [Next]_vars, NEW w \in Requests, pc[w] = "store",
         nb[w] = NoBuild, NEW started \in BOOLEAN, CreateBuild(w, started),
         NEW l \in {"start", "exec", "check"}, pc' = [pc EXCEPT ![w] = l],
         UNCHANGED <<starts, lock, cur, todo, tgt, par, del, down>>,
         l = "start" => ~started /\ IsOr(cur[w].job, tgt[w]),
         l = "exec" => started,
         IF started THEN JoinSrc(tgt[w]) = {} /\ tgt[w] \notin Virtual
                    ELSE JoinSrc(tgt[w]) # {} \/ tgt[w] \in Virtual
  PROVE  StartInv' /\ Moves(w)
<1> DEFINE s == IF started THEN "QUEUED" ELSE "CREATED"
           r == [id |-> nextId, job |-> tgt[w], parents |-> par[w], status |-> s]
<1>1. /\ TypeInv /\ LocalWell(w) /\ nextId \in Nat /\ nextId \notin DOMAIN build
      /\ tgt[w] \in Jobs
  BY DEF StartInv, TypeInv, TypeOK
<1>2. build' = Inserted(r) /\ nextId' = nextId + 1 /\ nb' = [nb EXCEPT ![w] = r]
  BY DEF CreateBuild
<1>3. /\ r.id = nextId /\ r.job = tgt[w] /\ r.parents = par[w] /\ r.status = s
      /\ (s = "CREATED") <=> ~started
  OBVIOUS
<1> HIDE DEF s, r
<1>4. /\ DOMAIN build' = DOMAIN build \cup {nextId} /\ build'[nextId] = r
      /\ \A i \in DOMAIN build : build'[i] = build[i]
  BY <1>1, <1>2, <1>3 DEF Inserted
<1>5. Grows
  BY <1>1, <1>2, <1>4 DEF Grows
<1>6. (\A u \in Requests \ {w} : Same(u)) /\ pc'[w] = l /\ nb'[w] = r
  BY <1>1, <1>2 DEF Same, TypeInv, TypeOK
<1>7. GoodRefs(build', nextId', par[w]) /\ Given(nextId', nextId)
  BY <1>1, <1>2, <1>5, Carried DEF Given
<1>8. RowWell(build', nextId', r)
  <2>1. started => WasReady(build', r)
    BY <1>3 DEF WasReady
  <2> QED
    BY <1>3, <1>7, <2>1 DEF RowWell
<1>9. \A i \in DOMAIN build' : RowWell(build', nextId', build'[i])
  BY <1>4, <1>5, <1>8, RowLasts
<1>10. StartsWell'
  BY <1>1, <1>5, Lasts DEF StartInv, StartsWell
<1>11. starts[tgt[w]] = 0
  <2>1. ~Begun(build, tgt[w])
    BY DEF StartInv, Mutex, AbsentAtStore, RowsOf, Begun
  <2>2. starts[tgt[w]] \in Nat /\ ~(starts[tgt[w]] > 0)
    BY <1>1, <2>1 DEF StartInv, StartsWell, TypeInv, TypeOK
  <2> QED
    BY <2>2
<1>12. started => Begun(build', tgt[w])
  BY <1>3, <1>4 DEF Begun
<1>13. /\ {"store", "start", "exec", "check"} \subseteq Critical
       /\ {"start", "exec", "check"} \subseteq Critical \ {"find"}
       /\ {"store", "start", "exec", "check"} \subseteq Trig
  BY DEF Critical, Trig
<1>14. CurWell(w)' /\ DelWell(w)'
  BY <1>5, <1>6, <1>13, Carried DEF CurWell, DelWell
<1>15. TargetWell(w)' /\ StartWell(w)'
  BY <1>1, <1>3, <1>6, <1>11, <1>12, <1>13 DEF LocalWell, TargetWell, StartWell
<1>16. NextWell(w)'
  <2>1. Found(build', nextId', r, tgt[w])
    BY <1>3, <1>4, <1>7 DEF Found, SameRow
  <2> QED
    BY <1>6, <1>13, <2>1 DEF NextWell
<1> QED
  BY <1>5, <1>6, <1>9, <1>10, <1>13, <1>14, <1>15, <1>16, LockedStep DEF LocalWell

LEMMA StoreOrStart ==
  ASSUME LockReliable, Plain, StartInv, [Next]_vars, NEW w \in Requests, StoreOr(w)
  PROVE  StartInv' /\ Moves(w)
<1>1. /\ TypeInv /\ LocalWell(w) /\ pc[w] = "store" /\ IsOr(cur[w].job, tgt[w])
      /\ UNCHANGED <<starts, lock, cur, todo, tgt, par, del, down>>
  BY DEF StartInv, StoreOr
<1>2. CASE nb[w] = NoBuild /\ tgt[w] \notin Disabled
  <2>1. JoinSrc(tgt[w]) = {}
    BY <1>1, TargetKind DEF Critical
  <2>2. PICK l \in {"start", "exec"} :
          pc' = [pc EXCEPT ![w] = l] /\ (l = "start" <=> tgt[w] \in Virtual)
    BY <1>2 DEF StoreOr
  <2>3. PICK started \in BOOLEAN : started <=> tgt[w] \notin Virtual
    OBVIOUS
  <2>4. CreateBuild(w, started)
    BY <1>2, <2>3 DEF StoreOr, CreateBuild
  <2> QED
    BY <1>1, <1>2, <2>1, <2>2, <2>3, <2>4, CreateStart
<1>3. CASE ~(nb[w] = NoBuild /\ tgt[w] \notin Disabled)
  <2>1. UNCHANGED <<build, nextId, nb>>
    BY <1>3 DEF StoreOr
  <2>2. PICK l \in {"start", "unlock"} :
          pc' = [pc EXCEPT ![w] = l] /\ (l = "start" => nb[w].status = "CREATED")
    BY <1>3 DEF StoreOr
  <2>3. Grows /\ Gentle
    BY <1>1, <2>1, NoChange
  <2>4. (\A u \in Requests \ {w} : Same(u)) /\ pc'[w] = l
    BY <1>1, <2>1, <2>2 DEF Same, TypeInv, TypeOK
  <2>5. /\ {"store", "start", "unlock"} \subseteq Critical \ {"find"}
        /\ {"store", "start", "unlock"} \subseteq Trig
    BY DEF Critical, Trig
  <2>6. CurWell(w)' /\ TargetWell(w)' /\ DelWell(w)'
    BY <1>1, <2>1, <2>4, <2>5 DEF LocalWell, CurWell, TargetWell, DelWell
  <2>7. NextWell(w)' /\ StartWell(w)'
    BY <1>1, <2>1, <2>2, <2>4, <2>5 DEF LocalWell, NextWell, StartWell
  <2> QED
    BY <2>3, <2>4, <2>6, <2>7, GentleStep DEF LocalWell
<1> QED
  BY <1>2, <1>3

(* updateParentBuilds writes the parents of a row that may have been started: *)
(* what is known now is what was known then.                                  *)
LEMMA MergeStart ==
  ASSUME LockReliable, Plain, StartInv, [Next]_vars, NEW w \in Requests, pc[w] = "store",
         nb[w] # NoBuild, NEW p, p = MergedParents(par[w], nb[w].parents),
         build' = WithParents(nb[w].id, p), nb' = [nb EXCEPT ![w].parents = p],
         pc' = [pc EXCEPT ![w] = "check"],
         UNCHANGED <<nextId, starts, lock, cur, todo, tgt, par, del, down>>
  PROVE  StartInv' /\ Moves(w)
<1> DEFINE k == tgt[w]
           x == nb[w].id
<1>1. /\ TypeInv /\ LocalWell(w) /\ OneBuildPerJob /\ nextId \in Nat /\ nb[w] \in Row
      /\ par[w] \in Parents
  BY DEF StartInv, Mutex, TypeInv, TypeOK
<1>2. /\ DOMAIN build' = DOMAIN build
      /\ \A i \in DOMAIN build : /\ build'[i].job = build[i].job
                                 /\ build'[i].status = build[i].status
                                 /\ build'[i].parents = IF i = x THEN p ELSE build[i].parents
  BY <1>1 DEF WithParents, TypeInv, TypeOK, Row
<1>3. Grows
  BY <1>1, <1>2 DEF Grows
<1>4. (\A u \in Requests \ {w} : Same(u)) /\ pc'[w] = "check"
      /\ nb'[w] = [nb[w] EXCEPT !.parents = p]
  BY <1>1 DEF Same, TypeInv, TypeOK
<1>5. nb'[w].id = x /\ nb'[w].job = nb[w].job /\ nb'[w].parents = p /\ nb'[w].status = nb[w].status
  BY <1>1, <1>4 DEF Row
<1>6. Found(build, nextId, nb[w], k)
  BY <1>1 DEF LocalWell, NextWell
<1>7. \A j \in Jobs : p[j] = IF par[w][j] # NoId THEN par[w][j] ELSE nb[w].parents[j]
  BY DEF MergedParents
<1>8. GoodRefs(build, nextId, p) /\ GoodRefs(build', nextId', p)
  <2>1. GoodRefs(build, nextId, par[w]) /\ GoodRefs(build, nextId, nb[w].parents)
    BY <1>1, <1>6 DEF LocalWell, CurWell, Found
  <2>2. GoodRefs(build, nextId, p)
    BY <1>7, <2>1 DEF GoodRefs
  <2> QED
    BY <1>1, <1>3, <2>2, Lasts
<1>9. ASSUME NEW i \in DOMAIN build' PROVE RowWell(build', nextId', build'[i])
  <2>1. CASE i # x
    BY <1>2, <1>3, <1>9, <2>1, RowLasts
  <2>2. CASE i = x
    <3>1. /\ RowWell(build, nextId, build[x]) /\ build[x].job = k
          /\ build[x].parents = nb[w].parents /\ x \in DOMAIN build
      BY <1>2, <1>6, <1>9, <2>2 DEF StartInv, Found, SameRow
    <3>2. ASSUME WasReady(build, build[x]) PROVE WasReady(build', build'[x])
      <4>1. ASSUME NEW j \in JoinSrc(k) PROVE Succ(build, p[j], j)
        <5>1. Succ(build, nb[w].parents[j], j) /\ j \in Jobs
          BY <3>1, <3>2, <4>1 DEF WasReady, JoinSrc
        <5>2. CASE par[w][j] = NoId
          BY <1>7, <5>1, <5>2
        <5>3. CASE par[w][j] # NoId
          <6>1. Refers(build, nextId, par[w][j], j)
            BY <1>1, <5>1, <5>3 DEF LocalWell, CurWell, GoodRefs
          <6>2. ~Doomed(build, j)
            BY <5>1, DoomedWaits DEF Succ, RowOf
          <6>3. par[w][j] = nb[w].parents[j]
            BY <1>1, <5>1, <6>1, <6>2 DEF Refers, RowOf, Succ, OneBuildPerJob
          <6> QED
            BY <1>7, <5>1, <6>3
        <5> QED
          BY <5>2, <5>3
      <4>2. {"SUCCESS"} \in SUBSET Ended
        BY DEF Ended
      <4>3. build'[x].job = k /\ build'[x].parents = p
        BY <1>2, <3>1
      <4>4. \A j \in JoinSrc(k) : Succ(build', p[j], j)
        BY <1>1, <1>3, <4>1, Lasts
      <4>5. k \in Virtual => \A f \in Jobs : IsOr(f, k) => Has(build', f, {"SUCCESS"})
        BY <1>1, <1>3, <3>1, <3>2, <4>2, Lasts DEF WasReady
      <4> QED
        BY <4>3, <4>4, <4>5 DEF WasReady
    <3> QED
      BY <1>2, <1>8, <2>2, <3>1, <3>2 DEF RowWell
  <2> QED
    BY <2>1, <2>2
<1>10. StartsWell'
  BY <1>1, <1>3, Lasts DEF StartInv, StartsWell
<1>11. {"store", "check"} \subseteq Critical \ {"find"} /\ {"store", "check"} \subseteq Trig
  BY DEF Critical, Trig
<1>12. CurWell(w)' /\ DelWell(w)'
  BY <1>3, <1>4, <1>11, Carried DEF CurWell, DelWell
<1>13. TargetWell(w)' /\ StartWell(w)'
  BY <1>1, <1>4, <1>11 DEF LocalWell, TargetWell, StartWell
<1>14. NextWell(w)'
  <2>1. Given(nextId', x)
    BY <1>6 DEF Found
  <2>2. x \in DOMAIN build' => build'[x].job = k /\ SameRow(nb'[w], build'[x])
    BY <1>2, <1>5, <1>6 DEF Found, SameRow
  <2>3. x \notin DOMAIN build' => Empty(build', k) /\ Doomed(build', k) /\ nb[w].status = "CREATED"
    BY <1>1, <1>2, <1>3, <1>6, Lasts DEF Found, Empty
  <2>4. Found(build', nextId', nb'[w], k)
    BY <1>5, <1>6, <1>8, <2>1, <2>2, <2>3 DEF Found
  <2> QED
    BY <1>4, <1>11, <2>4 DEF NextWell
<1> QED
  BY <1>3, <1>4, <1>9, <1>10, <1>11, <1>12, <1>13, <1>14, LockedStep DEF LocalWell

LEMMA StoreAndStart ==
  ASSUME LockReliable, Plain, StartInv, [Next]_vars, NEW w \in Requests, StoreAnd(w)
  PROVE  StartInv' /\ Moves(w)
<1>1. /\ TypeInv /\ LocalWell(w) /\ pc[w] = "store" /\ ~IsOr(cur[w].job, tgt[w])
      /\ UNCHANGED <<starts, lock, cur, todo, tgt, par, del, down>>
  BY DEF StartInv, StoreAnd
<1>2. CASE nb[w] = NoBuild /\ tgt[w] \notin Disabled
  <2>1. JoinSrc(tgt[w]) # {}
    BY <1>1, TargetKind DEF Critical
  <2>2. CreateBuild(w, FALSE) /\ pc' = [pc EXCEPT ![w] = "check"]
    BY <1>2 DEF StoreAnd
  <2> QED
    BY <1>1, <1>2, <2>1, <2>2, CreateStart
<1>3. CASE nb[w] = NoBuild /\ tgt[w] \in Disabled
  <2>1. UNCHANGED <<build, nextId, nb>> /\ pc' = [pc EXCEPT ![w] = "unlock"]
    BY <1>3 DEF StoreAnd
  <2>2. Grows /\ Gentle
    BY <1>1, <2>1, NoChange
  <2>3. (\A u \in Requests \ {w} : Same(u)) /\ pc'[w] = "unlock"
    BY <1>1, <2>1 DEF Same, TypeInv, TypeOK
  <2>4. {"store", "unlock"} \subseteq Critical \ {"find"} /\ {"store", "unlock"} \subseteq Trig
    BY DEF Critical, Trig
  <2>5. CurWell(w)' /\ TargetWell(w)' /\ DelWell(w)'
    BY <1>1, <2>1, <2>3, <2>4 DEF LocalWell, CurWell, TargetWell, DelWell
  <2>6. NextWell(w)' /\ StartWell(w)'
    BY <1>3, <2>1, <2>3 DEF NextWell, StartWell
  <2> QED
    BY <2>2, <2>3, <2>5, <2>6, GentleStep DEF LocalWell
<1>4. CASE nb[w] # NoBuild
  BY <1>1, <1>4, MergeStart DEF StoreAnd
<1> QED
  BY <1>2, <1>3, <1>4

LEMMA StepStart ==
  ASSUME LockReliable, Plain, StartInv, [Next]_vars, NEW w \in Requests, Step(w)
  PROVE  StartInv' /\ Moves(w)
BY RemoveReadStart, RemoveRowStart, ForgetStart, LockNextStart, FindStart, StoreOrStart,
   StoreAndStart, CheckStart, DropStart, StartStart, ExecStart, UnlockStart, DescendStart
   DEF Step

LEMMA NextStart == LockReliable /\ Plain /\ StartInv /\ [Next]_vars => StartInv' /\ Grows
<1> SUFFICES ASSUME LockReliable, Plain, StartInv, [Next]_vars PROVE StartInv' /\ Grows
  OBVIOUS
<1>1. ASSUME NEW w \in Requests, NEW b \in DOMAIN build, NEW s \in Outcomes, Finish(w, b, s)
      PROVE  StartInv' /\ Grows
  <2>1. s \in Ended
    BY OutcomeAssumption DEF Ended
  <2> QED
    BY <1>1, <2>1, EndBuildStart DEF Finish, Moves
<1>2. ASSUME NEW w \in Requests, NEW b \in DOMAIN build, BypassRoot(w, b)
      PROVE  StartInv' /\ Grows
  <2>1. "SUCCESS" \in Ended
    BY DEF Ended
  <2> QED
    BY <1>2, <2>1, EndBuildStart DEF BypassRoot, Moves
<1>3. ASSUME NEW w \in Requests, Step(w) PROVE StartInv' /\ Grows
  BY <1>3, StepStart DEF Moves
<1>4. CASE UNCHANGED vars
  <2>1. TypeInv' /\ Mutex' /\ TypeInv
    BY NextType, NextMutex DEF StartInv
  <2>2. UNCHANGED <<build, nextId, starts, pc, cur, todo, tgt, nb, par, del, down>>
    BY <1>4 DEF vars
  <2>3. StartsWell' /\ \A i \in DOMAIN build' : RowWell(build', nextId', build'[i])
    BY <2>2 DEF StartInv, StartsWell
  <2>4. \A w \in Requests : LocalWell(w)'
    BY <2>2 DEF StartInv, LocalWell, CurWell, TargetWell, DelWell, NextWell, StartWell
  <2> QED
    BY <2>1, <2>2, <2>3, <2>4, NoChange DEF StartInv
<1> QED
  BY <1>1, <1>2, <1>3, <1>4 DEF Next

LEMMA InitStart == Init => StartInv
<1> SUFFICES ASSUME Init PROVE StartInv
  OBVIOUS
<1>1. PICK ids \in [Roots -> 1..Cardinality(Roots)] :
        /\ \A j, k \in Roots : ids[j] = ids[k] => j = k
        /\ build = [i \in {ids[j] : j \in Roots} |->
                      LET j == CHOOSE k \in Roots : ids[k] = i
                      IN  [id |-> i, job |-> j,
                           status |-> IF j \in Virtual THEN "CREATED" ELSE "QUEUED",
                           parents |-> [k \in Jobs |-> NoId]]]
  BY DEF Init
<1>2. ASSUME NEW j \in Roots
      PROVE  /\ ids[j] \in DOMAIN build /\ build[ids[j]].job = j
             /\ build[ids[j]].parents = [k \in Jobs |-> NoId]
             /\ build[ids[j]].status = IF j \in Virtual THEN "CREATED" ELSE "QUEUED"
  <2>1. ids[j] \in {ids[k] : k \in Roots}
    OBVIOUS
  <2>2. (CHOOSE k \in Roots : ids[k] = ids[j]) = j
    BY <1>1
  <2>3. build[ids[j]] = [id |-> ids[j], job |-> j,
                         status |-> IF j \in Virtual THEN "CREATED" ELSE "QUEUED",
                         parents |-> [k \in Jobs |-> NoId]]
    BY <1>1, <2>1, <2>2
  <2> QED
    BY <1>1, <2>1, <2>3
<1>3. \A p : p = [k \in Jobs |-> NoId] => GoodRefs(build, nextId, p)
  BY DEF GoodRefs
<1>4. ASSUME NEW i \in DOMAIN build PROVE RowWell(build, nextId, build[i])
  <2>1. PICK j \in Roots : i = ids[j]
    BY <1>1, <1>4
  <2>2. /\ build[i].job = j /\ build[i].parents = [k \in Jobs |-> NoId]
        /\ build[i].status = IF j \in Virtual THEN "CREATED" ELSE "QUEUED"
    BY <1>2, <2>1
  <2>3. JoinSrc(j) = {}
    BY DEF Roots, NextJobs, JoinSrc
  <2> QED
    BY <1>3, <2>2, <2>3 DEF RowWell, WasReady
<1>5. StartsWell
  <2> SUFFICES ASSUME NEW j \in Jobs PROVE starts[j] <= 1 /\ (starts[j] > 0 => Begun(build, j))
    BY DEF StartsWell
  <2>1. starts[j] = IF j \in Roots \ Virtual THEN 1 ELSE 0
    BY DEF Init
  <2>2. CASE j \in Roots \ Virtual
    <3>1. build[ids[j]].job = j /\ ids[j] \in DOMAIN build /\ build[ids[j]].status = "QUEUED"
      BY <1>2, <2>2
    <3> QED
      BY <2>1, <2>2, <3>1 DEF Begun
  <2>3. CASE j \notin Roots \ Virtual
    BY <2>1, <2>3
  <2> QED
    BY <2>2, <2>3
<1>6. ASSUME NEW w \in Requests PROVE LocalWell(w)
  <2>1. /\ pc[w] = "idle" /\ cur[w] = NoBuild /\ nb[w] = NoBuild
        /\ par[w] = [k \in Jobs |-> NoId] /\ del[w] = {} /\ down[w] = {}
    BY DEF Init
  <2> QED
    BY <1>3, <2>1 DEF LocalWell, CurWell, TargetWell, DelWell, NextWell, StartWell, Trig, Critical
<1> QED
  BY <1>4, <1>5, <1>6, InitType, InitMutex DEF StartInv

LEMMA StartInvariant == ASSUME LockReliable, Plain PROVE Spec => []StartInv
<1>1. LockReliable /\ Plain /\ StartInv /\ [Next]_vars => StartInv'
  BY NextStart
<1>2. StartInv /\ [Next]_vars => StartInv'
  BY <1>1
<1> QED
  BY <1>2, InitStart, PTL DEF Spec

(* The executor is told at most once to start a job, whatever the number of *)
(* sources that end at the same time and of requests that look at it.       *)
THEOREM NoDoubleStart == ASSUME LockReliable, Plain PROVE Spec => []StartedOnce
<1>1. StartInv => StartedOnce
  BY DEF StartInv, StartsWell, StartedOnce
<1> QED
  BY <1>1, StartInvariant, PTL

(* A join is started only when all of its sources have succeeded, and its row *)
(* keeps naming them although every later source writes its parents again.    *)
THEOREM NoEarlyJoin == ASSUME LockReliable, Plain PROVE Spec => []JoinParentsSucceeded
<1>1. StartInv => JoinParentsSucceeded
  BY DEF StartInv, RowWell, WasReady, Succ, RowOf, JoinParentsSucceeded
<1> QED
  BY <1>1, StartInvariant, PTL

(* removeJoinBuilds reads a row and removes it later, without the lock; still *)
(* no started build is ever removed.                                          *)
THEOREM StartedStays == ASSUME LockReliable, Plain PROVE Spec => StartedNeverRemoved
<1> DEFINE Stays == \A i \in DOMAIN build : build[i].status # "CREATED" => i \in DOMAIN build'
<1>1. StartInv /\ [Next]_vars => [Stays]_vars
  BY NextStart DEF Grows
<1>2. StartedNeverRemoved <=> [][Stays]_vars
  BY DEF StartedNeverRemoved
<1> HIDE DEF Stays
<1> QED
  BY <1>1, <1>2, StartInvariant, PTL DEF Spec

-----------------------------------------------------------------------------
(***************************************************************************)
(* What the event promises                                                 *)
(*                                                                         *)
(* EventPromise knows neither requests nor rows that wait: of a table t it *)
(* sees the status of the builds that were started.  Creating, joining and *)
(* removing waiting builds are stutters; a step that writes a status is    *)
(* the beginning or the end of one job.                                    *)
(***************************************************************************)
Single(t) == \A i, k \in DOMAIN t : t[i].job = t[k].job => i = k

Story(t, j) == LET begun == {i \in DOMAIN t : t[i].job = j /\ t[i].status # "CREATED"}
               IN  IF begun = {} THEN "WAITING" ELSE t[CHOOSE i \in begun : TRUE].status

\* Only an event's first jobs have builds although they are disabled.
Enabled == \A i \in DOMAIN build : build[i].job \in Roots \/ build[i].job \notin Disabled

\* What an event lets begin, said of the rows.
DueRow(k) == \/ k \in Roots
             \/ /\ k \notin Disabled
                /\ \/ JoinSrc(k) # {} /\ \A j \in JoinSrc(k) : Has(build, j, {"SUCCESS"})
                   \/ \E j \in Jobs : IsOr(j, k) /\ Has(build, j, {"SUCCESS"})

LEMMA StoryOf ==
  ASSUME NEW t, Single(t)
  PROVE  /\ \A i \in DOMAIN t : t[i].status # "CREATED" => Story(t, t[i].job) = t[i].status
         /\ \A j : ~Begun(t, j) => Story(t, j) = "WAITING"
<1>1. ASSUME NEW i \in DOMAIN t, t[i].status # "CREATED"
      PROVE  Story(t, t[i].job) = t[i].status
  <2> DEFINE begun == {k \in DOMAIN t : t[k].job = t[i].job /\ t[k].status # "CREATED"}
  <2>1. begun = {i}
    BY <1>1 DEF Single
  <2>2. (CHOOSE k \in begun : TRUE) = i
    BY <2>1
  <2>3. begun # {}
    BY <2>1
  <2> QED
    BY <2>2, <2>3 DEF Story
<1>2. ASSUME NEW j, ~Begun(t, j) PROVE Story(t, j) = "WAITING"
  <2>1. {i \in DOMAIN t : t[i].job = j /\ t[i].status # "CREATED"} = {}
    BY <1>2 DEF Begun
  <2> QED
    BY <2>1 DEF Story
<1> QED
  BY <1>1, <1>2

(* A job whose started build is the same in two tables has the same story. *)
LEMMA StoryKept ==
  ASSUME NEW t, NEW u, Single(t), Single(u), NEW j,
         \A i \in DOMAIN t : t[i].job = j /\ t[i].status # "CREATED" =>
           i \in DOMAIN u /\ u[i].job = j /\ u[i].status = t[i].status,
         \A i \in DOMAIN u : u[i].job = j /\ u[i].status # "CREATED" =>
           i \in DOMAIN t /\ t[i].job = j /\ t[i].status # "CREATED"
  PROVE  Story(u, j) = Story(t, j)
<1>1. CASE Begun(t, j)
  <2>1. PICK i \in DOMAIN t : t[i].job = j /\ t[i].status # "CREATED"
    BY <1>1 DEF Begun
  <2>2. i \in DOMAIN u /\ u[i].job = j /\ u[i].status = t[i].status
    BY <2>1
  <2> QED
    BY <2>1, <2>2, StoryOf
<1>2. CASE ~Begun(t, j)
  <2>1. ~Begun(u, j)
    BY <1>2 DEF Begun
  <2> QED
    BY <1>2, <2>1, StoryOf
<1> QED
  BY <1>1, <1>2

(* The abstract state and its successor are the stories of the two tables. *)
LEMMA StateIsStory ==
  /\ [j \in Jobs |-> StateOf(j)] = [j \in Jobs |-> Story(build, j)]
  /\ [j \in Jobs |-> StateOf(j)]' = [j \in Jobs |-> Story(build', j)]
BY DEF StateOf, Story

(* A step that begins or ends one job is a step of EventPromise. *)
LEMMA PromisedStep ==
  ASSUME StartInv, NEW k \in Jobs, NEW v,
         \A j \in Jobs \ {k} : Story(build', j) = Story(build, j), Story(build', k) = v,
         \/ /\ Story(build, k) = "WAITING" /\ DueRow(k)
            /\ v = IF k \in Virtual THEN "SUCCESS" ELSE "QUEUED"
         \/ Story(build, k) = "QUEUED" /\ v \in Outcomes
  PROVE  Event!PromiseNext
<1> DEFINE now  == [j \in Jobs |-> Story(build, j)]
           then == [j \in Jobs |-> Story(build', j)]
<1>1. now = [j \in Jobs |-> StateOf(j)] /\ then = [j \in Jobs |-> StateOf(j)]'
  BY StateIsStory
<1>2. then = [now EXCEPT ![k] = v] /\ then[k] = v /\ now[k] = Story(build, k)
  OBVIOUS
<1>3. Single(build)
  BY DEF StartInv, Mutex, OneBuildPerJob, Single
<1>4. \A j \in Jobs : Has(build, j, {"SUCCESS"}) => now[j] = "SUCCESS"
  BY <1>3, StoryOf DEF Has
<1>5. Event!Requires(k) = JoinSrc(k) /\ JoinSrc(k) \subseteq Jobs
  BY DEF Event!Requires, JoinSrc
<1>6. k \in Roots => k \in Event!First
  BY DEF Roots, NextJobs, Event!First, Event!Requires, Event!AnyOf
<1>7. \A j \in Jobs : IsOr(j, k) => j \in Event!AnyOf(k)
  BY DEF IsOr, Event!AnyOf
<1>8. ASSUME DueRow(k) PROVE Event!Due(k)
  <2>1. CASE k \in Roots
    BY <1>6, <2>1 DEF Event!Due
  <2>2. CASE k \notin Disabled /\ JoinSrc(k) # {} /\ \A j \in JoinSrc(k) : Has(build, j, {"SUCCESS"})
    BY <1>1, <1>4, <1>5, <2>2 DEF Event!Due
  <2>3. CASE k \notin Disabled /\ \E j \in Jobs : IsOr(j, k) /\ Has(build, j, {"SUCCESS"})
    BY <1>1, <1>4, <1>7, <2>3 DEF Event!Due
  <2> QED
    BY <1>8, <2>1, <2>2, <2>3 DEF DueRow
<1> HIDE DEF now, then
<1>9. CASE /\ Story(build, k) = "WAITING" /\ DueRow(k)
           /\ v = IF k \in Virtual THEN "SUCCESS" ELSE "QUEUED"
  BY <1>1, <1>2, <1>8, <1>9 DEF Event!Begin, Event!PromiseNext
<1>10. CASE Story(build, k) = "QUEUED" /\ v \in Outcomes
  BY <1>1, <1>2, <1>10 DEF Event!End, Event!PromiseNext
<1> QED
  BY <1>9, <1>10

(* A step that writes no status of a started build is not seen. *)
LEMMA PromiseStutter ==
  ASSUME StartInv, StartInv', Grows,
         \A i \in DOMAIN build' : i \in DOMAIN build => build'[i].status = build[i].status,
         \A i \in DOMAIN build' : i \notin DOMAIN build => build'[i].status = "CREATED"
  PROVE  UNCHANGED [j \in Jobs |-> StateOf(j)]
<1>1. Single(build) /\ Single(build')
  BY DEF StartInv, Mutex, OneBuildPerJob, Single
<1>2. \A j \in Jobs : Story(build', j) = Story(build, j)
  <2> SUFFICES ASSUME NEW j \in Jobs PROVE Story(build', j) = Story(build, j)
    OBVIOUS
  <2>1. \A i \in DOMAIN build : build[i].job = j /\ build[i].status # "CREATED" =>
           i \in DOMAIN build' /\ build'[i].job = j /\ build'[i].status = build[i].status
    BY DEF Grows
  <2>2. \A i \in DOMAIN build' : build'[i].job = j /\ build'[i].status # "CREATED" =>
           i \in DOMAIN build /\ build[i].job = j /\ build[i].status # "CREATED"
    BY DEF Grows
  <2> QED
    BY <1>1, <2>1, <2>2, StoryKept
<1> QED
  BY <1>2, StateIsStory

(* A status that is written changes the story of one job. *)
LEMMA StatusStory ==
  ASSUME StartInv, StartInv', NEW b \in DOMAIN build, NEW s \in Status \ {"CREATED"},
         build' = WithStatus(b, s)
  PROVE  /\ \A j \in Jobs \ {build[b].job} : Story(build', j) = Story(build, j)
         /\ Story(build', build[b].job) = s /\ build[b].job \in Jobs
         /\ Story(build, build[b].job) = IF build[b].status = "CREATED" THEN "WAITING"
                                                                       ELSE build[b].status
<1>1. Single(build) /\ Single(build') /\ TypeInv
  BY DEF StartInv, Mutex, OneBuildPerJob, Single
<1>2. /\ DOMAIN build' = DOMAIN build
      /\ \A i \in DOMAIN build : /\ build'[i].job = build[i].job
                                 /\ build'[i].status = IF i = b THEN s ELSE build[i].status
  BY <1>1, StatusRows
<1>3. \A j \in Jobs \ {build[b].job} : Story(build', j) = Story(build, j)
  BY <1>1, <1>2, StoryKept
<1>4. Story(build', build'[b].job) = s
  BY <1>1, <1>2, StoryOf
<1>5. build[b].status = "CREATED" => ~Begun(build, build[b].job)
  BY <1>1 DEF Begun, Single
<1> QED
  BY <1>1, <1>2, <1>3, <1>4, <1>5, StoryOf DEF TypeInv, TypeOK, Row

(* Each write of a status is the end of a started job, or begins a job that is *)
(* due: a virtual root, or what the lock's holder has found ready.             *)
LEMMA EndPromised ==
  ASSUME StartInv, StartInv', NEW w \in Requests, NEW b \in DOMAIN build,
         \/ \E s \in Outcomes : Finish(w, b, s)
         \/ BypassRoot(w, b)
  PROVE  Event!PromiseNext
<1>1. CASE \E s \in Outcomes : Finish(w, b, s)
  <2>1. PICK s \in Outcomes : Finish(w, b, s)
    BY <1>1
  <2>2. s \in Status \ {"CREATED"} /\ build' = WithStatus(b, s) /\ build[b].status = "QUEUED"
    BY <2>1, OutcomeAssumption DEF Status, Finish, EndBuild
  <2> QED
    BY <2>2, StatusStory, PromisedStep
<1>2. CASE BypassRoot(w, b)
  <2>1. /\ build' = WithStatus(b, "SUCCESS") /\ build[b].status = "CREATED"
        /\ build[b].job \in Roots \cap Virtual /\ "SUCCESS" \in Status \ {"CREATED"}
    BY <1>2 DEF BypassRoot, EndBuild, Status
  <2> QED
    BY <2>1, StatusStory, PromisedStep DEF DueRow
<1> QED
  BY <1>1, <1>2

LEMMA StartPromised ==
  ASSUME Plain, StartInv, StartInv', Enabled, NEW w \in Requests, Start(w)
  PROVE  Event!PromiseNext
<1> DEFINE k == tgt[w]
           s == IF k \in Virtual THEN "SUCCESS" ELSE "QUEUED"
<1>1. /\ RowOf(build, nb[w].id, k) /\ build[nb[w].id].status = "CREATED"
      /\ build' = WithStatus(nb[w].id, s) /\ pc[w] = "start" /\ s \in Status \ {"CREATED"}
  BY StartedRow DEF Start, Status
<1>2. TypeInv /\ LocalWell(w)
  BY DEF StartInv
<1>3. k \in Jobs /\ cur[w].job \in Jobs /\ k \in NextJobs(cur[w].job)
  BY <1>1, <1>2, TargetKind DEF Critical, LocalWell, TargetWell
<1>4. k \notin Disabled
  BY <1>1, <1>3 DEF Enabled, RowOf, Roots
<1>5. Has(build, cur[w].job, {"SUCCESS"})
  BY <1>1, <1>2 DEF LocalWell, CurWell, Held, RowOf, Has, Trig, Critical
<1>6. DueRow(k)
  <2>1. CASE IsOr(cur[w].job, k)
    BY <1>3, <1>4, <1>5, <2>1 DEF DueRow
  <2>2. CASE ~IsOr(cur[w].job, k)
    <3>1. \A j \in JoinSrc(k) : Has(build, j, {"SUCCESS"})
      BY <1>1, <1>2, <2>2 DEF LocalWell, StartWell, Succ, RowOf, Has
    <3>2. JoinSrc(k) # {}
      BY <1>1, <1>2, <2>2, TargetKind DEF Critical
    <3> QED
      BY <1>4, <3>1, <3>2 DEF DueRow
  <2> QED
    BY <2>1, <2>2
<1> QED
  BY <1>1, <1>6, StatusStory, PromisedStep DEF RowOf

(* The build an OR trigger creates is started at once, unless it is virtual. *)
LEMMA CreatePromised ==
  ASSUME StartInv, StartInv', Grows, NEW w \in Requests, NEW started \in BOOLEAN,
         pc[w] = "store", nb[w] = NoBuild, tgt[w] \notin Disabled, CreateBuild(w, started),
         started => IsOr(cur[w].job, tgt[w]) /\ tgt[w] \notin Virtual
  PROVE  Event!PromiseNext \/ UNCHANGED [j \in Jobs |-> StateOf(j)]
<1> DEFINE k == tgt[w]
           s == IF started THEN "QUEUED" ELSE "CREATED"
           r == [id |-> nextId, job |-> k, parents |-> par[w], status |-> s]
<1>1. /\ TypeInv /\ LocalWell(w) /\ nextId \notin DOMAIN build /\ k \in Jobs
      /\ Single(build) /\ Single(build')
  BY DEF StartInv, TypeInv, TypeOK, Mutex, OneBuildPerJob, Single
<1>2. build' = Inserted(r) /\ r.id = nextId /\ r.job = k /\ r.status = s
  BY DEF CreateBuild
<1> HIDE DEF r
<1>3. /\ DOMAIN build' = DOMAIN build \cup {nextId} /\ build'[nextId] = r
      /\ \A i \in DOMAIN build : build'[i] = build[i]
  BY <1>1, <1>2 DEF Inserted
<1>4. CASE ~started
  BY <1>2, <1>3, <1>4, PromiseStutter
<1>5. CASE started
  <2>1. \A j \in Jobs \ {k} : Story(build', j) = Story(build, j)
    BY <1>1, <1>2, <1>3, StoryKept
  <2>2. Story(build', k) = "QUEUED"
    BY <1>1, <1>2, <1>3, <1>5, StoryOf
  <2>3. Story(build, k) = "WAITING"
    <3>1. ~Begun(build, k)
      BY DEF StartInv, Mutex, AbsentAtStore, RowsOf, Begun
    <3> QED
      BY <1>1, <3>1, StoryOf
  <2>4. Has(build, cur[w].job, {"SUCCESS"}) /\ cur[w].job \in Jobs
    BY <1>1 DEF LocalWell, CurWell, Held, RowOf, Has, Trig, Critical, TypeInv, ObjectsOK, Row
  <2>5. DueRow(k)
    BY <1>5, <2>4 DEF DueRow
  <2> QED
    BY <1>1, <1>5, <2>1, <2>2, <2>3, <2>5, PromisedStep
<1> QED
  BY <1>4, <1>5

(* All the other steps leave the started builds as they are. *)
LEMMA StepPromised ==
  ASSUME Plain, StartInv, StartInv', Grows, Enabled, NEW w \in Requests, Step(w)
  PROVE  Event!PromiseNext \/ UNCHANGED [j \in Jobs |-> StateOf(j)]
<1>1. TypeInv
  BY DEF StartInv
<1>2. ASSUME \/ UNCHANGED build
             \/ \E i : build' = Without(i)
             \/ \E i, p : build' = WithParents(i, p)
      PROVE  UNCHANGED [j \in Jobs |-> StateOf(j)]
  <2>1. DOMAIN build' \subseteq DOMAIN build /\ \A i \in DOMAIN build' : build'[i].status = build[i].status
    <3>1. CASE UNCHANGED build
      BY <3>1
    <3>2. CASE \E i : build' = Without(i)
      BY <3>2 DEF Without
    <3>3. ASSUME NEW i, NEW p, build' = WithParents(i, p)
          PROVE  DOMAIN build' = DOMAIN build /\ \A k \in DOMAIN build : build'[k].status = build[k].status
      <4>1. \A k \in DOMAIN build : build[k] \in Row
        BY <1>1 DEF TypeInv, TypeOK
      <4>2. DOMAIN build' = DOMAIN build
        BY <3>3 DEF WithParents
      <4> QED
        BY <3>3, <4>1, <4>2 DEF WithParents, Row
    <3> QED
      BY <1>2, <3>1, <3>2, <3>3
  <2> QED
    BY <2>1, PromiseStutter
<1>3. CASE RemoveRead(w) \/ RemoveDone(w) \/ LockNext(w) \/ Find(w) \/ Check(w) \/ Exec(w)
           \/ Unlock(w) \/ Descend(w) \/ TriggerDone(w)
  BY <1>2, <1>3 DEF RemoveRead, RemoveDone, LockNext, Find, Check, Exec, Unlock, Descend,
                    TriggerDone, db
<1>4. CASE RemoveRow(w) \/ Drop(w)
  BY <1>2, <1>4 DEF RemoveRow, Drop
<1>5. CASE StoreOr(w)
  <2>1. CASE nb[w] = NoBuild /\ tgt[w] \notin Disabled
    <3>1. PICK started \in BOOLEAN : started = (tgt[w] \notin Virtual)
      OBVIOUS
    <3>2. CreateBuild(w, started) /\ pc[w] = "store" /\ IsOr(cur[w].job, tgt[w])
      BY <1>5, <2>1, <3>1 DEF StoreOr
    <3> QED
      BY <2>1, <3>1, <3>2, CreatePromised
  <2>2. CASE ~(nb[w] = NoBuild /\ tgt[w] \notin Disabled)
    BY <1>2, <1>5, <2>2 DEF StoreOr
  <2> QED
    BY <2>1, <2>2
<1>6. CASE StoreAnd(w)
  <2>1. CASE nb[w] = NoBuild /\ tgt[w] \notin Disabled
    BY <1>6, <2>1, CreatePromised DEF StoreAnd
  <2>2. CASE ~(nb[w] = NoBuild /\ tgt[w] \notin Disabled)
    BY <1>2, <1>6, <2>2 DEF StoreAnd
  <2> QED
    BY <2>1, <2>2
<1>7. CASE Start(w)
  BY <1>7, StartPromised
<1> QED
  BY <1>3, <1>4, <1>5, <1>6, <1>7 DEF Step

(* A build is created only for a job that is enabled. *)
LEMMA NextEnabled ==
  ASSUME StartInv, Grows, Enabled, [Next]_vars
  PROVE  Enabled'
<1>1. TypeInv /\ nextId \notin DOMAIN build
  BY DEF StartInv, TypeInv, TypeOK
<1>2. ASSUME NEW w \in Requests, NEW started, tgt[w] \notin Disabled, CreateBuild(w, started)
      PROVE  Enabled'
  <2>1. /\ DOMAIN build' = DOMAIN build \cup {nextId} /\ build'[nextId].job = tgt[w]
        /\ \A i \in DOMAIN build : build'[i] = build[i]
    BY <1>1, <1>2 DEF CreateBuild, Inserted
  <2> QED
    BY <1>2, <2>1 DEF Enabled
<1>3. ASSUME DOMAIN build' \subseteq DOMAIN build
      PROVE  Enabled'
  BY <1>3 DEF Enabled, Grows
<1>4. ASSUME NEW b, NEW s, build' = WithStatus(b, s)
      PROVE  DOMAIN build' \subseteq DOMAIN build
  BY <1>4 DEF WithStatus
<1>5. ASSUME NEW w \in Requests, NEW b \in DOMAIN build,
             BypassRoot(w, b) \/ \E s \in Outcomes : Finish(w, b, s)
      PROVE  Enabled'
  BY <1>3, <1>4, <1>5 DEF BypassRoot, Finish, EndBuild
<1>6. ASSUME NEW w \in Requests, Step(w)
      PROVE  Enabled'
  <2>1. CASE RemoveRead(w) \/ RemoveDone(w) \/ LockNext(w) \/ Find(w) \/ Check(w) \/ Exec(w)
             \/ Unlock(w) \/ Descend(w) \/ TriggerDone(w)
    BY <1>3, <2>1 DEF RemoveRead, RemoveDone, LockNext, Find, Check, Exec, Unlock, Descend,
                      TriggerDone, db
  <2>2. CASE RemoveRow(w) \/ Drop(w)
    BY <1>3, <2>2 DEF RemoveRow, Drop, Without
  <2>3. CASE Start(w)
    BY <1>3, <1>4, <2>3 DEF Start
  <2>4. CASE StoreOr(w)
    BY <1>2, <1>3, <2>4 DEF StoreOr
  <2>5. CASE StoreAnd(w)
    BY <1>2, <1>3, <2>5 DEF StoreAnd, WithParents
  <2> QED
    BY <1>6, <2>1, <2>2, <2>3, <2>4, <2>5 DEF Step
<1>7. CASE UNCHANGED vars
  BY <1>3, <1>7 DEF vars
<1> QED
  BY <1>5, <1>6, <1>7 DEF Next

LEMMA NextPromised ==
  ASSUME LockReliable, Plain, StartInv, Enabled, [Next]_vars
  PROVE  [Event!PromiseNext]_([j \in Jobs |-> StateOf(j)])
<1>1. StartInv' /\ Grows
  BY NextStart
<1>2. ASSUME NEW w \in Requests, NEW b \in DOMAIN build,
             BypassRoot(w, b) \/ \E s \in Outcomes : Finish(w, b, s)
      PROVE  Event!PromiseNext
  BY <1>1, <1>2, EndPromised
<1>3. CASE UNCHANGED vars
  BY <1>1, <1>3, PromiseStutter DEF vars
<1> QED
  BY <1>1, <1>2, <1>3, StepPromised DEF Next

(* An event begins with its first jobs queued, the virtual ones still to pass. *)
LEMMA InitPromised == Init => Event!PromiseInit /\ Enabled
<1> SUFFICES ASSUME Init PROVE Event!PromiseInit /\ Enabled
  OBVIOUS
<1>1. PICK ids \in [Roots -> 1..Cardinality(Roots)] :
        /\ \A j, k \in Roots : ids[j] = ids[k] => j = k
        /\ build = [i \in {ids[j] : j \in Roots} |->
                      LET j == CHOOSE k \in Roots : ids[k] = i
                      IN  [id |-> i, job |-> j,
                           status |-> IF j \in Virtual THEN "CREATED" ELSE "QUEUED",
                           parents |-> [k \in Jobs |-> NoId]]]
  BY DEF Init
<1>2. ASSUME NEW j \in Roots
      PROVE  /\ ids[j] \in DOMAIN build /\ build[ids[j]].job = j
             /\ build[ids[j]].status = IF j \in Virtual THEN "CREATED" ELSE "QUEUED"
  <2>1. ids[j] \in {ids[k] : k \in Roots}
    OBVIOUS
  <2>2. (CHOOSE k \in Roots : ids[k] = ids[j]) = j
    BY <1>1
  <2>3. build[ids[j]] = [id |-> ids[j], job |-> j,
                         status |-> IF j \in Virtual THEN "CREATED" ELSE "QUEUED",
                         parents |-> [k \in Jobs |-> NoId]]
    BY <1>1, <2>1, <2>2
  <2> QED
    BY <1>1, <2>1, <2>3
<1>3. \A i \in DOMAIN build : \E j \in Roots : i = ids[j]
  BY <1>1
<1>4. Enabled
  BY <1>2, <1>3 DEF Enabled
<1>5. Single(build)
  BY InitMutex DEF Mutex, OneBuildPerJob, Single
<1>6. ASSUME NEW j \in Jobs
      PROVE  Story(build, j) = IF j \in Roots \ Virtual THEN "QUEUED" ELSE "WAITING"
  <2>1. CASE j \in Roots \ Virtual
    BY <1>2, <1>5, <2>1, StoryOf
  <2>2. CASE j \notin Roots \ Virtual
    <3>1. ~Begun(build, j)
      BY <1>2, <1>3, <2>2 DEF Begun
    <3> QED
      BY <1>5, <2>2, <3>1, StoryOf
  <2> QED
    BY <2>1, <2>2
<1>7. Event!First = Roots
  BY DEF Roots, NextJobs, Event!First, Event!Requires, Event!AnyOf
<1>8. [j \in Jobs |-> StateOf(j)] = [j \in Jobs |-> IF j \in Roots \ Virtual THEN "QUEUED" ELSE "WAITING"]
  BY <1>6, StateIsStory
<1> QED
  BY <1>4, <1>7, <1>8 DEF Event!PromiseInit

(* JoinTrigger implements EventPromise: whatever the graph, the number of      *)
(* requests and their interleaving, a job begins once at most, when all that   *)
(* it requires or one of its OR sources has succeeded, and then ends once.     *)
THEOREM KeepsPromise == ASSUME LockReliable, Plain PROVE Spec => EventKept
<1>1. StartInv /\ Enabled /\ [Next]_vars => Enabled'
  BY NextStart, NextEnabled
<1>2. StartInv /\ Enabled /\ [Next]_vars => [Event!PromiseNext]_([j \in Jobs |-> StateOf(j)])
  BY NextPromised
<1>3. Init => Event!PromiseInit /\ Enabled
  BY InitPromised
<1> QED
  BY <1>1, <1>2, <1>3, StartInvariant, PTL DEF Spec, EventKept, Event!Promise

-----------------------------------------------------------------------------
(***************************************************************************)
(* What a failed source leaves behind                                      *)
(*                                                                         *)
(* Once every source of a join has ended and one of them in FAILURE, the   *)
(* build of the join, if it is still there, has a request that will remove *)
(* it: the one that is removing the builds downstream of the failure, or   *)
(* one that still has to look at the join and will find all the sources,   *)
(* because it has looked for those its own build did not know.             *)
(***************************************************************************)
Settled(t, k) == /\ \A j \in JoinSrc(k) : Has(t, j, {"SUCCESS"}) \/ Has(t, j, {"FAILURE"})
                 /\ \E j \in JoinSrc(k) : Has(t, j, {"FAILURE"})

\* Request w has still to look at build i of job k.
LooksAt(w, i, k) ==
  \/ pc[w] = "remove" /\ (k \in todo[w] \/ i \in del[w])
  \/ pc[w] \in Trig /\ (k \in todo[w] \/ \E d \in down[w] : k \in NextJobs(d.job))
  \/ pc[w] \in {"find", "store", "check", "drop"} /\ tgt[w] = k
  \/ /\ pc[w] = "unlock" /\ nb[w] # NoBuild /\ tgt[w] \in Virtual
     /\ nb[w].status = "SUCCESS" /\ k \in NextJobs(tgt[w])

\* A request that computes the parents of a join misses none that has a build.
KnownWell(w) ==
  \A j \in JoinSrc(tgt[w]) \ {tgt[w]} : ~Empty(build, j) =>
    /\ pc[w] = "store" /\ ~IsOr(cur[w].job, tgt[w]) => par[w][j] # NoId
    /\ pc[w] = "check" => nb[w].parents[j] # NoId

CleanRow(i, k) ==
  RowOf(build, i, k) /\ build[i].status = "CREATED" /\ JoinSrc(k) # {} =>
    /\ \E j \in JoinSrc(k) : Has(build, j, {"SUCCESS"})
    /\ Settled(build, k) => \E w \in Requests : LooksAt(w, i, k)

CleanInv == /\ StartInv
            /\ \A w \in Requests : KnownWell(w)
            /\ \A i \in Nat : \A k \in Jobs : CleanRow(i, k)

(* The step of a request: it creates a join build only for a source that has *)
(* succeeded, and looks at it; it looks at what is downstream of a build it  *)
(* ends; and it forgets no build that is settled.                            *)
LEMMA CleanStep ==
  ASSUME CleanInv, StartInv', NEW w \in Requests, Moves(w), KnownWell(w)',
         \A i \in DOMAIN build' \ DOMAIN build : \A k \in Jobs :
           RowOf(build', i, k) /\ build'[i].status = "CREATED" /\ JoinSrc(k) # {} =>
             LooksAt(w, i, k)' /\ \E j \in JoinSrc(k) : Has(build, j, {"SUCCESS"}),
         \A j \in Jobs : \A s \in {"SUCCESS", "FAILURE"} :
           Has(build', j, {s}) /\ ~Has(build, j, {s}) =>
             \A k \in NextJobs(j) : \A i \in Nat : LooksAt(w, i, k)',
         \A i \in DOMAIN build \cap DOMAIN build' : \A k \in Jobs :
           RowOf(build, i, k) /\ build[i].status = "CREATED" /\ Settled(build, k)
             /\ JoinSrc(k) # {} /\ LooksAt(w, i, k) => LooksAt(w, i, k)'
  PROVE  CleanInv'
<1>1. StartInv /\ TypeInv /\ Grows
  BY DEF CleanInv, StartInv, Moves
<1>2. {"SUCCESS"} \in SUBSET Ended
  BY DEF Ended
<1>3. ASSUME NEW u \in Requests \ {w}
      PROVE  KnownWell(u)'
  <2>1. KnownWell(u) /\ Same(u)
    BY DEF CleanInv, Moves
  <2>2. CASE pc[u] \in Critical
    <3>1. Gentle
      BY <1>1, <2>2 DEF StartInv, Mutex, LockHeld, Moves
    <3>2. \A j : ~Empty(build', j) => ~Empty(build, j)
      BY <1>1, <3>1 DEF Empty, Gentle, Grows
    <3> QED
      BY <2>1, <3>2 DEF KnownWell, Same
  <2>3. CASE pc[u] \notin Critical
    BY <2>1, <2>3 DEF KnownWell, Same, Critical
  <2> QED
    BY <2>2, <2>3
<1>4. ASSUME NEW i \in Nat, NEW k \in Jobs
      PROVE  CleanRow(i, k)'
  <2> SUFFICES ASSUME RowOf(build', i, k), build'[i].status = "CREATED", JoinSrc(k) # {}
               PROVE  /\ \E j \in JoinSrc(k) : Has(build', j, {"SUCCESS"})
                      /\ Settled(build', k) => \E u \in Requests : LooksAt(u, i, k)'
    BY DEF CleanRow
  <2>1. CASE i \notin DOMAIN build
    <3>1. LooksAt(w, i, k)' /\ \E j \in JoinSrc(k) : Has(build, j, {"SUCCESS"})
      BY <2>1 DEF RowOf
    <3> QED
      BY <1>1, <1>2, <3>1, Lasts
  <2>2. CASE i \in DOMAIN build
    <3>1. RowOf(build, i, k) /\ build[i].status = "CREATED" /\ i \in DOMAIN build'
      BY <1>1, <2>2 DEF Grows, RowOf
    <3>2. /\ \E j \in JoinSrc(k) : Has(build, j, {"SUCCESS"})
          /\ Settled(build, k) => \E u \in Requests : LooksAt(u, i, k)
      BY <3>1 DEF CleanInv, CleanRow
    <3>3. \E j \in JoinSrc(k) : Has(build', j, {"SUCCESS"})
      BY <1>1, <1>2, <3>2, Lasts
    <3>4. CASE Settled(build, k)
      <4>1. PICK u \in Requests : LooksAt(u, i, k)
        BY <3>2, <3>4
      <4>2. u = w => LooksAt(w, i, k)'
        BY <3>1, <3>4, <4>1
      <4>3. u # w => LooksAt(u, i, k)'
        BY <4>1 DEF LooksAt, Moves, Same
      <4> QED
        BY <3>3, <4>2, <4>3
    <3>5. CASE ~Settled(build, k) /\ Settled(build', k)
      <4>1. PICK j \in JoinSrc(k), s \in {"SUCCESS", "FAILURE"} :
                   Has(build', j, {s}) /\ ~Has(build, j, {s})
        BY <3>5 DEF Settled
      <4>2. j \in Jobs /\ k \in NextJobs(j)
        BY DEF JoinSrc, NextJobs
      <4> QED
        BY <3>3, <4>1, <4>2
    <3> QED
      BY <3>3, <3>4, <3>5
  <2> QED
    BY <2>1, <2>2
<1> QED
  BY <1>3, <1>4 DEF CleanInv

(* The table is the same, or has only lost rows or got new parents. *)
LEMMA CleanQuiet ==
  ASSUME CleanInv, StartInv', NEW w \in Requests, Moves(w), KnownWell(w)',
         \A i \in DOMAIN build' : i \in DOMAIN build /\ build'[i].status = build[i].status,
         \A i \in DOMAIN build' : \A k \in Jobs :
           RowOf(build, i, k) /\ build[i].status = "CREATED" /\ Settled(build, k)
             /\ JoinSrc(k) # {} /\ LooksAt(w, i, k) => LooksAt(w, i, k)'
  PROVE  CleanInv'
<1>1. \A j \in Jobs : \A s : Has(build', j, {s}) => Has(build, j, {s})
  BY DEF Has, Moves, Grows
<1> QED
  BY <1>1, CleanStep

(* The steps before the lock and after it, and those that only look. *)
LEMMA RemoveClean ==
  ASSUME CleanInv, StartInv', NEW w \in Requests, Moves(w),
         RemoveRead(w) \/ RemoveRow(w) \/ RemoveDone(w)
  PROVE  CleanInv'
<1>1. TypeInv /\ OneBuildPerJob /\ pc[w] = "remove" /\ "remove" \notin Trig
  BY DEF CleanInv, StartInv, Mutex, RemoveRead, RemoveRow, RemoveDone, Trig, Critical
<1>2. \A i, k : LooksAt(w, i, k) => k \in todo[w] \/ i \in del[w]
  BY <1>1 DEF LooksAt
<1>3. pc'[w] \in {"remove", "idle"}
  BY <1>1 DEF RemoveRead, RemoveRow, RemoveDone, Forget, TypeInv, TypeOK
<1>4. KnownWell(w)'
  BY <1>3 DEF KnownWell
<1>5. CASE RemoveRead(w)
  <2>1. build' = build /\ pc'[w] = "remove"
    BY <1>1, <1>5 DEF RemoveRead, db
  <2>2. PICK j \in todo[w] :
          /\ todo' = [todo EXCEPT ![w] = @ \ {j}]
          /\ \/ RowsOf(j) = {} /\ UNCHANGED del
             \/ \E i \in RowsOf(j) :
                  del' = [del EXCEPT ![w] = IF Removable(build[i]) THEN @ \cup {i} ELSE @]
    BY <1>5 DEF RemoveRead
  <2>3. todo'[w] = todo[w] \ {j} /\ del[w] \subseteq del'[w]
    BY <1>1, <2>2 DEF TypeInv, TypeOK
  <2>4. ASSUME NEW i \in RowsOf(j), build[i].status = "CREATED"
        PROVE  i \in del'[w]
    <3>1. \A r \in RowsOf(j) : r = i
      BY <1>1 DEF OneBuildPerJob, RowsOf
    <3> QED
      BY <1>1, <2>2, <2>4, <3>1 DEF Removable, TypeInv, TypeOK
  <2>5. ASSUME NEW i \in DOMAIN build, NEW k \in Jobs,
               RowOf(build, i, k), build[i].status = "CREATED", LooksAt(w, i, k)
        PROVE  LooksAt(w, i, k)'
    <3>1. k = j => i \in RowsOf(j)
      BY <2>5 DEF RowOf, RowsOf
    <3>2. k \in todo'[w] \/ i \in del'[w]
      BY <1>2, <2>3, <2>4, <2>5, <3>1
    <3> QED
      BY <2>1, <3>2 DEF LooksAt
  <2> QED
    BY <1>4, <2>1, <2>5, CleanQuiet
<1>6. CASE RemoveRow(w)
  <2>1. PICK r \in del[w] : build' = Without(r) /\ del' = [del EXCEPT ![w] = @ \ {r}]
    BY <1>6 DEF RemoveRow
  <2>2. DOMAIN build' = DOMAIN build \ {r} /\ \A i \in DOMAIN build' : build'[i] = build[i]
    BY <2>1 DEF Without
  <2>3. del'[w] = del[w] \ {r} /\ todo' = todo /\ pc'[w] = "remove"
    BY <1>1, <1>6, <2>1 DEF RemoveRow, TypeInv, TypeOK
  <2>4. ASSUME NEW i \in DOMAIN build', NEW k \in Jobs, LooksAt(w, i, k)
        PROVE  LooksAt(w, i, k)'
    BY <1>2, <2>2, <2>3, <2>4 DEF LooksAt
  <2> QED
    BY <1>4, <2>2, <2>4, CleanQuiet
<1>7. CASE RemoveDone(w)
  BY <1>2, <1>4, <1>7, CleanQuiet DEF RemoveDone, db
<1> QED
  BY <1>5, <1>6, <1>7

LEMMA TriggerClean ==
  ASSUME CleanInv, StartInv', NEW w \in Requests, Moves(w),
         LockNext(w) \/ Descend(w) \/ TriggerDone(w)
  PROVE  CleanInv'
<1>1. /\ TypeInv /\ pc[w] = "next" /\ build' = build
      /\ {"next", "find"} \subseteq Trig /\ "next" \notin Critical
  BY DEF CleanInv, StartInv, LockNext, Descend, TriggerDone, db, Trig, Critical
<1>2. \A i, k : LooksAt(w, i, k) => k \in todo[w] \/ \E d \in down[w] : k \in NextJobs(d.job)
  BY <1>1 DEF LooksAt
<1>3. pc'[w] \in {"find", "next", "idle"}
  BY <1>1 DEF LockNext, Descend, TriggerDone, Forget, TypeInv, TypeOK
<1>4. KnownWell(w)'
  BY <1>3 DEF KnownWell
<1>5. CASE LockNext(w)
  <2>1. PICK j \in todo[w] : /\ tgt' = [tgt EXCEPT ![w] = j]
                             /\ todo' = [todo EXCEPT ![w] = @ \ {j}]
    BY <1>5 DEF LockNext
  <2>2. /\ tgt'[w] = j /\ todo'[w] = todo[w] \ {j} /\ pc'[w] = "find" /\ down' = down
    BY <1>1, <1>5, <2>1 DEF LockNext, TypeInv, TypeOK
  <2>3. ASSUME NEW i, NEW k, LooksAt(w, i, k) PROVE LooksAt(w, i, k)'
    BY <1>1, <1>2, <2>2, <2>3 DEF LooksAt
  <2> QED
    BY <1>1, <1>4, <2>3, CleanQuiet
<1>6. CASE Descend(w)
  <2>1. PICK d \in down[w] : /\ down' = [down EXCEPT ![w] = @ \ {d}]
                             /\ todo' = [todo EXCEPT ![w] = NextJobs(d.job)]
    BY <1>6 DEF Descend
  <2>2. /\ todo[w] = {} /\ todo'[w] = NextJobs(d.job) /\ down'[w] = down[w] \ {d}
        /\ pc'[w] = "next"
    BY <1>1, <1>6, <2>1 DEF Descend, TypeInv, TypeOK
  <2>3. ASSUME NEW i, NEW k, LooksAt(w, i, k) PROVE LooksAt(w, i, k)'
    BY <1>1, <1>2, <2>2, <2>3 DEF LooksAt
  <2> QED
    BY <1>1, <1>4, <2>3, CleanQuiet
<1>7. CASE TriggerDone(w)
  BY <1>1, <1>2, <1>4, <1>7, CleanQuiet DEF TriggerDone
<1> QED
  BY <1>5, <1>6, <1>7

(* The join sources that have a build are known to a request that has looked. *)
LEMMA FindClean ==
  ASSUME CleanInv, StartInv', NEW w \in Requests, Moves(w), Find(w)
  PROVE  CleanInv'
<1>1. /\ TypeInv /\ pc[w] = "find" /\ build' = build /\ pc'[w] = "store"
      /\ UNCHANGED <<cur, todo, tgt, down>> /\ {"find", "store"} \subseteq Trig
  BY DEF CleanInv, StartInv, TypeInv, TypeOK, Find, db, Trig, Critical
<1>2. par'[w] = IF IsOr(cur[w].job, tgt[w]) THEN OwnParents(cur[w])
                                             ELSE FilledParents(cur[w], tgt[w])
  BY <1>1 DEF Find, TypeInv, TypeOK
<1>3. ASSUME NEW j \in Jobs, ~Empty(build, j) PROVE Latest(j) # NoId
  <2>1. RowsOf(j) # {}
    BY <1>3 DEF RowsOf, Empty
  <2>2. Latest(j) \in RowsOf(j)
    BY <1>1, <2>1, LatestType DEF TypeInv
  <2> QED
    BY <1>1, <2>2 DEF RowsOf, TypeInv, TypeOK, NoId
<1>4. \A j \in JoinSrc(tgt[w]) : FilledParents(cur[w], tgt[w])[j] =
          IF OwnParents(cur[w])[j] = NoId THEN Latest(j) ELSE OwnParents(cur[w])[j]
  BY DEF FilledParents, JoinSrc
<1>5. KnownWell(w)'
  BY <1>1, <1>2, <1>3, <1>4 DEF KnownWell, JoinSrc
<1>6. ASSUME NEW i, NEW k, LooksAt(w, i, k) PROVE LooksAt(w, i, k)'
  BY <1>1, <1>6 DEF LooksAt
<1> QED
  BY <1>1, <1>5, <1>6, CleanQuiet

(* The steps that end the attempt: what was passed over is looked at next. *)
LEMMA UnlockClean ==
  ASSUME CleanInv, StartInv', NEW w \in Requests, Moves(w), Exec(w) \/ Unlock(w)
  PROVE  CleanInv'
<1>1. /\ TypeInv /\ LocalWell(w) /\ pc[w] \in {"exec", "unlock"} /\ build' = build
      /\ {"next", "exec", "unlock"} \subseteq Trig /\ UNCHANGED <<todo, tgt>>
  BY DEF CleanInv, StartInv, Exec, Unlock, db, Trig, Critical
<1>2. pc'[w] \in {"unlock", "next"}
  BY <1>1 DEF Exec, Unlock, TypeInv, TypeOK
<1>3. KnownWell(w)'
  BY <1>2 DEF KnownWell
<1>4. down[w] \subseteq down'[w]
  BY <1>1 DEF Exec, Unlock, TypeInv, TypeOK
<1>5. ASSUME NEW i, NEW k, LooksAt(w, i, k) PROVE LooksAt(w, i, k)'
  <2>1. CASE k \in todo[w] \/ \E d \in down[w] : k \in NextJobs(d.job)
    BY <1>1, <1>2, <1>4, <2>1 DEF LooksAt
  <2>2. CASE /\ pc[w] = "unlock" /\ nb[w] # NoBuild /\ tgt[w] \in Virtual
             /\ nb[w].status = "SUCCESS" /\ k \in NextJobs(tgt[w])
    <3>1. nb[w].job = tgt[w]
      BY <1>1, <2>2 DEF LocalWell, NextWell, Found
    <3>2. nb[w] \in down'[w] /\ pc'[w] = "next"
      BY <1>1, <2>2 DEF Exec, Unlock, TypeInv, TypeOK
    <3> QED
      BY <1>1, <2>2, <3>1, <3>2 DEF LooksAt
  <2> QED
    BY <1>1, <1>5, <2>1, <2>2 DEF LooksAt
<1> QED
  BY <1>1, <1>3, <1>5, CleanQuiet

(* The build of a join is the one a request that looks at the join has found, *)
(* with all the sources that are settled.                                     *)
LEMMA SettledFound ==
  ASSUME Plain, CleanInv, NEW w \in Requests, pc[w] \in {"check", "drop"},
         NEW i \in DOMAIN build, RowOf(build, i, tgt[w]), build[i].status = "CREATED"
  PROVE  /\ nb[w] \in Row /\ nb[w].id = i /\ nb[w].status = "CREATED"
         /\ pc[w] = "check" /\ Settled(build, tgt[w]) =>
              \A j \in JoinSrc(tgt[w]) :
                /\ RowOf(build, nb[w].parents[j], j) /\ nb[w].parents[j] # NoId
                /\ \A s : Has(build, j, {s}) => build[nb[w].parents[j]].status = s
<1>1. StartInv /\ TypeInv /\ LocalWell(w) /\ OneBuildPerJob /\ nb[w] \in Row /\ nb[w] # NoBuild
  BY DEF CleanInv, StartInv, Mutex, TypeInv, ObjectsOK, Row, NoBuild, NoId
<1>2. Found(build, nextId, nb[w], tgt[w])
  BY <1>1 DEF LocalWell, NextWell
<1>3. nb[w].id \in DOMAIN build
  BY <1>2 DEF Found, Empty, RowOf
<1>4. nb[w].id = i /\ nb[w].status = "CREATED"
  BY <1>1, <1>2, <1>3 DEF Found, SameRow, RowOf, OneBuildPerJob
<1>5. ASSUME pc[w] = "check", Settled(build, tgt[w]), NEW j \in JoinSrc(tgt[w])
      PROVE  /\ RowOf(build, nb[w].parents[j], j) /\ nb[w].parents[j] # NoId
             /\ \A s : Has(build, j, {s}) => build[nb[w].parents[j]].status = s
  <2>1. PICK r \in DOMAIN build : build[r].job = j /\ build[r].status \in {"SUCCESS", "FAILURE"}
    BY <1>5 DEF Settled, Has
  <2>2. j # tgt[w]
    BY <1>1, <2>1 DEF OneBuildPerJob, RowOf
  <2>3. nb[w].parents[j] # NoId /\ j \in Jobs
    BY <1>5, <2>1, <2>2 DEF CleanInv, KnownWell, Empty, JoinSrc
  <2>4. Refers(build, nextId, nb[w].parents[j], j)
    BY <1>2, <2>3 DEF Found, GoodRefs
  <2>5. ~Doomed(build, j)
    BY <1>1, <2>1, <2>3, DoomedWaits
  <2>6. RowOf(build, nb[w].parents[j], j)
    BY <2>4, <2>5 DEF Refers
  <2> QED
    BY <1>1, <2>3, <2>6 DEF Has, RowOf, OneBuildPerJob
<1> QED
  BY <1>1, <1>4, <1>5

LEMMA CheckClean ==
  ASSUME Plain, CleanInv, StartInv', NEW w \in Requests, Moves(w), Check(w)
  PROVE  CleanInv'
<1> DEFINE k == tgt[w]
           x == nb[w]
<1>1. /\ TypeInv /\ pc[w] = "check" /\ build' = build /\ UNCHANGED <<todo, tgt, down>>
      /\ pc'[w] = Verdict(k, x)
  BY DEF CleanInv, StartInv, TypeInv, TypeOK, Check, db
<1>2. Verdict(k, x) \in {"unlock", "drop", "start"} /\ {"unlock", "drop", "start"} \subseteq Trig
  BY DEF Verdict, Trig, Critical
<1>3. KnownWell(w)'
  BY <1>1, <1>2 DEF KnownWell
<1>4. ASSUME NEW i \in DOMAIN build, RowOf(build, i, k), build[i].status = "CREATED",
             Settled(build, k)
      PROVE  Verdict(k, x) = "drop"
  <2>1. /\ x.status = "CREATED"
        /\ \A j \in JoinSrc(k) :
             /\ RowOf(build, x.parents[j], j) /\ x.parents[j] # NoId
             /\ \A s : Has(build, j, {s}) => build[x.parents[j]].status = s
    BY <1>1, <1>4, SettledFound
  <2>2. Known(k, x.parents) = JoinSrc(k) /\ ~Missing(k, x.parents)
    BY <2>1 DEF Known, Missing, RowOf
  <2>3. Done(k, x.parents)
    BY <1>4, <2>1, <2>2 DEF Done, Settled, Ended
  <2>4. HasFailure(k, x.parents)
    BY <1>4, <2>1, <2>2 DEF HasFailure, Settled, Failed
  <2> QED
    BY <2>1, <2>2, <2>3, <2>4 DEF Verdict
<1>5. ASSUME NEW i \in DOMAIN build, NEW c \in Jobs, RowOf(build, i, c),
             build[i].status = "CREATED", Settled(build, c), LooksAt(w, i, c)
      PROVE  LooksAt(w, i, c)'
  <2>1. CASE c = k
    BY <1>1, <1>4, <1>5, <2>1 DEF LooksAt
  <2>2. CASE c # k
    BY <1>1, <1>2, <1>5, <2>2 DEF LooksAt
  <2> QED
    BY <2>1, <2>2
<1> QED
  BY <1>1, <1>3, <1>5, CleanQuiet

LEMMA DropClean ==
  ASSUME Plain, CleanInv, StartInv', NEW w \in Requests, Moves(w), Drop(w)
  PROVE  CleanInv'
<1>1. /\ TypeInv /\ pc[w] = "drop" /\ build' = Without(nb[w].id)
      /\ UNCHANGED <<todo, tgt, down>> /\ pc'[w] = "unlock" /\ {"drop", "unlock"} \subseteq Trig
  BY DEF CleanInv, StartInv, TypeInv, TypeOK, Drop, Trig, Critical
<1>2. DOMAIN build' = DOMAIN build \ {nb[w].id} /\ \A i \in DOMAIN build' : build'[i] = build[i]
  BY <1>1 DEF Without
<1>3. KnownWell(w)'
  BY <1>1 DEF KnownWell
<1>4. ASSUME NEW i \in DOMAIN build', NEW k \in Jobs,
             RowOf(build, i, k), build[i].status = "CREATED", LooksAt(w, i, k)
      PROVE  LooksAt(w, i, k)'
  <2>1. CASE k = tgt[w]
    <3>1. nb[w].id = i
      BY <1>1, <1>2, <1>4, <2>1, SettledFound
    <3> QED
      BY <1>2, <3>1
  <2>2. CASE k # tgt[w]
    BY <1>1, <1>4, <2>2 DEF LooksAt
  <2> QED
    BY <2>1, <2>2
<1> QED
  BY <1>2, <1>3, <1>4, CleanQuiet

(* A build that ends in SUCCESS or FAILURE is heard of downstream. *)
LEMMA EndBuildClean ==
  ASSUME CleanInv, StartInv', NEW w \in Requests, Moves(w), NEW b \in DOMAIN build,
         NEW s \in Ended, pc[w] = "idle", EndBuild(w, b, s)
  PROVE  CleanInv'
<1>1. /\ TypeInv /\ build' = WithStatus(b, s) /\ s \in Status /\ "next" \in Trig
      /\ pc'[w] \in {"next", "remove", "idle"}
  BY DEF CleanInv, StartInv, TypeInv, TypeOK, EndBuild, Ended, Status, Trig
<1>2. /\ DOMAIN build' = DOMAIN build
      /\ \A i \in DOMAIN build : /\ build'[i].job = build[i].job
                                 /\ build'[i].status = IF i = b THEN s ELSE build[i].status
  BY <1>1, StatusRows
<1>3. KnownWell(w)'
  BY <1>1 DEF KnownWell
<1>4. ASSUME NEW j \in Jobs, NEW f \in {"SUCCESS", "FAILURE"},
             Has(build', j, {f}), ~Has(build, j, {f}), NEW k \in NextJobs(j), NEW i \in Nat
      PROVE  LooksAt(w, i, k)'
  <2>1. build[b].job = j /\ s = f
    BY <1>2, <1>4 DEF Has
  <2>2. /\ pc'[w] = IF s = "SUCCESS" THEN "next" ELSE "remove"
        /\ todo'[w] = NextJobs(j)
    BY <1>1, <2>1 DEF EndBuild, TypeInv, TypeOK
  <2> QED
    BY <1>1, <2>2 DEF LooksAt
<1>5. \A i, k : ~LooksAt(w, i, k)
  BY DEF LooksAt, Trig, Critical
<1> QED
  BY <1>2, <1>3, <1>4, <1>5, CleanStep

(* So is a virtual build that is passed over. *)
LEMMA StartClean ==
  ASSUME Plain, CleanInv, StartInv', NEW w \in Requests, Moves(w), Start(w)
  PROVE  CleanInv'
<1> DEFINE s == IF tgt[w] \in Virtual THEN "SUCCESS" ELSE "QUEUED"
           x == nb[w].id
<1>1. /\ TypeInv /\ pc[w] = "start" /\ build' = WithStatus(x, s) /\ s \in Status
      /\ nb[w] \in Row /\ nb'[w] = [nb[w] EXCEPT !.status = s]
      /\ UNCHANGED <<todo, tgt, down>>
  BY DEF CleanInv, StartInv, TypeInv, TypeOK, ObjectsOK, Start, Status
<1>2. /\ pc'[w] = IF tgt[w] \in Virtual THEN "unlock" ELSE "exec"
      /\ {"start", "unlock", "exec"} \subseteq Trig
  BY <1>1 DEF TypeInv, TypeOK, Start, Trig, Critical
<1>3. /\ DOMAIN build' = DOMAIN build
      /\ \A i \in DOMAIN build : /\ build'[i].job = build[i].job
                                 /\ build'[i].status = IF i = x THEN s ELSE build[i].status
  BY <1>1, StatusRows
<1>4. RowOf(build, x, tgt[w])
  BY <1>1, StartedRow DEF CleanInv
<1>5. KnownWell(w)'
  BY <1>2 DEF KnownWell
<1>6. ASSUME NEW j \in Jobs, NEW f \in {"SUCCESS", "FAILURE"},
             Has(build', j, {f}), ~Has(build, j, {f}), NEW k \in NextJobs(j), NEW i \in Nat
      PROVE  LooksAt(w, i, k)'
  <2>1. tgt[w] = j /\ s = f
    BY <1>3, <1>4, <1>6 DEF Has, RowOf
  <2>2. tgt[w] \in Virtual /\ s = "SUCCESS"
    BY <2>1
  <2>3. nb'[w].status = "SUCCESS" /\ nb'[w] # NoBuild
    <3>1. nb'[w].status = s /\ nb'[w].id = nb[w].id /\ nb[w].id # NoId
      BY <1>1 DEF Row
    <3> QED
      BY <2>2, <3>1 DEF NoBuild
  <2> QED
    BY <1>1, <1>2, <2>1, <2>2, <2>3 DEF LooksAt
<1>7. ASSUME NEW i, NEW k, LooksAt(w, i, k) PROVE LooksAt(w, i, k)'
  BY <1>1, <1>2, <1>7 DEF LooksAt
<1> HIDE DEF s, x
<1> QED
  BY <1>3, <1>5, <1>6, <1>7, CleanStep

LEMMA StoreOrClean ==
  ASSUME Plain, CleanInv, StartInv', NEW w \in Requests, Moves(w), StoreOr(w)
  PROVE  CleanInv'
<1>1. /\ TypeInv /\ LocalWell(w) /\ pc[w] = "store" /\ IsOr(cur[w].job, tgt[w])
      /\ UNCHANGED <<todo, tgt, down>> /\ "store" \in Critical
      /\ {"store", "start", "exec", "unlock"} \subseteq Trig /\ nextId \notin DOMAIN build
  BY DEF CleanInv, StartInv, TypeInv, TypeOK, StoreOr, Trig, Critical
<1>2. pc'[w] \in {"start", "exec", "unlock"}
  BY <1>1 DEF StoreOr, TypeInv, TypeOK
<1>3. JoinSrc(tgt[w]) = {}
  BY <1>1, TargetKind
<1>4. KnownWell(w)'
  BY <1>2 DEF KnownWell
<1>5. \/ build' = build
      \/ /\ DOMAIN build' = DOMAIN build \cup {nextId}
         /\ \A i \in DOMAIN build : build'[i] = build[i]
         /\ build'[nextId].job = tgt[w] /\ build'[nextId].status \in {"QUEUED", "CREATED"}
  BY <1>1 DEF StoreOr, CreateBuild, Inserted
<1>6. \A j \in Jobs : \A s \in {"SUCCESS", "FAILURE"} : Has(build', j, {s}) => Has(build, j, {s})
  BY <1>5 DEF Has
<1>7. ASSUME NEW i, NEW k, JoinSrc(k) # {}, LooksAt(w, i, k) PROVE LooksAt(w, i, k)'
  BY <1>1, <1>2, <1>3, <1>7 DEF LooksAt
<1>8. \A i \in DOMAIN build' \ DOMAIN build : build'[i].job = tgt[w]
  BY <1>5
<1> QED
  BY <1>3, <1>4, <1>6, <1>7, <1>8, CleanStep DEF RowOf

(* The request that creates a join build, or adds its parents to one, decides *)
(* about it with what it has just stored.                                     *)
LEMMA StoreAndClean ==
  ASSUME Plain, CleanInv, StartInv', NEW w \in Requests, Moves(w), StoreAnd(w)
  PROVE  CleanInv'
<1>1. /\ TypeInv /\ LocalWell(w) /\ pc[w] = "store" /\ ~IsOr(cur[w].job, tgt[w])
      /\ UNCHANGED <<todo, tgt, down>> /\ "store" \in Critical
      /\ {"store", "check", "unlock"} \subseteq Trig /\ nextId \notin DOMAIN build
  BY DEF CleanInv, StartInv, TypeInv, TypeOK, StoreAnd, Trig, Critical
<1>2. cur[w].job \in JoinSrc(tgt[w]) /\ Has(build, cur[w].job, {"SUCCESS"})
  BY <1>1, TargetKind DEF LocalWell, CurWell, Held, RowOf, Has
<1>3. \A j \in JoinSrc(tgt[w]) \ {tgt[w]} : ~Empty(build, j) => par[w][j] # NoId
  BY <1>1 DEF CleanInv, KnownWell
<1>4. par[w] \in Parents /\ \A j \in JoinSrc(tgt[w]) : j \in Jobs
  BY <1>1 DEF TypeInv, TypeOK, JoinSrc
<1>5. CASE nb[w] = NoBuild /\ tgt[w] \notin Disabled
  <2> DEFINE r == [id |-> nextId, job |-> tgt[w], parents |-> par[w], status |-> "CREATED"]
  <2>1. build' = Inserted(r) /\ nb'[w] = r /\ pc'[w] = "check"
    BY <1>1, <1>5 DEF StoreAnd, CreateBuild, TypeInv, TypeOK
  <2>2. /\ r.id = nextId /\ r.job = tgt[w] /\ r.parents = par[w] /\ r.status = "CREATED"
    OBVIOUS
  <2> HIDE DEF r
  <2>3. /\ DOMAIN build' = DOMAIN build \cup {nextId} /\ build'[nextId] = r
        /\ \A i \in DOMAIN build : build'[i] = build[i]
    BY <1>1, <2>1, <2>2 DEF Inserted
  <2>4. \A j : Empty(build, j) /\ ~Empty(build', j) => j = tgt[w]
    BY <2>2, <2>3 DEF Empty
  <2>5. KnownWell(w)'
    BY <1>1, <1>3, <2>1, <2>2, <2>4 DEF KnownWell
  <2>6. \A j \in Jobs : \A s \in {"SUCCESS", "FAILURE"} : Has(build', j, {s}) => Has(build, j, {s})
    BY <2>2, <2>3 DEF Has
  <2>7. ASSUME NEW i, NEW k, LooksAt(w, i, k) PROVE LooksAt(w, i, k)'
    BY <1>1, <2>1, <2>7 DEF LooksAt
  <2>8. ASSUME NEW i, NEW k, k = tgt[w] PROVE LooksAt(w, i, k)'
    BY <1>1, <2>1, <2>8 DEF LooksAt
  <2>9. \A i \in DOMAIN build' \ DOMAIN build : build'[i].job = tgt[w]
    BY <2>2, <2>3
  <2>10. \A i \in DOMAIN build' \ DOMAIN build : \A k \in Jobs :
           RowOf(build', i, k) =>
             LooksAt(w, i, k)' /\ \E j \in JoinSrc(k) : Has(build, j, {"SUCCESS"})
    BY <1>2, <2>8, <2>9 DEF RowOf
  <2> QED
    BY <2>5, <2>6, <2>7, <2>10, CleanStep
<1>6. CASE nb[w] = NoBuild /\ tgt[w] \in Disabled
  <2>1. build' = build /\ pc'[w] = "unlock"
    BY <1>1, <1>6 DEF StoreAnd, TypeInv, TypeOK
  <2>2. KnownWell(w)'
    BY <2>1 DEF KnownWell
  <2>3. \A i \in DOMAIN build : build[i].job # tgt[w]
    BY <1>1, <1>6 DEF CleanInv, StartInv, Mutex, AbsentAtStore, RowsOf
  <2>4. ASSUME NEW i \in DOMAIN build, NEW k \in Jobs, RowOf(build, i, k), LooksAt(w, i, k)
        PROVE  LooksAt(w, i, k)'
    BY <1>1, <2>1, <2>3, <2>4 DEF LooksAt, RowOf
  <2> QED
    BY <2>1, <2>2, <2>4, CleanQuiet
<1>7. CASE nb[w] # NoBuild
  <2> DEFINE p == MergedParents(par[w], nb[w].parents)
  <2>1. /\ build' = WithParents(nb[w].id, p) /\ pc'[w] = "check" /\ nb[w] \in Row
        /\ nb'[w] = [nb[w] EXCEPT !.parents = p]
    BY <1>1, <1>7 DEF StoreAnd, TypeInv, TypeOK
  <2>2. \A j \in Jobs : p[j] = IF par[w][j] # NoId THEN par[w][j] ELSE nb[w].parents[j]
    BY DEF MergedParents
  <2> HIDE DEF p
  <2>3. nb'[w].parents = p
    BY <2>1 DEF Row
  <2>4. /\ DOMAIN build' = DOMAIN build
        /\ \A i \in DOMAIN build : /\ build'[i].job = build[i].job
                                   /\ build'[i].status = build[i].status
    BY <1>1, <2>1 DEF WithParents, TypeInv, TypeOK, Row
  <2>5. KnownWell(w)'
    BY <1>1, <1>3, <1>4, <2>1, <2>2, <2>3, <2>4 DEF KnownWell, Empty
  <2>6. ASSUME NEW i, NEW k, LooksAt(w, i, k) PROVE LooksAt(w, i, k)'
    BY <1>1, <2>1, <2>6 DEF LooksAt
  <2> QED
    BY <2>4, <2>5, <2>6, CleanQuiet
<1> QED
  BY <1>5, <1>6, <1>7

LEMMA NextClean == LockReliable /\ Plain /\ CleanInv /\ [Next]_vars => CleanInv'
<1> SUFFICES ASSUME LockReliable, Plain, CleanInv, [Next]_vars PROVE CleanInv'
  OBVIOUS
<1>1. ASSUME NEW w \in Requests, NEW b \in DOMAIN build, NEW s \in Ended,
             Finish(w, b, s) \/ (s = "SUCCESS" /\ BypassRoot(w, b))
      PROVE  CleanInv'
  <2>1. /\ pc[w] = "idle" /\ EndBuild(w, b, s)
        /\ \/ build[b].status = "QUEUED"
           \/ build[b].status = "CREATED" /\ build[b].job \in Roots
    BY <1>1 DEF Finish, BypassRoot
  <2>2. StartInv' /\ Moves(w)
    BY <2>1, EndBuildStart DEF CleanInv
  <2> QED
    BY <2>1, <2>2, EndBuildClean
<1>2. ASSUME NEW w \in Requests, Step(w) PROVE CleanInv'
  <2>1. StartInv' /\ Moves(w)
    BY <1>2, StepStart DEF CleanInv
  <2> QED
    BY <1>2, <2>1, RemoveClean, TriggerClean, FindClean, StoreOrClean, StoreAndClean,
       CheckClean, DropClean, StartClean, UnlockClean DEF Step
<1>3. CASE UNCHANGED vars
  <2>1. StartInv'
    BY NextStart DEF CleanInv
  <2>2. UNCHANGED <<build, pc, cur, todo, tgt, nb, par, del, down>>
    BY <1>3 DEF vars
  <2> QED
    BY <2>1, <2>2 DEF CleanInv, KnownWell, CleanRow, LooksAt
<1>4. Outcomes \subseteq Ended /\ "SUCCESS" \in Ended
  BY OutcomeAssumption DEF Ended
<1> QED
  BY <1>1, <1>2, <1>3, <1>4 DEF Next

LEMMA InitClean == Init => CleanInv
<1> SUFFICES ASSUME Init PROVE CleanInv
  OBVIOUS
<1>1. StartInv
  BY InitStart
<1>2. \A w \in Requests : KnownWell(w)
  BY DEF Init, KnownWell
<1>3. ASSUME NEW i \in DOMAIN build PROVE JoinSrc(build[i].job) = {}
  <2>1. PICK ids \in [Roots -> 1..Cardinality(Roots)] :
          /\ \A j, k \in Roots : ids[j] = ids[k] => j = k
          /\ build = [r \in {ids[j] : j \in Roots} |->
                        LET j == CHOOSE k \in Roots : ids[k] = r
                        IN  [id |-> r, job |-> j,
                             status |-> IF j \in Virtual THEN "CREATED" ELSE "QUEUED",
                             parents |-> [k \in Jobs |-> NoId]]]
    BY DEF Init
  <2>2. PICK j \in Roots : ids[j] = i
    BY <2>1
  <2>3. build[i].job = CHOOSE k \in Roots : ids[k] = i
    BY <2>1, <2>2
  <2>4. build[i].job \in Roots
    BY <2>2, <2>3
  <2> QED
    BY <2>4 DEF Roots, NextJobs, JoinSrc
<1>4. \A i \in Nat : \A k \in Jobs : CleanRow(i, k)
  BY <1>3 DEF CleanRow, RowOf
<1> QED
  BY <1>1, <1>2, <1>4 DEF CleanInv

(* Once no request is running, a build that still waits although one of its  *)
(* join sources failed has another source to hear of.  Where there is none it *)
(* has been removed: the failing request and the late ones, removeJoinBuilds  *)
(* and handleNewBuild, never each leave it to the other.                      *)
THEOREM FailedJoinRemoved == ASSUME LockReliable, Plain PROVE Spec => []FailedJoinCleaned
<1>1. CleanInv => FailedJoinCleaned
  <2> SUFFICES ASSUME CleanInv, Quiet, NEW i \in DOMAIN build, NEW j \in JoinSrc(build[i].job),
                      build[i].status = "CREATED", EndedAs(j, {"FAILURE"})
               PROVE  /\ \E k \in JoinSrc(build[i].job) : EndedAs(k, {"SUCCESS"})
                      /\ \E k \in JoinSrc(build[i].job) : ~EndedAs(k, {"SUCCESS", "FAILURE"})
    BY DEF FailedJoinCleaned
  <2>1. build[i].job \in Jobs /\ i \in Nat
    BY DEF CleanInv, StartInv, TypeInv, TypeOK, Row
  <2>2. /\ \E k \in JoinSrc(build[i].job) : Has(build, k, {"SUCCESS"})
        /\ Settled(build, build[i].job) => \E w \in Requests : LooksAt(w, i, build[i].job)
    BY <2>1 DEF CleanInv, CleanRow, RowOf
  <2>3. \A w \in Requests : ~LooksAt(w, i, build[i].job)
    BY DEF Quiet, LooksAt, Trig, Critical
  <2>4. \A k, S : EndedAs(k, S) <=> Has(build, k, S)
    BY DEF EndedAs, RowsOf, Has
  <2>5. \A k : Has(build, k, {"SUCCESS", "FAILURE"}) <=>
                 Has(build, k, {"SUCCESS"}) \/ Has(build, k, {"FAILURE"})
    BY DEF Has
  <2> QED
    BY <2>2, <2>3, <2>4, <2>5 DEF Settled
<1>2. LockReliable /\ Plain /\ Spec => []CleanInv
  BY InitClean, NextClean, PTL DEF Spec
<1> QED
  BY <1>1, <1>2, PTL

-----------------------------------------------------------------------------
(***************************************************************************)
(* Without the lock                                                        *)
(*                                                                         *)
(* Rows are duplicated then, and removed and overwritten by whoever comes  *)
(* late.  Still no join starts early if its sources are at the ends of     *)
(* chains: every job of A has one job before it at most, so that one       *)
(* request alone creates its build, and that after a success.  (A source   *)
(* with two OR sources of its own may get two builds, one of which fails   *)
(* and has the build after the other one removed.)                         *)
(***************************************************************************)
Chains(A) ==
  /\ A \subseteq Jobs
  /\ \A i, j \in Jobs : <<i, j>> \in JoinEdges => i \in A
  /\ \A k \in A : \A i, j \in Jobs : k \in NextJobs(i) /\ k \in NextJobs(j) => i = j
  /\ \A k \in A : \A j \in Jobs : k \in NextJobs(j) => j \in A

(* The id i, if it is still there, is a row of j; so are the recorded parents. *)
Means(t, n, i, j) == i < n /\ (i \in DOMAIN t => t[i].job = j)
Right(t, n, p)    == \A j \in Jobs : p[j] # NoId => Means(t, n, p[j], j)

(* A virtual build that was started and will be passed over. *)
Passed(w) == pc[w] = "unlock" /\ nb[w] # NoBuild /\ nb[w].status = "SUCCESS"

(* The next jobs of g are, or will be, looked at by w. *)
OnCur(w, g)  == pc[w] # "idle" /\ cur[w].job = g
OnDown(w, g) == \E x \in down[w] : x.job = g
OnNew(w, g)  == Passed(w) /\ nb[w].job = g
On(w, g)     == OnCur(w, g) \/ OnDown(w, g) \/ OnNew(w, g)

(* w has still to look for a build of j. *)
Due(w, j) ==
  \/ /\ pc[w] \in Trig /\ j \in NextJobs(cur[w].job)
     /\ j \in todo[w] \/ (pc[w] \in {"find", "store"} /\ tgt[w] = j)
  \/ \E x \in down[w] : j \in NextJobs(x.job)
  \/ Passed(w) /\ j \in NextJobs(nb[w].job)

Sourced(t, k) == \A j \in JoinSrc(k) : Has(t, j, {"SUCCESS"})

(* The objects a request holds are of the jobs they are taken for. *)
Objects(w) ==
  /\ pc[w] # "idle" => /\ Means(build, nextId, cur[w].id, cur[w].job)
                       /\ Right(build, nextId, cur[w].parents) /\ todo[w] \subseteq NextJobs(cur[w].job)
  /\ pc[w] \in Critical => tgt[w] \in NextJobs(cur[w].job) \ todo[w]
  /\ nb[w] # NoBuild => /\ pc[w] \in Critical \ {"find"} /\ nb[w].job = tgt[w]
                        /\ Means(build, nextId, nb[w].id, nb[w].job) /\ Right(build, nextId, nb[w].parents)
  /\ Right(build, nextId, par[w])
  /\ \A x \in down[w] : Means(build, nextId, x.id, x.job) /\ Right(build, nextId, x.parents)

(* Nothing on a chain is removed. *)
Spares(A, w) == /\ \A i \in del[w] : i < nextId /\ (i \in DOMAIN build => build[i].job \notin A)
                /\ pc[w] = "drop" => tgt[w] \notin A

(* What is about to be stored or started on a chain is not there, or waits. *)
Places(A, w) ==
  /\ tgt[w] \in A => /\ pc[w] \in {"check", "start"} => RowOf(build, nb[w].id, tgt[w])
                                                        /\ build[nb[w].id].status = "CREATED"
                     /\ pc[w] = "store" => nb[w] = NoBuild
  /\ pc[w] = "exec" => nb[w].status # "SUCCESS"
  /\ pc[w] = "start" /\ JoinOnly(tgt[w]) => Sourced(build, tgt[w])

(* A request looks once at what comes after a job, when the job has ended. *)
Passes(A, w) ==
  /\ \A g \in A : /\ OnCur(w, g) => Has(build, g, {IF pc[w] = "remove" THEN "FAILURE" ELSE "SUCCESS"})
                  /\ OnDown(w, g) \/ OnNew(w, g) => Has(build, g, {"SUCCESS"})
                  /\ OnDown(w, g) => ~OnCur(w, g) /\ ~OnNew(w, g)
                  /\ ~(OnCur(w, g) /\ OnNew(w, g))
  /\ \A x, y \in down[w] : x.job = y.job /\ x.job \in A => x = y

(* One build of a job on a chain, by one request, after a success. *)
OneEach(A) ==
  /\ \A i, k \in DOMAIN build : build[i].job = build[k].job /\ build[i].job \in A => i = k
  /\ \A u, w \in Requests : \A g \in A : On(u, g) /\ On(w, g) => u = w
  /\ \A j \in A : \A u \in Jobs : j \in NextJobs(u) /\ ~Empty(build, j) =>
       Has(build, u, {"SUCCESS"}) /\ \A w \in Requests : ~Due(w, j)

RowsRight == \A i \in DOMAIN build : Right(build, nextId, build[i].parents)

TrackInv(A) ==
  /\ \A w \in Requests : Objects(w) /\ Spares(A, w) /\ Places(A, w) /\ Passes(A, w)
  /\ RowsRight /\ OneEach(A) /\ JoinNotEarly

(* A step leaves the chains as they are, but for new builds and for the end *)
(* of builds.                                                               *)
Calm(A) ==
  /\ nextId' \in Nat /\ nextId <= nextId'
  /\ \A i \in DOMAIN build' : i \notin DOMAIN build => i = nextId /\ nextId < nextId'
  /\ \A i \in DOMAIN build' : i \in DOMAIN build => build'[i].job = build[i].job
  /\ \A i \in DOMAIN build : build[i].job \in A =>
       i \in DOMAIN build' /\ (build[i].status \in Ended => build'[i].status = build[i].status)

LEMMA CalmLasts ==
  ASSUME TypeInv, NEW A, Chains(A), Calm(A)
  PROVE  /\ \A i, j : Means(build, nextId, i, j) /\ i \in Nat => Means(build', nextId', i, j)
         /\ \A p \in Parents : Right(build, nextId, p) => Right(build', nextId', p)
         /\ \A j \in A : \A S \in SUBSET Ended : Has(build, j, S) => Has(build', j, S)
         /\ \A k \in Jobs : Sourced(build, k) => Sourced(build', k)
<1>1. nextId \in Nat /\ nextId' \in Nat
  BY DEF TypeInv, TypeOK, Calm
<1>2. ASSUME NEW i \in Nat, NEW j, Means(build, nextId, i, j)
      PROVE  Means(build', nextId', i, j)
  BY <1>1, <1>2 DEF Means, Calm
<1>3. ASSUME NEW p \in Parents, Right(build, nextId, p)
      PROVE  Right(build', nextId', p)
  BY <1>2, <1>3 DEF Right, Parents
<1>4. ASSUME NEW j \in A, NEW S \in SUBSET Ended, Has(build, j, S)
      PROVE  Has(build', j, S)
  <2>1. PICK i \in DOMAIN build : build[i].job = j /\ build[i].status \in S
    BY <1>4 DEF Has
  <2>2. i \in DOMAIN build' /\ build'[i].job = j /\ build'[i].status = build[i].status
    BY <2>1 DEF Calm
  <2> QED
    BY <2>1, <2>2 DEF Has
<1>5. ASSUME NEW k \in Jobs, Sourced(build, k)
      PROVE  Sourced(build', k)
  <2> SUFFICES ASSUME NEW j \in JoinSrc(k) PROVE Has(build', j, {"SUCCESS"})
    BY DEF Sourced
  <2>1. j \in A /\ Has(build, j, {"SUCCESS"}) /\ {"SUCCESS"} \in SUBSET Ended
    BY <1>5 DEF Sourced, JoinSrc, Chains, Ended
  <2> QED
    BY <2>1, <1>4
<1> QED
  BY <1>2, <1>3, <1>4, <1>5

(* The tables do not change. *)
LEMMA CalmStill ==
  ASSUME TypeInv, UNCHANGED <<build, nextId>>, NEW A
  PROVE  Calm(A)
BY DEF TypeInv, TypeOK, Calm

(* The object of a row, and what it is. *)
LEMMA ObjectTypes ==
  ASSUME TypeInv, NEW w \in Requests
  PROVE  /\ pc[w] # "idle" => cur[w].id \in Nat /\ cur[w].job \in Jobs /\ cur[w].parents \in Parents
         /\ nb[w] # NoBuild => nb[w].id \in Nat /\ nb[w].job \in Jobs /\ nb[w].parents \in Parents
         /\ par[w] \in Parents
         /\ \A x \in down[w] : x.id \in Nat /\ x.job \in Jobs /\ x.parents \in Parents
         /\ \A i \in del[w] : i \in Nat
BY DEF TypeInv, TypeOK, ObjectsOK, Row

(* What a request that does not move has in hand is not spoilt. *)
LEMMA ObjectsKept ==
  ASSUME TypeInv, NEW A, Chains(A), Calm(A), NEW w \in Requests, Same(w), Objects(w)
  PROVE  Objects(w)'
BY ObjectTypes, CalmLasts DEF Objects, Same

LEMMA SparesKept ==
  ASSUME TypeInv, NEW A, Calm(A), NEW w \in Requests, tgt'[w] = tgt[w], pc'[w] = pc[w], del'[w] \subseteq del[w],
         Spares(A, w)
  PROVE  Spares(A, w)'
<1>1. \A i \in del[w] : i \in Nat
  BY ObjectTypes
<1>2. nextId \in Nat
  BY DEF TypeInv, TypeOK
<1> QED
  BY <1>1, <1>2 DEF Spares, Calm

LEMMA PassesKept ==
  ASSUME TypeInv, NEW A, Chains(A), Calm(A), NEW w \in Requests, Same(w), Passes(A, w)
  PROVE  Passes(A, w)'
<1>1. \A g : /\ OnCur(w, g)' <=> OnCur(w, g)
             /\ OnDown(w, g)' <=> OnDown(w, g)
             /\ OnNew(w, g)' <=> OnNew(w, g)
  BY DEF OnCur, OnDown, OnNew, Passed, Same
<1>2. {"SUCCESS"} \in SUBSET Ended /\ {"FAILURE"} \in SUBSET Ended
  BY DEF Ended
<1> QED
  BY <1>1, <1>2, CalmLasts DEF Passes, Same

(* The builds of a chain that wait stay so, unless w or nobody looks at them. *)
LeavesWaiting(A, w) ==
  \A i \in DOMAIN build : build[i].job \in A /\ build[i].status = "CREATED" =>
    \/ build'[i].status = "CREATED" \/ build[i].job \in Roots
    \/ build[i].job = tgt[w] /\ pc[w] \in Critical

LEMMA PlacesKept ==
  ASSUME TypeInv, NEW A, Chains(A), TrackInv(A), Calm(A), NEW w \in Requests, LeavesWaiting(A, w),
         NEW u \in Requests \ {w}, Same(u)
  PROVE  Places(A, u)'
<1>1. Places(A, u) /\ Objects(u) /\ Objects(w) /\ OneEach(A)
  BY DEF TrackInv
<1>2. tgt[u] \in Jobs
  BY DEF TypeInv, TypeOK
<1>3. ASSUME tgt[u] \in A, pc[u] \in {"check", "start"}
      PROVE  RowOf(build', nb[u].id, tgt[u]) /\ build'[nb[u].id].status = "CREATED"
  <2>1. RowOf(build, nb[u].id, tgt[u]) /\ build[nb[u].id].status = "CREATED"
    BY <1>1, <1>3 DEF Places
  <2>2. RowOf(build', nb[u].id, tgt[u])
    BY <1>3, <2>1 DEF Calm, RowOf
  <2>3. pc[u] \in Critical /\ tgt[u] \in NextJobs(cur[u].job) /\ cur[u].job \in Jobs /\ pc[u] # "idle"
    BY <1>1, <1>3, ObjectTypes DEF Objects, Critical
  <2>4. tgt[u] \notin Roots
    BY <2>3 DEF Roots
  <2>5. ~(tgt[u] = tgt[w] /\ pc[w] \in Critical)
    <3> SUFFICES ASSUME tgt[u] = tgt[w], pc[w] \in Critical PROVE FALSE
      OBVIOUS
    <3>1. tgt[w] \in NextJobs(cur[w].job) /\ cur[w].job \in Jobs /\ pc[w] # "idle"
      BY <1>1, ObjectTypes DEF Objects, Critical
    <3>2. cur[u].job = cur[w].job /\ cur[u].job \in A
      BY <1>3, <2>3, <3>1 DEF Chains
    <3>3. On(u, cur[u].job) /\ On(w, cur[u].job)
      BY <2>3, <3>1, <3>2 DEF On, OnCur
    <3> QED
      BY <1>1, <3>2, <3>3 DEF OneEach
  <2> QED
    BY <1>3, <2>1, <2>2, <2>4, <2>5 DEF LeavesWaiting, RowOf
<1>4. pc[u] = "start" /\ JoinOnly(tgt[u]) => Sourced(build', tgt[u])
  BY <1>1, <1>2, CalmLasts DEF Places
<1> QED
  BY <1>1, <1>3, <1>4 DEF Places, Same

(* Rows that are started are so already, or of a job whose sources are done. *)
LEMMA NotEarlyKept ==
  ASSUME TypeInv, TypeInv', NEW A, Chains(A), Calm(A), JoinNotEarly,
         \A i \in DOMAIN build' : build'[i].status # "CREATED" /\ JoinOnly(build'[i].job) =>
           \/ i \in DOMAIN build /\ build[i].status # "CREATED"
           \/ Sourced(build, build'[i].job)
  PROVE  JoinNotEarly'
<1> SUFFICES ASSUME NEW i \in DOMAIN build', JoinOnly(build'[i].job), build'[i].status # "CREATED"
             PROVE  Sourced(build', build'[i].job)
  BY DEF JoinNotEarly, Sourced, Has, RowsOf
<1>1. CASE i \in DOMAIN build /\ build[i].status # "CREATED"
  <2>1. build'[i].job = build[i].job
    BY <1>1 DEF Calm
  <2>2. Sourced(build, build[i].job)
    BY <1>1, <2>1 DEF JoinNotEarly, Sourced, Has, RowsOf
  <2> QED
    BY <1>1, <2>1, <2>2, CalmLasts DEF TypeInv, TypeOK, Row
<1>2. CASE Sourced(build, build'[i].job)
  <2>1. build'[i].job \in Jobs
    BY DEF TypeInv, TypeOK, Row
  <2> QED
    BY <1>2, <2>1, CalmLasts
<1> QED
  BY <1>1, <1>2

(* No build on a chain is new; what w looks at it looked at before, or a job *)
(* of G has just ended.                                                     *)
LEMMA OneEachKept ==
  ASSUME TypeInv, NEW A, Chains(A), Calm(A), OneEach(A), NEW w \in Requests,
         \A u \in Requests \ {w} : Same(u),
         \A i \in DOMAIN build' : build'[i].job \in A => i \in DOMAIN build,
         NEW G, G \subseteq A,
         \A g \in G : ~Has(build, g, {"SUCCESS"}) /\ \A u \in Requests : ~On(u, g),
         \A g \in A : On(w, g)' => On(w, g) \/ g \in G,
         \A j \in A : Due(w, j)' => Due(w, j) \/ \E g \in G : j \in NextJobs(g)
  PROVE  OneEach(A)'
<1>1. \A u \in Requests \ {w} : \A g : (On(u, g)' <=> On(u, g)) /\ (Due(u, g)' <=> Due(u, g))
  BY DEF On, OnCur, OnDown, OnNew, Passed, Due, Same
<1>2. \A i, k \in DOMAIN build' : build'[i].job = build'[k].job /\ build'[i].job \in A => i = k
  BY DEF OneEach, Calm
<1>3. \A u, v \in Requests : \A g \in A : On(u, g)' /\ On(v, g)' => u = v
  BY <1>1 DEF OneEach
<1>4. ASSUME NEW j \in A, NEW u \in Jobs, j \in NextJobs(u), ~Empty(build', j)
      PROVE  Has(build', u, {"SUCCESS"}) /\ \A v \in Requests : ~Due(v, j)'
  <2>1. ~Empty(build, j)
    BY <1>4 DEF Empty, Calm
  <2>2. Has(build, u, {"SUCCESS"}) /\ \A v \in Requests : ~Due(v, j)
    BY <1>4, <2>1 DEF OneEach
  <2>3. {"SUCCESS"} \in SUBSET Ended /\ u \in A
    BY <1>4 DEF Ended, Chains
  <2>4. ASSUME NEW g \in G, j \in NextJobs(g) PROVE FALSE
    <3>1. g = u
      BY <1>4, <2>4 DEF Chains
    <3> QED
      BY <2>2, <3>1
  <2> QED
    BY <1>1, <2>2, <2>3, <2>4, CalmLasts
<1> QED
  BY <1>2, <1>3, <1>4 DEF OneEach

(* The parts of a step of w. *)
LEMMA TrackStep ==
  ASSUME TypeInv, TypeInv', NEW A, Chains(A), TrackInv(A), Calm(A), NEW w \in Requests,
         \A u \in Requests \ {w} : Same(u), LeavesWaiting(A, w),
         Objects(w)', Spares(A, w)', Places(A, w)', Passes(A, w)', RowsRight', OneEach(A)', JoinNotEarly'
  PROVE  TrackInv(A)'
<1>1. ASSUME NEW u \in Requests \ {w}
      PROVE  Objects(u)' /\ Spares(A, u)' /\ Places(A, u)' /\ Passes(A, u)'
  <2>1. Same(u) /\ Objects(u) /\ Spares(A, u) /\ Passes(A, u)
    BY DEF TrackInv
  <2>2. Spares(A, u)'
    BY <2>1, SparesKept DEF Same
  <2> QED
    BY <2>1, <2>2, ObjectsKept, PlacesKept, PassesKept
<1> QED
  BY <1>1 DEF TrackInv

(* A request at work, but for what an end, a virtual build or a new row adds. *)
LEMMA QuietTrack ==
  ASSUME TypeInv, TypeInv', NEW A, Chains(A), TrackInv(A), Calm(A), NEW w \in Requests,
         \A u \in Requests \ {w} : Same(u), LeavesWaiting(A, w), RowsRight',
         \A i \in DOMAIN build' : build'[i].job \in A => i \in DOMAIN build,
         \A i \in DOMAIN build' : build'[i].status # "CREATED" /\ JoinOnly(build'[i].job) =>
           \/ i \in DOMAIN build /\ build[i].status # "CREATED"
           \/ Sourced(build, build'[i].job),
         pc[w] # "idle", pc'[w] # "idle", pc'[w] = "remove" <=> pc[w] = "remove",
         cur'[w] = cur[w], down'[w] = down[w], todo'[w] \subseteq todo[w],
         pc'[w] \in Critical => tgt'[w] \in NextJobs(cur[w].job) \ todo'[w],
         pc'[w] \in {"find", "store"} =>
           tgt'[w] \in todo[w] \/ (pc[w] \in {"find", "store"} /\ tgt'[w] = tgt[w]),
         Right(build', nextId', par'[w]),
         nb'[w] # NoBuild => /\ pc'[w] \in Critical \ {"find"} /\ nb'[w].job = tgt'[w]
                             /\ Means(build', nextId', nb'[w].id, nb'[w].job)
                             /\ Right(build', nextId', nb'[w].parents),
         \A g \in A : OnNew(w, g)' => OnNew(w, g),
         Spares(A, w)', Places(A, w)'
  PROVE  TrackInv(A)'
<1>1. Objects(w) /\ Passes(A, w) /\ OneEach(A) /\ JoinNotEarly
  BY DEF TrackInv
<1>2. pc[w] \in Trig <=> pc[w] # "remove"
  BY DEF TypeInv, TypeOK, Labels, Trig, Critical
<1>3. pc'[w] \in Trig => pc[w] \in Trig
  BY <1>2 DEF Trig, Critical
<1>4. Objects(w)'
  BY <1>1, ObjectTypes, CalmLasts DEF Objects
<1>5. Passes(A, w)'
  <2>1. {"SUCCESS"} \in SUBSET Ended /\ {"FAILURE"} \in SUBSET Ended
    BY DEF Ended
  <2>2. ASSUME NEW g \in A
        PROVE  /\ OnCur(w, g)' <=> OnCur(w, g)
               /\ OnDown(w, g)' <=> OnDown(w, g)
               /\ OnNew(w, g)' => OnNew(w, g)
    BY DEF OnCur, OnDown
  <2> QED
    BY <1>1, <2>1, <2>2, CalmLasts DEF Passes
<1>6. ASSUME NEW j \in A, Due(w, j)'
      PROVE  Due(w, j)
  <2>1. CASE /\ pc'[w] \in Trig /\ j \in NextJobs(cur'[w].job)
             /\ j \in todo'[w] \/ (pc'[w] \in {"find", "store"} /\ tgt'[w] = j)
    BY <1>3, <2>1 DEF Due
  <2>2. CASE \E x \in down'[w] : j \in NextJobs(x.job)
    BY <2>2 DEF Due
  <2>3. CASE Passed(w)' /\ j \in NextJobs(nb'[w].job)
    <3>1. nb'[w].job \in Jobs
      BY <2>3 DEF TypeInv, TypeOK, Row, Passed
    <3>2. nb'[w].job \in A
      BY <2>3, <3>1 DEF Chains
    <3>3. OnNew(w, nb'[w].job)
      BY <2>3, <3>2 DEF OnNew
    <3> QED
      BY <2>3, <3>3 DEF OnNew, Due
  <2> QED
    BY <1>6, <2>1, <2>2, <2>3 DEF Due
<1>7. \A g \in A : On(w, g)' => On(w, g)
  BY DEF On, OnCur, OnDown
<1>8. OneEach(A)'
  <2>1. PICK G : G = {}
    OBVIOUS
  <2>2. /\ G \subseteq A /\ \A g \in A : On(w, g)' => On(w, g) \/ g \in G
        /\ \A j \in A : Due(w, j)' => Due(w, j) \/ \E g \in G : j \in NextJobs(g)
        /\ \A g \in G : ~Has(build, g, {"SUCCESS"}) /\ \A u \in Requests : ~On(u, g)
    BY <1>6, <1>7, <2>1
  <2> QED
    BY <1>1, <2>2, OneEachKept
<1>9. JoinNotEarly'
  BY <1>1, NotEarlyKept
<1> QED
  BY <1>4, <1>5, <1>8, <1>9, TrackStep

(* The same, when the tables do not change. *)
LEMMA StillTrack ==
  ASSUME TypeInv, TypeInv', NEW A, Chains(A), TrackInv(A), UNCHANGED <<build, nextId>>, NEW w \in Requests,
         \A u \in Requests \ {w} : Same(u),
         pc[w] # "idle", pc'[w] # "idle", pc'[w] = "remove" <=> pc[w] = "remove",
         cur'[w] = cur[w], down'[w] = down[w], todo'[w] \subseteq todo[w],
         pc'[w] \in Critical => tgt'[w] \in NextJobs(cur[w].job) \ todo'[w],
         pc'[w] \in {"find", "store"} =>
           tgt'[w] \in todo[w] \/ (pc[w] \in {"find", "store"} /\ tgt'[w] = tgt[w]),
         Right(build, nextId, par'[w]),
         nb'[w] # NoBuild => /\ pc'[w] \in Critical \ {"find"} /\ nb'[w].job = tgt'[w]
                             /\ Means(build, nextId, nb'[w].id, nb'[w].job)
                             /\ Right(build, nextId, nb'[w].parents),
         \A g \in A : OnNew(w, g)' => OnNew(w, g),
         Spares(A, w)', Places(A, w)'
  PROVE  TrackInv(A)'
<1>1. Calm(A)
  BY CalmStill
<1>2. RowsRight' /\ LeavesWaiting(A, w)
  BY DEF TrackInv, RowsRight, LeavesWaiting
<1> QED
  BY <1>1, <1>2, QuietTrack

(* A build on a chain that has not ended is the only one, and nobody looks at *)
(* what comes after it.                                                       *)
LEMMA Unlooked ==
  ASSUME NEW A, TrackInv(A), NEW i \in DOMAIN build, build[i].job \in A, build[i].status \notin Ended
  PROVE  /\ \A S \in SUBSET Ended : ~Has(build, build[i].job, S)
         /\ \A u \in Requests : ~On(u, build[i].job)
<1>1. \A S \in SUBSET Ended : ~Has(build, build[i].job, S)
  BY DEF TrackInv, OneEach, Has
<1>2. {"SUCCESS"} \in SUBSET Ended /\ {"FAILURE"} \in SUBSET Ended
  BY DEF Ended
<1>3. ASSUME NEW u \in Requests
      PROVE  ~On(u, build[i].job)
  <2>1. Passes(A, u)
    BY DEF TrackInv
  <2> QED
    BY <1>1, <1>2, <2>1 DEF Passes, On
<1> QED
  BY <1>1, <1>3

(* The parents computed for the next job are rows of the jobs they stand for. *)
LEMMA ComputedRight ==
  ASSUME TypeInv, NEW c \in Row, NEW k \in Jobs, Right(build, nextId, c.parents), Means(build, nextId, c.id, c.job)
  PROVE  Right(build, nextId, OwnParents(c)) /\ Right(build, nextId, FilledParents(c, k))
<1>1. \A j \in Jobs : OwnParents(c)[j] = IF j = c.job THEN c.id ELSE c.parents[j]
  BY DEF OwnParents, Row, Parents
<1>2. Right(build, nextId, OwnParents(c))
  BY <1>1 DEF Right
<1>3. ASSUME NEW j \in Jobs, Latest(j) # NoId
      PROVE  Means(build, nextId, Latest(j), j)
  <2>1. RowsOf(j) # {}
    BY <1>3 DEF Latest
  <2>2. Latest(j) \in RowsOf(j)
    BY <2>1, LatestType DEF TypeInv
  <2> QED
    BY <2>2 DEF RowsOf, Means, TypeInv, TypeOK, NoId
<1>4. Right(build, nextId, FilledParents(c, k))
  BY <1>2, <1>3 DEF FilledParents, Right
<1> QED
  BY <1>2, <1>4

(* removeJoinBuilds looks up the builds it will remove: none on a chain, where *)
(* a build is there only after a success.                                      *)
LEMMA RemoveReadTrack ==
  ASSUME TypeInv, TypeInv', NEW A, Chains(A), TrackInv(A), NEW w \in Requests, RemoveRead(w)
  PROVE  TrackInv(A)'
<1>1. /\ pc[w] = "remove" /\ UNCHANGED <<build, nextId, pc, cur, tgt, nb, par, down>>
      /\ \A u \in Requests \ {w} : Same(u)
      /\ todo'[w] \subseteq todo[w]
  BY DEF RemoveRead, db, Same, TypeInv, TypeOK
<1>2. Objects(w) /\ Spares(A, w) /\ Places(A, w) /\ Passes(A, w) /\ OneEach(A)
  BY DEF TrackInv
<1>3. Spares(A, w)'
  <2>1. PICK j \in todo[w] :
          \/ RowsOf(j) = {} /\ UNCHANGED del
          \/ \E i \in RowsOf(j) : del' = [del EXCEPT ![w] = IF Removable(build[i]) THEN @ \cup {i} ELSE @]
    BY DEF RemoveRead
  <2>2. ASSUME NEW i \in RowsOf(j), Removable(build[i])
        PROVE  i < nextId /\ build[i].job \notin A
    <3>1. i \in DOMAIN build /\ build[i].job = j /\ i < nextId
      BY <2>2 DEF RowsOf, TypeInv, TypeOK
    <3> SUFFICES ASSUME j \in A PROVE FALSE
      BY <3>1
    <3>2. j \in NextJobs(cur[w].job) /\ cur[w].job \in Jobs
      BY <1>1, <1>2, <2>1, ObjectTypes DEF Objects
    <3>3. cur[w].job \in A /\ Has(build, cur[w].job, {"SUCCESS"})
      BY <1>2, <3>1, <3>2 DEF Chains, OneEach, Empty
    <3>4. Has(build, cur[w].job, {"FAILURE"})
      BY <1>1, <1>2, <3>3 DEF Passes, OnCur
    <3> QED
      BY <1>2, <3>3, <3>4 DEF OneEach, Has
  <2>3. \A i \in del'[w] : i \in del[w] \/ (i \in RowsOf(j) /\ Removable(build[i]))
    BY <2>1 DEF TypeInv, TypeOK
  <2> QED
    BY <1>1, <1>2, <2>2, <2>3 DEF Spares
<1>4. Places(A, w)'
  BY <1>1, <1>2 DEF Places
<1>5. /\ pc'[w] = "remove" /\ cur'[w] = cur[w] /\ down'[w] = down[w] /\ nb'[w] = nb[w] /\ par'[w] = par[w]
      /\ "remove" \notin Critical
  BY <1>1 DEF Critical
<1>6. nb[w] = NoBuild /\ Right(build, nextId, par[w])
  BY <1>1, <1>2, <1>5 DEF Objects
<1>7. \A g \in A : OnNew(w, g)' => OnNew(w, g)
  BY <1>5, <1>6 DEF OnNew, Passed
<1> QED
  BY <1>1, <1>3, <1>4, <1>5, <1>6, <1>7, StillTrack

(* And removes them. *)
LEMMA RemoveRowTrack ==
  ASSUME TypeInv, TypeInv', NEW A, Chains(A), TrackInv(A), NEW w \in Requests, RemoveRow(w)
  PROVE  TrackInv(A)'
<1>1. PICK i \in del[w] : build' = Without(i) /\ del' = [del EXCEPT ![w] = @ \ {i}]
  BY DEF RemoveRow
<1>2. /\ pc[w] = "remove" /\ UNCHANGED <<nextId, pc, cur, todo, tgt, nb, par, down>>
      /\ \A u \in Requests \ {w} : Same(u)
      /\ del'[w] \subseteq del[w]
  BY <1>1 DEF RemoveRow, Same, TypeInv, TypeOK
<1>3. Objects(w) /\ Spares(A, w) /\ Places(A, w) /\ RowsRight
  BY DEF TrackInv
<1>4. DOMAIN build' = DOMAIN build \ {i} /\ \A k \in DOMAIN build' : build'[k] = build[k]
  BY <1>1 DEF Without
<1>5. i \in DOMAIN build => build[i].job \notin A
  BY <1>3 DEF Spares
<1>6. Calm(A) /\ LeavesWaiting(A, w)
  BY <1>2, <1>4, <1>5 DEF Calm, LeavesWaiting, TypeInv, TypeOK
<1>7. RowsRight'
  BY <1>3, <1>4, <1>6, CalmLasts DEF RowsRight, TypeInv, TypeOK, Row
<1>8. /\ pc'[w] = "remove" /\ cur'[w] = cur[w] /\ down'[w] = down[w] /\ nb'[w] = nb[w] /\ par'[w] = par[w]
      /\ tgt'[w] = tgt[w] /\ todo'[w] = todo[w] /\ "remove" \notin Critical
  BY <1>2 DEF Critical
<1>9. nb[w] = NoBuild /\ Right(build', nextId', par'[w])
  BY <1>2, <1>3, <1>6, <1>8, CalmLasts DEF Objects, TypeInv, TypeOK
<1>10. Spares(A, w)'
  BY <1>2, <1>3, <1>6, <1>8, SparesKept
<1>11. Places(A, w)'
  BY <1>2, <1>3, <1>8 DEF Places
<1>12. \A g \in A : OnNew(w, g)' => OnNew(w, g)
  BY <1>8, <1>9 DEF OnNew, Passed
<1> QED
  BY <1>2, <1>4, <1>6, <1>7, <1>8, <1>9, <1>10, <1>11, <1>12, QuietTrack

(* A request is answered. *)
LEMMA ForgetTrack ==
  ASSUME TypeInv, TypeInv', NEW A, Chains(A), TrackInv(A), NEW w \in Requests, RemoveDone(w) \/ TriggerDone(w)
  PROVE  TrackInv(A)'
<1>1. /\ pc[w] \in {"remove", "next"} /\ pc'[w] = "idle"
      /\ UNCHANGED <<build, nextId, todo, tgt, nb, par, del, down>>
      /\ \A u \in Requests \ {w} : Same(u)
  BY DEF RemoveDone, TriggerDone, Forget, db, Same, TypeInv, TypeOK
<1>2. Objects(w) /\ Spares(A, w) /\ Places(A, w) /\ Passes(A, w) /\ RowsRight /\ OneEach(A) /\ JoinNotEarly
  BY DEF TrackInv
<1>3. Calm(A) /\ LeavesWaiting(A, w) /\ RowsRight' /\ JoinNotEarly'
  BY <1>1, <1>2, CalmStill DEF LeavesWaiting, RowsRight, JoinNotEarly, RowsOf
<1>4. nb[w] = NoBuild /\ "idle" \notin Critical /\ "idle" \notin Trig
  BY <1>1, <1>2 DEF Objects, Critical, Trig
<1>5. Objects(w)' /\ Spares(A, w)' /\ Places(A, w)'
  BY <1>1, <1>2, <1>4 DEF Objects, Spares, Places
<1>6. \A g : /\ ~OnCur(w, g)' /\ ~OnNew(w, g)'
             /\ OnDown(w, g)' <=> OnDown(w, g)
  BY <1>1, <1>4 DEF OnCur, OnDown, OnNew, Passed
<1>7. Passes(A, w)'
  BY <1>1, <1>2, <1>6 DEF Passes
<1>8. OneEach(A)'
  <2>1. PICK G : G = {}
    OBVIOUS
  <2>2. \A j \in A : Due(w, j)' => Due(w, j)
    BY <1>1, <1>4 DEF Due, Passed
  <2>3. /\ G \subseteq A /\ \A g \in A : On(w, g)' => On(w, g) \/ g \in G
        /\ \A j \in A : Due(w, j)' => Due(w, j) \/ \E g \in G : j \in NextJobs(g)
        /\ \A g \in G : ~Has(build, g, {"SUCCESS"}) /\ \A u \in Requests : ~On(u, g)
    BY <1>6, <2>1, <2>2 DEF On
  <2>4. \A i \in DOMAIN build' : build'[i].job \in A => i \in DOMAIN build
    BY <1>1
  <2> QED
    BY <1>1, <1>2, <1>3, <2>3, <2>4, OneEachKept
<1> QED
  BY <1>1, <1>3, <1>5, <1>7, <1>8, TrackStep

(* The next of the jobs after cur is taken. *)
LEMMA LockNextTrack ==
  ASSUME TypeInv, TypeInv', NEW A, Chains(A), TrackInv(A), NEW w \in Requests, LockNext(w)
  PROVE  TrackInv(A)'
<1>1. PICK j \in todo[w] : tgt' = [tgt EXCEPT ![w] = j] /\ todo' = [todo EXCEPT ![w] = @ \ {j}]
  BY DEF LockNext
<1>2. /\ pc[w] = "next" /\ pc'[w] = "find" /\ UNCHANGED <<build, nextId, cur, nb, par, del, down>>
      /\ tgt'[w] = j /\ todo'[w] = todo[w] \ {j}
      /\ \A u \in Requests \ {w} : Same(u)
  BY <1>1 DEF LockNext, db, Same, TypeInv, TypeOK
<1>3. Objects(w) /\ Spares(A, w)
  BY DEF TrackInv
<1>4. nb'[w] = NoBuild /\ j \in NextJobs(cur[w].job) /\ Right(build, nextId, par'[w])
  BY <1>2, <1>3 DEF Objects, Critical
<1>5. Spares(A, w)' /\ Places(A, w)'
  BY <1>2, <1>3 DEF Spares, Places
<1>6. \A g \in A : OnNew(w, g)' => OnNew(w, g)
  BY <1>2 DEF OnNew, Passed
<1>7. /\ cur'[w] = cur[w] /\ down'[w] = down[w] /\ todo'[w] \subseteq todo[w]
      /\ pc[w] # "idle" /\ pc'[w] # "idle" /\ (pc'[w] = "remove" <=> pc[w] = "remove")
  BY <1>2
<1> QED
  BY <1>1, <1>2, <1>4, <1>5, <1>6, <1>7, StillTrack

(* A build of a job on a chain is not found. *)
LEMMA FindTrack ==
  ASSUME TypeInv, TypeInv', NEW A, Chains(A), TrackInv(A), NEW w \in Requests, Find(w)
  PROVE  TrackInv(A)'
<1>1. /\ pc[w] = "find" /\ pc'[w] = "store" /\ UNCHANGED <<build, nextId, cur, todo, tgt, del, down>>
      /\ \A u \in Requests \ {w} : Same(u)
  BY DEF Find, db, Same, TypeInv, TypeOK
<1>2. Objects(w) /\ Spares(A, w) /\ OneEach(A) /\ RowsRight
  BY DEF TrackInv
<1>3. /\ cur[w] \in Row /\ cur[w].job \in Jobs /\ tgt[w] \in NextJobs(cur[w].job) \ todo[w] /\ tgt[w] \in Jobs
      /\ Right(build, nextId, cur[w].parents) /\ Means(build, nextId, cur[w].id, cur[w].job)
  BY <1>1, <1>2, ObjectTypes DEF Objects, Critical, TypeInv, TypeOK, ObjectsOK
<1>4. Right(build, nextId, par'[w])
  BY <1>1, <1>3, ComputedRight DEF Find, TypeInv, TypeOK
<1>5. nb'[w] = NoBuild \/ \E i \in RowsOf(tgt[w]) : nb'[w] = build[i]
  BY DEF Find, TypeInv, TypeOK
<1>6. nb'[w] # NoBuild => /\ nb'[w].job = tgt[w] /\ Means(build, nextId, nb'[w].id, nb'[w].job)
                          /\ Right(build, nextId, nb'[w].parents)
  BY <1>2, <1>5 DEF RowsOf, Means, RowsRight, TypeInv, TypeOK
<1>7. tgt[w] \in A => nb'[w] = NoBuild
  <2> SUFFICES ASSUME tgt[w] \in A PROVE RowsOf(tgt[w]) = {}
    BY <1>5
  <2>1. Due(w, tgt[w])
    BY <1>1, <1>3 DEF Due, Trig, Critical
  <2> QED
    BY <1>2, <1>3, <2>1 DEF OneEach, Empty, RowsOf
<1>8. Spares(A, w)' /\ Places(A, w)'
  BY <1>1, <1>2, <1>7 DEF Spares, Places
<1>9. \A g \in A : OnNew(w, g)' => OnNew(w, g)
  BY <1>1 DEF OnNew, Passed
<1>10. /\ cur'[w] = cur[w] /\ down'[w] = down[w] /\ todo'[w] = todo[w] /\ tgt'[w] = tgt[w]
       /\ "store" \in Critical \ {"find"}
  BY <1>1 DEF Critical
<1> QED
  BY <1>1, <1>3, <1>4, <1>6, <1>8, <1>9, <1>10, StillTrack

(* The verdict: on a chain the one build before is the success that brought *)
(* the request here; whatever is started has its sources done.              *)
LEMMA CheckTrack ==
  ASSUME TypeInv, TypeInv', NEW A, Chains(A), TrackInv(A), NEW w \in Requests, Check(w)
  PROVE  TrackInv(A)'
<1> DEFINE v == Verdict(tgt[w], nb[w])
<1>1. /\ pc[w] = "check" /\ pc'[w] = v /\ nb'[w] = IF v = "unlock" THEN NoBuild ELSE nb[w]
      /\ UNCHANGED <<build, nextId, cur, todo, tgt, par, del, down>>
      /\ \A u \in Requests \ {w} : Same(u)
  BY DEF Check, db, Same, TypeInv, TypeOK
<1>2. v \in {"unlock", "drop", "start"}
  BY DEF Verdict
<1>3. Objects(w) /\ Spares(A, w) /\ Places(A, w) /\ Passes(A, w) /\ OneEach(A)
  BY DEF TrackInv
<1>4. /\ nb[w] \in Row /\ nb[w] # NoBuild /\ nb[w].job = tgt[w] /\ tgt[w] \in Jobs
      /\ Means(build, nextId, nb[w].id, nb[w].job) /\ Right(build, nextId, nb[w].parents)
      /\ tgt[w] \in NextJobs(cur[w].job) \ todo[w] /\ cur[w].job \in Jobs /\ Right(build, nextId, par[w])
  <2>1. nb[w] \in Row /\ nb[w].id # NoId
    BY <1>1 DEF TypeInv, ObjectsOK, Row
  <2>2. nb[w] # NoBuild
    BY <2>1 DEF NoBuild
  <2> QED
    BY <1>1, <1>3, <2>1, <2>2, ObjectTypes DEF Objects, Critical, TypeInv, TypeOK
<1>5. v # "unlock" => /\ Known(tgt[w], nb[w].parents) = JoinSrc(tgt[w])
                      /\ \A j \in JoinSrc(tgt[w]) : /\ RowOf(build, nb[w].parents[j], j)
                                                    /\ build[nb[w].parents[j]].status \in Ended
  <2> SUFFICES ASSUME v # "unlock" PROVE /\ Known(tgt[w], nb[w].parents) = JoinSrc(tgt[w])
                      /\ \A j \in JoinSrc(tgt[w]) : /\ RowOf(build, nb[w].parents[j], j)
                                                    /\ build[nb[w].parents[j]].status \in Ended
    OBVIOUS
  <2>1. ~Missing(tgt[w], nb[w].parents) /\ Done(tgt[w], nb[w].parents)
    BY DEF Verdict
  <2>2. \A j \in JoinSrc(tgt[w]) : j \in Jobs /\ nb[w].parents[j] # NoId
    BY <2>1 DEF Done, Known, JoinSrc
  <2> QED
    BY <1>4, <2>1, <2>2 DEF Done, Missing, Right, Means, RowOf
<1>6. tgt[w] \in A => v # "drop"
  <2> SUFFICES ASSUME tgt[w] \in A, v = "drop" PROVE FALSE
    OBVIOUS
  <2>1. HasFailure(tgt[w], nb[w].parents)
    BY DEF Verdict
  <2>2. PICK j \in JoinSrc(tgt[w]) : build[nb[w].parents[j]].status \in Failed
    BY <1>5, <2>1 DEF HasFailure
  <2>3. tgt[w] \in NextJobs(j) /\ j \in Jobs
    BY <1>4 DEF JoinSrc, NextJobs
  <2>4. j = cur[w].job /\ j \in A
    BY <1>4, <2>3 DEF Chains
  <2>5. Has(build, j, {"SUCCESS"})
    BY <1>1, <1>3, <2>4 DEF Passes, OnCur
  <2>6. RowOf(build, nb[w].parents[j], j)
    BY <1>5, <2>2
  <2> QED
    BY <1>3, <2>2, <2>4, <2>5, <2>6 DEF OneEach, Has, RowOf, Failed
<1>7. v = "start" => Sourced(build, tgt[w])
  <2> SUFFICES ASSUME v = "start", NEW j \in JoinSrc(tgt[w]) PROVE Has(build, j, {"SUCCESS"})
    BY DEF Sourced
  <2>1. ~HasFailure(tgt[w], nb[w].parents)
    BY DEF Verdict
  <2>2. build[nb[w].parents[j]].status \in Ended \ Failed
    BY <1>5, <2>1 DEF HasFailure
  <2> QED
    BY <1>5, <2>2 DEF Has, RowOf, Ended, Failed
<1>8. \A g \in A : OnNew(w, g)' => OnNew(w, g)
  BY <1>1 DEF OnNew, Passed
<1>9. Spares(A, w)'
  BY <1>1, <1>3, <1>6 DEF Spares
<1>10. Places(A, w)'
  BY <1>1, <1>2, <1>3, <1>4, <1>7 DEF Places
<1>11. /\ cur'[w] = cur[w] /\ down'[w] = down[w] /\ todo'[w] = todo[w] /\ tgt'[w] = tgt[w] /\ par'[w] = par[w]
       /\ {"unlock", "drop", "start"} \subseteq Critical \ {"find"}
  BY <1>1 DEF Critical
<1>12. /\ pc[w] # "idle" /\ pc'[w] # "idle" /\ (pc'[w] = "remove" <=> pc[w] = "remove")
       /\ pc'[w] \notin {"find", "store"} /\ pc'[w] \in Critical \ {"find"}
  BY <1>1, <1>2, <1>11
<1>13. nb'[w] # NoBuild => nb'[w] = nb[w]
  BY <1>1
<1> HIDE DEF v
<1> QED
  BY <1>1, <1>4, <1>8, <1>9, <1>10, <1>11, <1>12, <1>13, StillTrack

(* The executor is told. *)
LEMMA ExecTrack ==
  ASSUME TypeInv, TypeInv', NEW A, Chains(A), TrackInv(A), NEW w \in Requests, Exec(w)
  PROVE  TrackInv(A)'
<1>1. /\ pc[w] = "exec" /\ pc'[w] = "unlock"
      /\ UNCHANGED <<build, nextId, cur, todo, tgt, nb, par, del, down>>
      /\ \A u \in Requests \ {w} : Same(u)
  BY DEF Exec, Same, TypeInv, TypeOK
<1>2. Objects(w) /\ Spares(A, w) /\ Places(A, w)
  BY DEF TrackInv
<1>3. Spares(A, w)' /\ Places(A, w)'
  BY <1>1, <1>2 DEF Spares, Places
<1>4. \A g \in A : OnNew(w, g)' => OnNew(w, g)
  BY <1>1, <1>2 DEF OnNew, Passed, Places
<1>5. /\ cur'[w] = cur[w] /\ down'[w] = down[w] /\ todo'[w] = todo[w] /\ tgt'[w] = tgt[w] /\ par'[w] = par[w]
      /\ nb'[w] = nb[w] /\ {"unlock", "exec"} \subseteq Critical \ {"find"}
  BY <1>1 DEF Critical
<1>6. /\ tgt[w] \in NextJobs(cur[w].job) \ todo[w] /\ Right(build, nextId, par[w])
      /\ nb[w] # NoBuild => /\ nb[w].job = tgt[w] /\ Means(build, nextId, nb[w].id, nb[w].job)
                            /\ Right(build, nextId, nb[w].parents)
  BY <1>1, <1>2, <1>5 DEF Objects
<1> QED
  BY <1>1, <1>3, <1>4, <1>5, <1>6, StillTrack

(* A join that cannot succeed is removed: it is not on a chain. *)
LEMMA DropTrack ==
  ASSUME TypeInv, TypeInv', NEW A, Chains(A), TrackInv(A), NEW w \in Requests, Drop(w)
  PROVE  TrackInv(A)'
<1>1. /\ pc[w] = "drop" /\ pc'[w] = "unlock" /\ nb'[w] = NoBuild /\ build' = Without(nb[w].id)
      /\ UNCHANGED <<nextId, cur, todo, tgt, par, del, down>>
      /\ \A u \in Requests \ {w} : Same(u)
  BY DEF Drop, Same, TypeInv, TypeOK
<1>2. Objects(w) /\ Spares(A, w) /\ Places(A, w) /\ RowsRight
  BY DEF TrackInv
<1>3. nb[w] # NoBuild
  BY <1>1 DEF TypeInv, ObjectsOK, Row, NoBuild
<1>4. /\ tgt[w] \notin A /\ nb[w].job = tgt[w] /\ Means(build, nextId, nb[w].id, tgt[w])
      /\ tgt[w] \in NextJobs(cur[w].job) \ todo[w]
  BY <1>1, <1>2, <1>3 DEF Objects, Spares, Critical
<1>5. DOMAIN build' = DOMAIN build \ {nb[w].id} /\ \A k \in DOMAIN build' : build'[k] = build[k]
  BY <1>1 DEF Without
<1>6. Calm(A) /\ LeavesWaiting(A, w)
  BY <1>1, <1>4, <1>5 DEF Calm, LeavesWaiting, Means, TypeInv, TypeOK
<1>7. RowsRight'
  BY <1>2, <1>5, <1>6, CalmLasts DEF RowsRight, TypeInv, TypeOK, Row
<1>8. Right(build', nextId', par'[w])
  BY <1>1, <1>2, <1>6, CalmLasts DEF Objects, TypeInv, TypeOK
<1>9. /\ pc'[w] = "unlock" /\ cur'[w] = cur[w] /\ down'[w] = down[w] /\ par'[w] = par[w]
      /\ tgt'[w] = tgt[w] /\ todo'[w] = todo[w] /\ "unlock" \in Critical \ {"find"}
      /\ del'[w] = del[w]
  BY <1>1 DEF Critical
<1>10. Spares(A, w)' /\ Places(A, w)'
  BY <1>1, <1>2, <1>4, <1>5, <1>9 DEF Spares, Places
<1>11. \A g \in A : OnNew(w, g)' => OnNew(w, g)
  BY <1>1 DEF OnNew, Passed
<1> QED
  BY <1>1, <1>4, <1>5, <1>6, <1>7, <1>8, <1>9, <1>10, <1>11, QuietTrack

(* A build is created: on a chain it is the first of its job, and nobody is  *)
(* left to look for another.                                                 *)
LEMMA CreateTrack ==
  ASSUME TypeInv, TypeInv', NEW A, Chains(A), TrackInv(A), NEW w \in Requests, NEW started \in BOOLEAN,
         pc[w] = "store", nb[w] = NoBuild, CreateBuild(w, started),
         UNCHANGED <<cur, todo, tgt, par, del, down>>, \A u \in Requests \ {w} : Same(u),
         IsOr(cur[w].job, tgt[w]) \/ ~started,
         pc'[w] = "exec" \/ (pc'[w] = "start" /\ IsOr(cur[w].job, tgt[w]) /\ ~started)
                         \/ (pc'[w] = "check" /\ ~started)
  PROVE  TrackInv(A)'
<1> DEFINE r == [id |-> nextId, job |-> tgt[w], parents |-> par[w],
                 status |-> IF started THEN "QUEUED" ELSE "CREATED"]
<1>1. /\ nextId \in Nat /\ nextId' = nextId + 1 /\ nextId \notin DOMAIN build
      /\ DOMAIN build' = DOMAIN build \cup {nextId} /\ build'[nextId] = r /\ nb'[w] = r
      /\ \A i \in DOMAIN build : build'[i] = build[i]
  BY DEF CreateBuild, Inserted, TypeInv, TypeOK
<1>2. Objects(w) /\ Spares(A, w) /\ Places(A, w) /\ Passes(A, w) /\ RowsRight /\ OneEach(A) /\ JoinNotEarly
  BY DEF TrackInv
<1>3. /\ tgt[w] \in NextJobs(cur[w].job) \ todo[w] /\ tgt[w] \in Jobs /\ Right(build, nextId, par[w])
      /\ cur[w].job \in Jobs /\ par[w] \in Parents
  BY <1>2, ObjectTypes DEF Objects, Critical, TypeInv, TypeOK
<1>4. Calm(A) /\ LeavesWaiting(A, w)
  BY <1>1 DEF Calm, LeavesWaiting
<1>5. r.id = nextId /\ r.job = tgt[w] /\ r.parents = par[w] /\ r.status = IF started THEN "QUEUED" ELSE "CREATED"
  OBVIOUS
<1> HIDE DEF r
<1>6. RowsRight'
  <2> SUFFICES ASSUME NEW i \in DOMAIN build' PROVE Right(build', nextId', build'[i].parents)
    BY DEF RowsRight
  <2>1. CASE i = nextId
    BY <1>1, <1>3, <1>4, <1>5, <2>1, CalmLasts
  <2>2. CASE i \in DOMAIN build
    <3>1. build[i].parents \in Parents /\ Right(build, nextId, build[i].parents)
      BY <1>2, <2>2 DEF RowsRight, TypeInv, TypeOK, Row
    <3> QED
      BY <1>1, <1>4, <2>2, <3>1, CalmLasts
  <2> QED
    BY <1>1, <2>1, <2>2
<1>7. \A i \in DOMAIN build' : build'[i].status # "CREATED" /\ JoinOnly(build'[i].job) =>
         \/ i \in DOMAIN build /\ build[i].status # "CREATED"
         \/ Sourced(build, build'[i].job)
  <2>1. started => ~JoinOnly(tgt[w])
    BY <1>3 DEF JoinOnly
  <2> QED
    BY <1>1, <1>5, <2>1
<1>8. /\ cur'[w] = cur[w] /\ down'[w] = down[w] /\ par'[w] = par[w] /\ tgt'[w] = tgt[w] /\ todo'[w] = todo[w]
      /\ del'[w] = del[w] /\ pc'[w] \in {"exec", "start", "check"}
      /\ {"exec", "start", "check", "store"} \subseteq Critical \ {"find"}
      /\ "unlock" \notin {"exec", "start", "check", "store"} /\ Critical \subseteq Trig
  BY DEF Critical, Trig
<1>9. /\ Right(build', nextId', par'[w]) /\ nb'[w].job = tgt'[w]
      /\ Means(build', nextId', nb'[w].id, nb'[w].job) /\ Right(build', nextId', nb'[w].parents)
  BY <1>1, <1>3, <1>4, <1>5, <1>8, CalmLasts DEF Means
<1>10. \A g : ~OnNew(w, g)' /\ ~OnNew(w, g)
  BY <1>8 DEF OnNew, Passed
<1>11. Spares(A, w)'
  <2>1. \A i \in del[w] : i \in Nat
    BY ObjectTypes
  <2> QED
    BY <1>1, <1>2, <1>8, <2>1 DEF Spares
<1>12. Places(A, w)'
  <2>1. IsOr(cur[w].job, tgt[w]) => ~JoinOnly(tgt[w])
    BY <1>3 DEF JoinOnly
  <2> QED
    BY <1>1, <1>5, <1>8, <2>1 DEF Places, RowOf
<1>13. CASE tgt[w] \notin A
  BY <1>1, <1>3, <1>4, <1>5, <1>6, <1>7, <1>8, <1>9, <1>10, <1>11, <1>12, <1>13, QuietTrack
<1>14. CASE tgt[w] \in A
  <2>1. Objects(w)'
    <3>1. nb'[w] \in Row \/ nb'[w] = NoBuild
      BY DEF TypeInv, TypeOK
    <3> QED
      BY <1>2, <1>3, <1>4, <1>8, <1>9, ObjectTypes, CalmLasts DEF Objects
  <2>2. Passes(A, w)'
    <3>1. {"SUCCESS"} \in SUBSET Ended /\ {"FAILURE"} \in SUBSET Ended
      BY DEF Ended
    <3>2. \A g : (OnCur(w, g)' <=> OnCur(w, g)) /\ (OnDown(w, g)' <=> OnDown(w, g))
      BY <1>8 DEF OnCur, OnDown
    <3> QED
      BY <1>2, <1>4, <1>8, <1>10, <3>1, <3>2, CalmLasts DEF Passes
  <2>3. cur[w].job \in A /\ OnCur(w, cur[w].job) /\ Has(build, cur[w].job, {"SUCCESS"})
    BY <1>2, <1>3, <1>14 DEF Chains, OnCur, Passes
  <2>4. Empty(build, tgt[w])
    <3>1. Due(w, tgt[w])
      BY <1>3, <1>8 DEF Due
    <3> QED
      BY <1>2, <1>3, <1>14, <3>1 DEF OneEach
  <2>5. \A v \in Requests \ {w} : \A g : (On(v, g)' <=> On(v, g)) /\ (Due(v, g)' <=> Due(v, g))
    BY DEF On, OnCur, OnDown, OnNew, Passed, Due, Same
  <2>6. \A g : On(w, g)' => On(w, g)
    BY <1>8, <1>10 DEF On, OnCur, OnDown
  <2>7. \A g : Due(w, g)' => (Due(w, g) /\ g # tgt[w]) \/ \E x \in down[w] : g \in NextJobs(x.job)
    BY <1>3, <1>8 DEF Due, Passed
  <2>8. \A u \in Jobs : tgt[w] \in NextJobs(u) => u = cur[w].job
    BY <1>3, <1>14 DEF Chains
  <2>9. ASSUME NEW v \in Requests, Due(v, tgt[w])' PROVE FALSE
    <3>1. CASE v = w
      <4>1. PICK x \in down[w] : tgt[w] \in NextJobs(x.job)
        BY <2>7, <2>9, <3>1
      <4>2. x.job = cur[w].job
        BY <2>8, <4>1, ObjectTypes
      <4> QED
        BY <1>2, <2>3, <4>2 DEF OnDown, Passes
    <3>2. CASE v # w
      <4>1. Due(v, tgt[w])
        BY <2>5, <2>9, <3>2
      <4>2. On(v, cur[w].job)
        <5>1. CASE pc[v] \in Trig /\ tgt[w] \in NextJobs(cur[v].job)
          <6>1. pc[v] # "idle"
            BY <5>1 DEF Trig, Critical
          <6>2. cur[v].job \in Jobs
            BY <6>1, ObjectTypes
          <6> QED
            BY <2>8, <5>1, <6>1, <6>2 DEF On, OnCur
        <5>2. CASE \E x \in down[v] : tgt[w] \in NextJobs(x.job)
          BY <2>8, <5>2, ObjectTypes DEF On, OnDown
        <5>3. CASE Passed(v) /\ tgt[w] \in NextJobs(nb[v].job)
          <6>1. nb[v].job \in Jobs
            BY <5>3, ObjectTypes DEF Passed
          <6> QED
            BY <2>8, <5>3, <6>1 DEF On, OnNew
        <5> QED
          BY <4>1, <5>1, <5>2, <5>3 DEF Due
      <4> QED
        BY <1>2, <2>3, <3>2, <4>2 DEF OneEach, On
    <3> QED
      BY <3>1, <3>2
  <2>10. OneEach(A)'
    <3>1. \A i, k \in DOMAIN build' : build'[i].job = build'[k].job /\ build'[i].job \in A => i = k
      BY <1>1, <1>2, <1>5, <2>4 DEF OneEach, Empty
    <3>2. \A u, v \in Requests : \A g \in A : On(u, g)' /\ On(v, g)' => u = v
      BY <1>2, <2>5, <2>6 DEF OneEach
    <3>3. ASSUME NEW j \in A, NEW u \in Jobs, j \in NextJobs(u), ~Empty(build', j)
          PROVE  Has(build', u, {"SUCCESS"}) /\ \A v \in Requests : ~Due(v, j)'
      <4>0. u \in A /\ {"SUCCESS"} \in SUBSET Ended
        BY <3>3 DEF Chains, Ended
      <4>1. CASE j = tgt[w]
        <5>1. u = cur[w].job
          BY <2>8, <3>3, <4>1
        <5> QED
          BY <1>4, <2>3, <2>9, <4>0, <4>1, <5>1, CalmLasts
      <4>2. CASE j # tgt[w]
        <5>1. ~Empty(build, j)
          BY <1>1, <1>5, <3>3, <4>2 DEF Empty
        <5>2. Has(build, u, {"SUCCESS"}) /\ \A v \in Requests : ~Due(v, j)
          BY <1>2, <3>3, <5>1 DEF OneEach
        <5>3. ~Due(w, j)'
          BY <2>7, <5>2 DEF Due
        <5> QED
          BY <1>4, <2>5, <4>0, <5>2, <5>3, CalmLasts
      <4> QED
        BY <4>1, <4>2
    <3> QED
      BY <3>1, <3>2, <3>3 DEF OneEach
  <2>11. JoinNotEarly'
    BY <1>2, <1>4, <1>7, NotEarlyKept
  <2> QED
    BY <1>4, <1>6, <1>11, <1>12, <2>1, <2>2, <2>10, <2>11, TrackStep
<1> QED
  BY <1>13, <1>14

(* A build found by OrTrigger is started or left, one that is missing created. *)
LEMMA StoreOrTrack ==
  ASSUME TypeInv, TypeInv', NEW A, Chains(A), TrackInv(A), NEW w \in Requests, StoreOr(w)
  PROVE  TrackInv(A)'
<1>1. /\ pc[w] = "store" /\ IsOr(cur[w].job, tgt[w]) /\ UNCHANGED <<cur, todo, tgt, par, del, down>>
      /\ \A u \in Requests \ {w} : Same(u)
  BY DEF StoreOr, CreateBuild, Same, TypeInv, TypeOK
<1>2. Objects(w) /\ Spares(A, w) /\ Places(A, w)
  BY DEF TrackInv
<1>3. CASE /\ nb[w] = NoBuild /\ CreateBuild(w, tgt[w] \notin Virtual)
           /\ pc' = [pc EXCEPT ![w] = IF tgt[w] \in Virtual THEN "start" ELSE "exec"]
  <2>1. pc'[w] = IF tgt[w] \in Virtual THEN "start" ELSE "exec"
    BY <1>3 DEF TypeInv, TypeOK
  <2>2. PICK started \in BOOLEAN : started = (tgt[w] \notin Virtual)
    OBVIOUS
  <2>3. CreateBuild(w, started)
    BY <1>3, <2>2
  <2> QED
    BY <1>1, <1>3, <2>1, <2>2, <2>3, CreateTrack
<1>4. CASE UNCHANGED <<build, nextId, nb>> /\ pc'[w] \in {"unlock", "start"} /\ (pc'[w] = "start" => nb[w] # NoBuild)
                                           /\ (pc'[w] = "unlock" => nb[w] = NoBuild \/ tgt[w] \notin A)
  <2>1. /\ cur'[w] = cur[w] /\ down'[w] = down[w] /\ par'[w] = par[w] /\ tgt'[w] = tgt[w] /\ todo'[w] = todo[w]
        /\ del'[w] = del[w] /\ nb'[w] = nb[w] /\ {"unlock", "start", "store"} \subseteq Critical \ {"find"}
    BY <1>1, <1>4 DEF Critical
  <2>2. /\ tgt[w] \in NextJobs(cur[w].job) \ todo[w] /\ Right(build, nextId, par[w])
        /\ nb[w] # NoBuild => /\ nb[w].job = tgt[w] /\ Means(build, nextId, nb[w].id, nb[w].job)
                              /\ Right(build, nextId, nb[w].parents)
    BY <1>1, <1>2, <2>1 DEF Objects
  <2>3. ~JoinOnly(tgt[w])
    <3>1. pc[w] # "idle"
      BY <1>1
    <3>2. cur[w].job \in Jobs
      BY <3>1, ObjectTypes
    <3> QED
      BY <1>1, <3>2 DEF JoinOnly
  <2>4. Spares(A, w)' /\ Places(A, w)'
    BY <1>1, <1>2, <1>4, <2>1, <2>3 DEF Spares, Places
  <2>5. \A g \in A : OnNew(w, g)' => OnNew(w, g)
    BY <1>4, <2>1, <2>2 DEF OnNew, Passed
  <2> QED
    BY <1>1, <1>4, <2>1, <2>2, <2>4, <2>5, StillTrack
<1>5. CASE /\ UNCHANGED <<build, nextId, nb>> /\ nb[w] = NoBuild /\ pc' = [pc EXCEPT ![w] = "unlock"]
  <2>1. pc'[w] = "unlock"
    BY <1>5 DEF TypeInv, TypeOK
  <2> QED
    BY <1>4, <1>5, <2>1
<1>6. CASE /\ UNCHANGED <<build, nextId, nb>> /\ nb[w] # NoBuild
           /\ pc' = [pc EXCEPT ![w] = IF nb[w].status = "CREATED" THEN "start" ELSE "unlock"]
  <2>1. pc'[w] \in {"unlock", "start"} /\ tgt[w] \notin A
    BY <1>1, <1>2, <1>6 DEF Places, TypeInv, TypeOK
  <2> QED
    BY <1>4, <1>6, <2>1
<1> QED
  BY <1>3, <1>5, <1>6 DEF StoreOr

(* AndTrigger writes the parents of the build it found, which is not on a chain. *)
LEMMA MergeTrack ==
  ASSUME TypeInv, TypeInv', NEW A, Chains(A), TrackInv(A), NEW w \in Requests, NEW p,
         pc[w] = "store", nb[w] # NoBuild, p = MergedParents(par[w], nb[w].parents),
         nb' = [nb EXCEPT ![w].parents = p], build' = WithParents(nb[w].id, p),
         pc' = [pc EXCEPT ![w] = "check"],
         UNCHANGED <<nextId, starts, lock, cur, todo, tgt, par, del, down>>
  PROVE  TrackInv(A)'
<1>1. Objects(w) /\ Spares(A, w) /\ Places(A, w) /\ RowsRight
  BY DEF TrackInv
<1>2. /\ nb[w] \in Row /\ par[w] \in Parents /\ nb[w].parents \in Parents /\ p \in Parents
      /\ tgt[w] \notin A /\ nb[w].job = tgt[w] /\ Means(build, nextId, nb[w].id, tgt[w])
      /\ tgt[w] \in NextJobs(cur[w].job) \ todo[w]
      /\ Right(build, nextId, par[w]) /\ Right(build, nextId, nb[w].parents)
  BY <1>1, MergedType DEF Objects, Places, Critical, TypeInv, TypeOK, Row
<1>3. Right(build, nextId, p)
  BY <1>2 DEF Right, MergedParents
<1>4. /\ pc'[w] = "check" /\ nb'[w].job = tgt[w] /\ nb'[w].id = nb[w].id /\ nb'[w].parents = p
      /\ \A u \in Requests \ {w} : Same(u)
  BY <1>2 DEF Same, TypeInv, TypeOK, Row
<1>5. /\ DOMAIN build' = DOMAIN build
      /\ \A i \in DOMAIN build : /\ build'[i].job = build[i].job /\ build'[i].status = build[i].status
                                 /\ build'[i].parents = IF i = nb[w].id THEN p ELSE build[i].parents
  BY DEF WithParents, TypeInv, TypeOK, Row
<1>6. Calm(A) /\ LeavesWaiting(A, w)
  BY <1>5 DEF Calm, LeavesWaiting, TypeInv, TypeOK
<1>7. RowsRight'
  <2> SUFFICES ASSUME NEW i \in DOMAIN build' PROVE Right(build', nextId', build'[i].parents)
    BY DEF RowsRight
  <2>1. build'[i].parents \in Parents /\ Right(build, nextId, build'[i].parents)
    BY <1>1, <1>2, <1>3, <1>5 DEF RowsRight, TypeInv, TypeOK, Row
  <2> QED
    BY <1>6, <2>1, CalmLasts
<1>8. /\ Right(build', nextId', par'[w]) /\ Right(build', nextId', nb'[w].parents)
      /\ Means(build', nextId', nb'[w].id, nb'[w].job)
  <2>1. nb[w].id \in Nat
    BY <1>2 DEF Row
  <2> QED
    BY <1>2, <1>3, <1>4, <1>6, <2>1, CalmLasts
<1>9. /\ cur'[w] = cur[w] /\ down'[w] = down[w] /\ par'[w] = par[w] /\ tgt'[w] = tgt[w] /\ todo'[w] = todo[w]
      /\ del'[w] = del[w] /\ {"check", "store"} \subseteq Critical \ {"find"}
  BY DEF Critical
<1>10. Spares(A, w)' /\ Places(A, w)'
  BY <1>1, <1>2, <1>4, <1>5, <1>9 DEF Spares, Places
<1>11. \A g \in A : OnNew(w, g)' => OnNew(w, g)
  BY <1>4 DEF OnNew, Passed
<1> QED
  BY <1>2, <1>4, <1>5, <1>6, <1>7, <1>8, <1>9, <1>10, <1>11, QuietTrack

LEMMA StoreAndTrack ==
  ASSUME TypeInv, TypeInv', NEW A, Chains(A), TrackInv(A), NEW w \in Requests, StoreAnd(w)
  PROVE  TrackInv(A)'
<1>1. /\ pc[w] = "store" /\ UNCHANGED <<cur, todo, tgt, par, del, down>>
      /\ \A u \in Requests \ {w} : Same(u)
  BY DEF StoreAnd, CreateBuild, Same, TypeInv, TypeOK
<1>2. CASE nb[w] = NoBuild /\ CreateBuild(w, FALSE) /\ pc' = [pc EXCEPT ![w] = "check"]
  <2>1. pc'[w] = "check"
    BY <1>2 DEF TypeInv, TypeOK
  <2> QED
    BY <1>1, <1>2, <2>1, CreateTrack
<1>3. CASE UNCHANGED <<build, nextId, nb>> /\ nb[w] = NoBuild /\ pc' = [pc EXCEPT ![w] = "unlock"]
  <2>1. Objects(w) /\ Spares(A, w) /\ Places(A, w)
    BY DEF TrackInv
  <2>2. /\ cur'[w] = cur[w] /\ down'[w] = down[w] /\ par'[w] = par[w] /\ tgt'[w] = tgt[w] /\ todo'[w] = todo[w]
        /\ del'[w] = del[w] /\ nb'[w] = nb[w] /\ pc'[w] = "unlock"
        /\ {"unlock", "store"} \subseteq Critical \ {"find"}
    BY <1>1, <1>3 DEF Critical, TypeInv, TypeOK
  <2>3. tgt[w] \in NextJobs(cur[w].job) \ todo[w] /\ Right(build, nextId, par[w])
    BY <1>1, <2>1, <2>2 DEF Objects
  <2>4. Spares(A, w)' /\ Places(A, w)'
    BY <1>1, <1>3, <2>1, <2>2 DEF Spares, Places
  <2>5. \A g \in A : OnNew(w, g)' => OnNew(w, g)
    BY <1>3, <2>2 DEF OnNew, Passed
  <2> QED
    BY <1>1, <1>3, <2>2, <2>3, <2>4, <2>5, StillTrack
<1>4. CASE /\ nb[w] # NoBuild
           /\ nb' = [nb EXCEPT ![w].parents = MergedParents(par[w], nb[w].parents)]
           /\ build' = WithParents(nb[w].id, MergedParents(par[w], nb[w].parents))
           /\ pc' = [pc EXCEPT ![w] = "check"]
           /\ UNCHANGED nextId
  <2>1. UNCHANGED <<nextId, starts, lock, cur, todo, tgt, par, del, down>>
    BY <1>4 DEF StoreAnd
  <2>2. PICK p : p = MergedParents(par[w], nb[w].parents)
    OBVIOUS
  <2> QED
    BY <1>1, <1>4, <2>1, <2>2, MergeTrack
<1> QED
  BY <1>2, <1>3, <1>4 DEF StoreAnd

(* A build is started: a virtual one on a chain is the only one of its job, *)
(* and from now on the request has its next jobs to look at.                *)
LEMMA StartTrack ==
  ASSUME TypeInv, TypeInv', NEW A, Chains(A), TrackInv(A), NEW w \in Requests, Start(w)
  PROVE  TrackInv(A)'
<1> DEFINE s == IF tgt[w] \in Virtual THEN "SUCCESS" ELSE "QUEUED"
<1>1. /\ pc[w] = "start" /\ build' = WithStatus(nb[w].id, s) /\ s \in Status
      /\ pc'[w] = IF tgt[w] \in Virtual THEN "unlock" ELSE "exec"
      /\ UNCHANGED <<nextId, cur, todo, tgt, par, del, down>>
      /\ \A u \in Requests \ {w} : Same(u)
  BY DEF Start, Same, TypeInv, TypeOK, Status
<1>2. Objects(w) /\ Spares(A, w) /\ Places(A, w) /\ Passes(A, w) /\ RowsRight /\ OneEach(A) /\ JoinNotEarly
  BY DEF TrackInv
<1>3. nb[w] \in Row /\ nb[w] # NoBuild
  BY <1>1 DEF TypeInv, ObjectsOK, Row, NoBuild
<1>4. /\ nb'[w].status = s /\ nb'[w].id = nb[w].id /\ nb'[w].job = nb[w].job /\ nb'[w].parents = nb[w].parents
      /\ nb'[w] # NoBuild
  BY <1>3 DEF Start, TypeInv, TypeOK, Row, NoBuild
<1>5. /\ nb[w].job = tgt[w] /\ Means(build, nextId, nb[w].id, tgt[w]) /\ Right(build, nextId, nb[w].parents)
      /\ tgt[w] \in NextJobs(cur[w].job) \ todo[w] /\ tgt[w] \in Jobs /\ Right(build, nextId, par[w])
      /\ cur[w].job \in Jobs
  BY <1>1, <1>2, <1>3, ObjectTypes DEF Objects, Critical, TypeInv, TypeOK
<1>6. s = "SUCCESS" <=> tgt[w] \in Virtual
  OBVIOUS
<1>7. s \in {"SUCCESS", "QUEUED"}
  OBVIOUS
<1> HIDE DEF s
<1>8. /\ DOMAIN build' = DOMAIN build
      /\ \A i \in DOMAIN build : /\ build'[i].job = build[i].job /\ build'[i].parents = build[i].parents
                                 /\ build'[i].status = IF i = nb[w].id THEN s ELSE build[i].status
  BY <1>1, StatusRows
<1>9. Calm(A) /\ LeavesWaiting(A, w)
  <2>1. \A i \in DOMAIN build : i = nb[w].id => build[i].job = tgt[w]
    BY <1>5 DEF Means
  <2>2. tgt[w] \in A => \A i \in DOMAIN build : i = nb[w].id => build[i].status = "CREATED"
    BY <1>1, <1>2 DEF Places
  <2> QED
    BY <1>1, <1>8, <2>1, <2>2 DEF Calm, LeavesWaiting, Ended, Critical, TypeInv, TypeOK
<1>10. RowsRight'
  BY <1>2, <1>8, <1>9, CalmLasts DEF RowsRight, TypeInv, TypeOK, Row
<1>11. \A i \in DOMAIN build' : build'[i].status # "CREATED" /\ JoinOnly(build'[i].job) =>
         \/ i \in DOMAIN build /\ build[i].status # "CREATED"
         \/ Sourced(build, build'[i].job)
  BY <1>1, <1>2, <1>5, <1>8 DEF Means, Places
<1>12. /\ cur'[w] = cur[w] /\ down'[w] = down[w] /\ par'[w] = par[w] /\ tgt'[w] = tgt[w] /\ todo'[w] = todo[w]
       /\ del'[w] = del[w] /\ pc'[w] \in {"unlock", "exec"}
       /\ {"unlock", "exec", "start"} \subseteq Critical \ {"find"} /\ Critical \subseteq Trig
  BY <1>1 DEF Critical, Trig
<1>13. /\ Right(build', nextId', par'[w]) /\ Right(build', nextId', nb'[w].parents)
       /\ Means(build', nextId', nb'[w].id, nb'[w].job)
  <2>1. nb[w].id \in Nat /\ nb[w].parents \in Parents /\ par[w] \in Parents
    BY <1>3 DEF Row, TypeInv, TypeOK
  <2> QED
    BY <1>4, <1>5, <1>9, <1>12, <2>1, CalmLasts
<1>14. Spares(A, w)'
  BY <1>2, <1>8, <1>12, <1>1 DEF Spares
<1>15. Places(A, w)'
  BY <1>1, <1>4, <1>6, <1>12 DEF Places
<1>16. CASE tgt[w] \notin A \/ tgt[w] \notin Virtual
  <2>1. \A g \in A : OnNew(w, g)' => OnNew(w, g)
    BY <1>1, <1>4, <1>5, <1>16 DEF OnNew, Passed
  <2> QED
    BY <1>1, <1>4, <1>5, <1>8, <1>9, <1>10, <1>11, <1>12, <1>13, <1>14, <1>15, <2>1, QuietTrack
<1>17. CASE tgt[w] \in A /\ tgt[w] \in Virtual
  <2>1. nb[w].id \in DOMAIN build /\ build[nb[w].id].job = tgt[w] /\ build[nb[w].id].status \notin Ended
    BY <1>1, <1>2, <1>17 DEF Places, RowOf, Ended
  <2>2. {"SUCCESS"} \in SUBSET Ended /\ {"FAILURE"} \in SUBSET Ended
    BY DEF Ended
  <2>3. ~Has(build, tgt[w], {"SUCCESS"}) /\ \A u \in Requests : ~On(u, tgt[w])
    BY <1>17, <2>1, <2>2, Unlooked
  <2>4. Has(build', tgt[w], {"SUCCESS"})
    BY <1>6, <1>8, <1>17, <2>1 DEF Has
  <2>5. \A g : /\ (OnCur(w, g)' <=> OnCur(w, g)) /\ (OnDown(w, g)' <=> OnDown(w, g))
               /\ OnNew(w, g)' => g = tgt[w]
    BY <1>1, <1>4, <1>5, <1>12 DEF OnCur, OnDown, OnNew
  <2>6. Objects(w)'
    <3>1. pc[w] # "idle" /\ nb'[w].job = tgt'[w] /\ tgt'[w] \in NextJobs(cur'[w].job) \ todo'[w]
          /\ pc'[w] \in Critical \ {"find"}
      BY <1>1, <1>4, <1>5, <1>12
    <3> QED
      BY <1>2, <1>9, <1>12, <1>13, <3>1, ObjectTypes, CalmLasts DEF Objects
  <2>7. Passes(A, w)'
    <3>1. \A g \in A : OnNew(w, g)' => Has(build', g, {"SUCCESS"}) /\ ~OnCur(w, g) /\ ~OnDown(w, g)
      BY <2>3, <2>4, <2>5 DEF On
    <3> QED
      BY <1>1, <1>2, <1>9, <1>12, <2>2, <2>5, <3>1, CalmLasts DEF Passes
  <2>8. OneEach(A)'
    <3>1. PICK G : G = {tgt[w]}
      OBVIOUS
    <3>2. \A g \in A : On(w, g)' => On(w, g) \/ g \in G
      BY <2>5, <3>1 DEF On
    <3>3. \A j \in A : Due(w, j)' => Due(w, j) \/ \E g \in G : j \in NextJobs(g)
      BY <1>1, <1>4, <1>5, <1>12, <3>1 DEF Due
    <3>4. G \subseteq A /\ \A g \in G : ~Has(build, g, {"SUCCESS"}) /\ \A u \in Requests : ~On(u, g)
      BY <1>17, <2>3, <3>1
    <3>5. \A i \in DOMAIN build' : build'[i].job \in A => i \in DOMAIN build
      BY <1>8
    <3> QED
      BY <1>1, <1>2, <1>9, <3>2, <3>3, <3>4, <3>5, OneEachKept
  <2>9. JoinNotEarly'
    BY <1>2, <1>9, <1>11, NotEarlyKept
  <2> QED
    BY <1>1, <1>9, <1>10, <1>14, <1>15, <2>6, <2>7, <2>8, <2>9, TrackStep
<1> QED
  BY <1>16, <1>17

(* The lock is released; a virtual build that succeeded is put down for later. *)
LEMMA UnlockTrack ==
  ASSUME TypeInv, TypeInv', NEW A, Chains(A), TrackInv(A), NEW w \in Requests, Unlock(w)
  PROVE  TrackInv(A)'
<1>1. /\ pc[w] = "unlock" /\ pc'[w] = "next" /\ nb'[w] = NoBuild
      /\ UNCHANGED <<build, nextId, cur, todo, tgt, par, del>>
      /\ down'[w] \subseteq down[w] \cup (IF Passed(w) THEN {nb[w]} ELSE {})
      /\ \A u \in Requests \ {w} : Same(u)
  BY DEF Unlock, db, Same, Passed, TypeInv, TypeOK
<1>2. Objects(w) /\ Spares(A, w) /\ Passes(A, w) /\ RowsRight /\ OneEach(A) /\ JoinNotEarly
  BY DEF TrackInv
<1>3. Calm(A) /\ LeavesWaiting(A, w) /\ RowsRight' /\ JoinNotEarly'
  BY <1>1, <1>2, CalmStill DEF LeavesWaiting, RowsRight, JoinNotEarly, RowsOf
<1>4. \A x \in down'[w] : x \in down[w] \/ (Passed(w) /\ x = nb[w])
  BY <1>1
<1>5. "next" \notin Critical /\ "next" \in Trig /\ pc[w] \in Trig
  BY <1>1 DEF Critical, Trig
<1>6. Objects(w)'
  BY <1>1, <1>2, <1>4, <1>5 DEF Objects, Passed
<1>7. Spares(A, w)' /\ Places(A, w)'
  BY <1>1, <1>2, <1>5 DEF Spares, Places
<1>8. \A g : /\ OnCur(w, g)' <=> OnCur(w, g)
             /\ OnDown(w, g)' => OnDown(w, g) \/ OnNew(w, g)
             /\ ~OnNew(w, g)'
  BY <1>1, <1>4 DEF OnCur, OnDown, OnNew, Passed
<1>9. Passes(A, w)'
  <2>1. \A x, y \in down'[w] : x.job = y.job /\ x.job \in A => x = y
    BY <1>2, <1>4 DEF Passes, OnDown, OnNew
  <2> QED
    BY <1>1, <1>2, <1>8, <2>1 DEF Passes
<1>10. OneEach(A)'
  <2>1. PICK G : G = {}
    OBVIOUS
  <2>2. \A j \in A : Due(w, j)' => Due(w, j)
    BY <1>1, <1>4, <1>5 DEF Due, Passed
  <2>3. /\ G \subseteq A /\ \A g \in A : On(w, g)' => On(w, g) \/ g \in G
        /\ \A j \in A : Due(w, j)' => Due(w, j) \/ \E g \in G : j \in NextJobs(g)
        /\ \A g \in G : ~Has(build, g, {"SUCCESS"}) /\ \A u \in Requests : ~On(u, g)
    BY <1>8, <2>1, <2>2 DEF On
  <2>4. \A i \in DOMAIN build' : build'[i].job \in A => i \in DOMAIN build
    BY <1>1
  <2> QED
    BY <1>1, <1>2, <1>3, <2>3, <2>4, OneEachKept
<1> QED
  BY <1>1, <1>3, <1>6, <1>7, <1>9, <1>10, TrackStep

(* The next jobs of a virtual build that was put down are looked at. *)
LEMMA DescendTrack ==
  ASSUME TypeInv, TypeInv', NEW A, Chains(A), TrackInv(A), NEW w \in Requests, Descend(w)
  PROVE  TrackInv(A)'
<1>1. PICK d \in down[w] : /\ down' = [down EXCEPT ![w] = @ \ {d}] /\ cur' = [cur EXCEPT ![w] = d]
                           /\ todo' = [todo EXCEPT ![w] = NextJobs(d.job)]
  BY DEF Descend
<1>2. /\ pc[w] = "next" /\ UNCHANGED <<build, nextId, pc, tgt, nb, par, del>>
      /\ down'[w] = down[w] \ {d} /\ cur'[w] = d /\ todo'[w] = NextJobs(d.job)
      /\ \A u \in Requests \ {w} : Same(u)
  BY <1>1 DEF Descend, db, Same, TypeInv, TypeOK
<1>3. Objects(w) /\ Spares(A, w) /\ Passes(A, w) /\ RowsRight /\ OneEach(A) /\ JoinNotEarly
  BY DEF TrackInv
<1>4. Calm(A) /\ LeavesWaiting(A, w) /\ RowsRight' /\ JoinNotEarly'
  BY <1>2, <1>3, CalmStill DEF LeavesWaiting, RowsRight, JoinNotEarly, RowsOf
<1>5. "next" \notin Critical /\ pc[w] \in Trig /\ pc'[w] = "next"
  BY <1>2 DEF Critical, Trig
<1>6. Objects(w)'
  BY <1>2, <1>3, <1>5 DEF Objects
<1>7. Spares(A, w)' /\ Places(A, w)'
  BY <1>2, <1>3, <1>5 DEF Spares, Places
<1>8. \A g : /\ OnCur(w, g)' => g = d.job /\ OnDown(w, g)
             /\ OnDown(w, g)' => OnDown(w, g)
             /\ ~OnNew(w, g)'
  BY <1>2 DEF OnCur, OnDown, OnNew, Passed
<1>9. Passes(A, w)'
  <2>1. \A g \in A : OnDown(w, g)' => ~OnCur(w, g)'
    BY <1>2, <1>3, <1>8 DEF Passes, OnDown
  <2>2. \A x, y \in down'[w] : x.job = y.job /\ x.job \in A => x = y
    BY <1>2, <1>3 DEF Passes
  <2> QED
    BY <1>2, <1>3, <1>5, <1>8, <2>1, <2>2 DEF Passes
<1>10. OneEach(A)'
  <2>1. PICK G : G = {}
    OBVIOUS
  <2>2. \A j \in A : Due(w, j)' => Due(w, j)
    BY <1>2, <1>5 DEF Due, Passed
  <2>3. /\ G \subseteq A /\ \A g \in A : On(w, g)' => On(w, g) \/ g \in G
        /\ \A j \in A : Due(w, j)' => Due(w, j) \/ \E g \in G : j \in NextJobs(g)
        /\ \A g \in G : ~Has(build, g, {"SUCCESS"}) /\ \A u \in Requests : ~On(u, g)
    BY <1>8, <2>1, <2>2 DEF On
  <2>4. \A i \in DOMAIN build' : build'[i].job \in A => i \in DOMAIN build
    BY <1>2
  <2> QED
    BY <1>2, <1>3, <1>4, <2>3, <2>4, OneEachKept
<1> QED
  BY <1>2, <1>4, <1>6, <1>7, <1>9, <1>10, TrackStep

(* A build ends, as a success that is to be passed on, or as a failure. *)
LEMMA EndBuildTrack ==
  ASSUME TypeInv, TypeInv', NEW A, Chains(A), TrackInv(A), NEW w \in Requests, NEW b \in DOMAIN build,
         NEW s \in Ended, pc[w] = "idle", EndBuild(w, b, s),
         build[b].status = "QUEUED" \/ (build[b].status = "CREATED" /\ build[b].job \in Roots)
  PROVE  TrackInv(A)'
<1> DEFINE k == build[b].job
<1>1. /\ build' = WithStatus(b, s) /\ UNCHANGED <<nextId, tgt, nb, par, del, down>>
      /\ cur'[w] = [build[b] EXCEPT !.status = s]
      /\ pc'[w] = CASE s = "SUCCESS" -> "next" [] s = "FAILURE" -> "remove" [] OTHER -> "idle"
      /\ todo'[w] = IF s = "ABORTED" THEN {} ELSE NextJobs(k)
      /\ \A u \in Requests \ {w} : Same(u)
  BY DEF EndBuild, Same, TypeInv, TypeOK
<1>2. Objects(w) /\ Spares(A, w) /\ Passes(A, w) /\ RowsRight /\ OneEach(A) /\ JoinNotEarly
  BY DEF TrackInv
<1>3. s \in Status
  BY DEF Status, Ended
<1>4. /\ DOMAIN build' = DOMAIN build
      /\ \A i \in DOMAIN build : /\ build'[i].job = build[i].job /\ build'[i].parents = build[i].parents
                                 /\ build'[i].status = IF i = b THEN s ELSE build[i].status
  BY <1>1, <1>3, StatusRows
<1>5. /\ build[b] \in Row /\ build[b].id = b /\ b < nextId /\ k \in Jobs
      /\ cur'[w].id = b /\ cur'[w].job = k /\ cur'[w].parents = build[b].parents
  BY <1>1 DEF TypeInv, TypeOK, Row
<1>6. Calm(A) /\ LeavesWaiting(A, w)
  BY <1>1, <1>4 DEF Calm, LeavesWaiting, Ended, TypeInv, TypeOK
<1>7. RowsRight'
  BY <1>2, <1>4, <1>6, CalmLasts DEF RowsRight, TypeInv, TypeOK, Row
<1>8. "idle" \notin Critical /\ "next" \notin Critical /\ "remove" \notin Critical
      /\ "idle" \notin Trig /\ "remove" \notin Trig
  BY DEF Critical, Trig
<1>9. /\ pc'[w] \in {"next", "remove", "idle"} /\ nb[w] = NoBuild
      /\ pc'[w] = "next" => s = "SUCCESS"
      /\ pc'[w] = "remove" => s = "FAILURE"
  BY <1>1, <1>2, <1>8 DEF Objects, Ended
<1>10. Objects(w)'
  <2>1. Means(build', nextId', b, k) /\ Right(build', nextId', build[b].parents)
    BY <1>1, <1>4, <1>5, <1>7 DEF Means, RowsRight
  <2>2. pc'[w] # "idle" => todo'[w] \subseteq NextJobs(cur'[w].job)
    BY <1>1, <1>5
  <2>3. pc'[w] \notin Critical /\ nb'[w] = NoBuild
    BY <1>1, <1>8, <1>9
  <2>4. Right(build', nextId', par'[w])
    BY <1>1, <1>2, <1>6, ObjectTypes, CalmLasts DEF Objects
  <2>5. \A x \in down'[w] : Means(build', nextId', x.id, x.job) /\ Right(build', nextId', x.parents)
    BY <1>1, <1>2, <1>6, ObjectTypes, CalmLasts DEF Objects
  <2> QED
    BY <1>5, <2>1, <2>2, <2>3, <2>4, <2>5 DEF Objects
<1>11. Spares(A, w)' /\ Places(A, w)'
  BY <1>1, <1>2, <1>4, <1>9 DEF Spares, Places
<1>12. k \in A => ~Has(build, k, {"SUCCESS"}) /\ \A u \in Requests : ~On(u, k)
  BY Unlooked DEF Ended
<1>13. \A g : /\ OnCur(w, g)' => g = k /\ pc'[w] # "idle"
              /\ OnDown(w, g)' <=> OnDown(w, g)
              /\ ~OnNew(w, g)'
  BY <1>1, <1>5, <1>9 DEF OnCur, OnDown, OnNew, Passed
<1>14. Passes(A, w)'
  <2>1. {"SUCCESS"} \in SUBSET Ended /\ {"FAILURE"} \in SUBSET Ended
    BY DEF Ended
  <2>2. Has(build', k, {s})
    BY <1>4 DEF Has
  <2>3. \A g \in A : OnCur(w, g)' => /\ Has(build', g, {IF pc'[w] = "remove" THEN "FAILURE" ELSE "SUCCESS"})
                                    /\ ~OnDown(w, g)
    BY <1>9, <1>12, <1>13, <2>2 DEF On
  <2> QED
    BY <1>1, <1>2, <1>6, <1>13, <2>1, <2>3, CalmLasts DEF Passes
<1>15. OneEach(A)'
  <2>1. PICK G : G = {k} \cap A
    OBVIOUS
  <2>2. \A g \in A : On(w, g)' => On(w, g) \/ g \in G
    BY <1>13, <2>1 DEF On
  <2>3. ASSUME NEW j \in A, Due(w, j)'
        PROVE  Due(w, j) \/ \E g \in G : j \in NextJobs(g)
    <3>1. j \in NextJobs(k) \/ \E x \in down[w] : j \in NextJobs(x.job)
      BY <1>1, <1>5, <1>9, <2>3 DEF Due, Passed
    <3> QED
      BY <1>5, <2>1, <3>1 DEF Due, Chains
  <2>4. G \subseteq A /\ \A g \in G : ~Has(build, g, {"SUCCESS"}) /\ \A u \in Requests : ~On(u, g)
    BY <1>12, <2>1
  <2>5. \A i \in DOMAIN build' : build'[i].job \in A => i \in DOMAIN build
    BY <1>4
  <2> QED
    BY <1>1, <1>2, <1>6, <2>2, <2>3, <2>4, <2>5, OneEachKept
<1>16. JoinNotEarly'
  <2>1. k \in Roots => ~JoinOnly(k)
    BY DEF Roots, JoinOnly, JoinSrc, NextJobs
  <2>2. \A i \in DOMAIN build' : build'[i].status # "CREATED" /\ JoinOnly(build'[i].job) =>
          i \in DOMAIN build /\ build[i].status # "CREATED"
    BY <1>4, <2>1
  <2> QED
    BY <1>2, <1>6, <2>2, NotEarlyKept
<1> QED
  BY <1>1, <1>6, <1>7, <1>10, <1>11, <1>14, <1>15, <1>16, TrackStep

LEMMA NextTrack ==
  ASSUME NEW A, Chains(A), TypeInv, TrackInv(A), [Next]_vars
  PROVE  TrackInv(A)'
<1>1. TypeInv'
  BY NextType
<1>2. ASSUME NEW w \in Requests, NEW b \in DOMAIN build, NEW s \in Outcomes, Finish(w, b, s)
      PROVE  TrackInv(A)'
  <2>1. s \in Ended
    BY OutcomeAssumption DEF Ended
  <2> QED
    BY <1>1, <1>2, <2>1, EndBuildTrack DEF Finish
<1>3. ASSUME NEW w \in Requests, NEW b \in DOMAIN build, BypassRoot(w, b)
      PROVE  TrackInv(A)'
  <2>1. "SUCCESS" \in Ended
    BY DEF Ended
  <2> QED
    BY <1>1, <1>3, <2>1, EndBuildTrack DEF BypassRoot
<1>4. ASSUME NEW w \in Requests, Step(w)
      PROVE  TrackInv(A)'
  BY <1>1, <1>4, RemoveReadTrack, RemoveRowTrack, ForgetTrack, LockNextTrack, FindTrack, StoreOrTrack,
     StoreAndTrack, CheckTrack, DropTrack, StartTrack, ExecTrack, UnlockTrack, DescendTrack DEF Step
<1>5. CASE UNCHANGED vars
  <2>1. Calm(A)
    BY <1>5, CalmStill DEF vars
  <2>2. \A u \in Requests : Same(u)
    BY <1>5 DEF vars, Same
  <2>3. \A u \in Requests : Objects(u)' /\ Spares(A, u)' /\ Places(A, u)' /\ Passes(A, u)'
    <3> SUFFICES ASSUME NEW u \in Requests PROVE Objects(u)' /\ Spares(A, u)' /\ Places(A, u)' /\ Passes(A, u)'
      OBVIOUS
    <3>1. Objects(u) /\ Spares(A, u) /\ Places(A, u) /\ Passes(A, u) /\ Same(u)
      BY <2>2 DEF TrackInv
    <3>2. Places(A, u)'
      BY <1>5, <3>1 DEF Places, vars
    <3> QED
      BY <2>1, <3>1, <3>2, ObjectsKept, SparesKept, PassesKept DEF Same
  <2>4. RowsRight' /\ JoinNotEarly'
    BY <1>5 DEF TrackInv, RowsRight, JoinNotEarly, RowsOf, vars
  <2>5. OneEach(A)'
    <3>1. \A u \in Requests : \A g : (On(u, g)' <=> On(u, g)) /\ (Due(u, g)' <=> Due(u, g))
      BY <2>2 DEF On, OnCur, OnDown, OnNew, Passed, Due, Same
    <3> QED
      BY <1>5, <3>1 DEF TrackInv, OneEach, vars
  <2> QED
    BY <2>3, <2>4, <2>5 DEF TrackInv
<1> QED
  BY <1>2, <1>3, <1>4, <1>5 DEF Next

LEMMA InitTrack == ASSUME NEW A, Chains(A), Init PROVE TrackInv(A)
<1>1. PICK ids \in [Roots -> 1..Cardinality(Roots)] :
        /\ \A j, k \in Roots : ids[j] = ids[k] => j = k
        /\ build = [i \in {ids[j] : j \in Roots} |->
                  LET j == CHOOSE k \in Roots : ids[k] = i
                  IN  [id |-> i, job |-> j,
                       status |-> IF j \in Virtual THEN "CREATED" ELSE "QUEUED",
                       parents |-> [k \in Jobs |-> NoId]]]
  BY DEF Init
<1>2. ASSUME NEW i \in DOMAIN build
      PROVE  build[i].job \in Roots /\ ids[build[i].job] = i /\ build[i].parents = [k \in Jobs |-> NoId]
  <2> DEFINE j == CHOOSE k \in Roots : ids[k] = i
  <2>1. j \in Roots /\ ids[j] = i
    BY <1>1
  <2>2. build[i].job = j /\ build[i].parents = [k \in Jobs |-> NoId]
    BY <1>1
  <2> QED
    BY <2>1, <2>2
<1>3. \A w \in Requests : /\ pc[w] = "idle" /\ nb[w] = NoBuild /\ del[w] = {} /\ down[w] = {}
                          /\ par[w] = [k \in Jobs |-> NoId]
  BY DEF Init
<1>4. Right(build, nextId, [k \in Jobs |-> NoId])
  BY DEF Right
<1>5. RowsRight
  BY <1>2, <1>4 DEF RowsRight
<1>6. JoinNotEarly
  BY <1>2 DEF JoinNotEarly, JoinOnly, JoinSrc, Roots, NextJobs
<1>7. \A w \in Requests : \A g : ~On(w, g) /\ ~Due(w, g)
  BY <1>3 DEF On, OnCur, OnDown, OnNew, Passed, Due, Trig, Critical
<1>8. OneEach(A)
  <2>1. \A i, k \in DOMAIN build : build[i].job = build[k].job => i = k
    BY <1>2
  <2>2. \A j \in Jobs : \A u \in Jobs : j \in NextJobs(u) => Empty(build, j)
    BY <1>2 DEF Empty, Roots
  <2> QED
    BY <1>7, <2>1, <2>2 DEF OneEach, Chains
<1>9. ASSUME NEW w \in Requests
      PROVE  Objects(w) /\ Spares(A, w) /\ Places(A, w) /\ Passes(A, w)
  <2>1. Objects(w)
    BY <1>3, <1>4 DEF Objects, Critical
  <2>2. Spares(A, w) /\ Places(A, w)
    BY <1>3 DEF Spares, Places
  <2>3. Passes(A, w)
    BY <1>3, <1>7 DEF Passes, On
  <2> QED
    BY <2>1, <2>2, <2>3
<1> QED
  BY <1>5, <1>6, <1>8, <1>9 DEF TrackInv

(* Even when the lock fails open, no join starts before each of its sources *)
(* has a build that ended in SUCCESS, if the jobs it waits for are at the    *)
(* ends of chains.                                                           *)
THEOREM NotEarlyWithoutLock == ASSUME NEW A, Chains(A) PROVE Spec => []JoinNotEarly
<1>1. Init => TypeInv /\ TrackInv(A)
  BY InitType, InitTrack
<1>2. TypeInv /\ TrackInv(A) /\ [Next]_vars => (TypeInv /\ TrackInv(A))'
  BY NextType, NextTrack
<1>3. TypeInv /\ TrackInv(A) => JoinNotEarly
  BY DEF TrackInv
<1> QED
  BY <1>1, <1>2, <1>3, PTL DEF Spec

=============================================================================
