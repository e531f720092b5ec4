-------------------------- MODULE StageBuildProofs --------------------------
(***************************************************************************)
(* What comes after a stage, for every stage of any shape that a tree can  *)
(* have and any interleaving of the requests that update its builds.       *)
(*                                                                         *)
(* With a virtual teardown only the join of the workflow graph triggers    *)
(* what comes after the stage, and it has read the last jobs only.  That   *)
(* the others have succeeded as well follows from their children: a job    *)
(* is started by its parent's success and by nothing else.                 *)
(***************************************************************************)
EXTENDS StageBuild, TLAPS

Pcs == {"ready", "load", "set", "trigger", "check", "start", "jload", "jset",
        "after", "look", "done?", "ensure", "run", "close", "answer"}

Types == /\ st \in [Builds -> Status] /\ pc \in [Builds -> Pcs]
         /\ want \in [Builds -> Status] /\ todo \in [Builds -> SUBSET Builds]
         /\ after \in BOOLEAN

LastWell == \A j \in Last : st[j] = "SUCCESS"

\* Nobody reports for a virtual teardown.
TeardownSilent == pc[Teardown] = "ready" /\ st[Teardown] \in {"NONE", "CREATED", "SUCCESS"}

\* A request has the status it has just written.
WantIsRow == \A b \in Builds : pc[b] \in {"load", "set"} => want[b] = st[b] /\ st[b] # "NONE"

\* The jobs a request is about to start are those its success starts.
TodoWell == \A b \in Jobs : todo[b] \cap Jobs \subseteq Next_[b]
                             /\ (todo[b] \cap Jobs # {} => st[b] = "SUCCESS")

\* A job that exists has a parent that succeeded.
ParentWell == \A j, k \in Jobs : k \in Next_[j] /\ st[k] # "NONE" => st[j] = "SUCCESS"

\* What follows the join's verdict is done with that verdict still true.
VerdictWell ==
  \A b \in Jobs : /\ pc[b] = "start" => LastWell
                  /\ pc[b] \in {"jload", "jset", "after"} => LastWell /\ st[Teardown] = "SUCCESS"

AfterWell == after => LastWell /\ st[Teardown] = "SUCCESS"

IInv == /\ Types /\ TeardownSilent /\ WantIsRow /\ TodoWell
        /\ ParentWell /\ VerdictWell /\ AfterWell

-----------------------------------------------------------------------------
\* What a success means, once it is there, does not change.
LEMMA InitInv == ASSUME Init PROVE IInv
<1>1. Types
  BY StageAssumption DEF Init, Types, Builds, Status, Pcs, Active, Finished, Terminal
<1>2. \A j, k \in Jobs : k \in Next_[j] => st[k] = "NONE"
  BY StageAssumption, TreeAssumption DEF Init, Builds
<1>3. st[Teardown] = "NONE" /\ pc[Teardown] = "ready"
  BY StageAssumption DEF Init, Builds
<1>4. \A b \in Builds : pc[b] = "ready" /\ todo[b] = {}
  BY DEF Init
<1>5. Jobs \subseteq Builds /\ ~after
  BY DEF Builds, Init
<1> QED
  BY <1>1, <1>2, <1>3, <1>4, <1>5
  DEF IInv, TeardownSilent, WantIsRow, TodoWell, ParentWell, VerdictWell, AfterWell

\* A step that leaves the builds alone, of a request that has nothing new to
\* start and has been given no new verdict.
LEMMA QuietStep ==
  ASSUME IInv, NEW b \in Jobs, NEW l \in Pcs \ {"load"}, pc' = [pc EXCEPT ![b] = l],
         UNCHANGED <<st, want>>,
         l = "set" => pc[b] = "load",
         l = "start" => LastWell,
         l \in {"jload", "jset", "after"} => LastWell /\ st[Teardown] = "SUCCESS",
         todo' = todo \/ todo' = [todo EXCEPT ![b] = {}] \/ todo' = [todo EXCEPT ![b] = @ \ {Teardown}]
           \/ (\E T \in SUBSET Builds :
                todo' = [todo EXCEPT ![b] = T] /\ T \cap Jobs \subseteq Next_[b]
                /\ (T \cap Jobs # {} => st[b] = "SUCCESS")),
         after' = after \/ (after' = TRUE /\ LastWell /\ st[Teardown] = "SUCCESS")
  PROVE  IInv'
<1>1. PICK T \in SUBSET Builds :
        /\ todo' = [todo EXCEPT ![b] = T]
        /\ T \cap Jobs \subseteq Next_[b] /\ (T \cap Jobs # {} => st[b] = "SUCCESS")
  <2>1. todo[b] \in SUBSET Builds /\ todo = [todo EXCEPT ![b] = todo[b]]
    BY DEF IInv, Types, Builds
  <2>2. /\ todo[b] \cap Jobs \subseteq Next_[b] /\ (todo[b] \cap Jobs # {} => st[b] = "SUCCESS")
    BY DEF IInv, TodoWell
  <2> QED
    BY <2>1, <2>2
<1>2. Jobs \subseteq Builds /\ b # Teardown
  BY StageAssumption DEF Builds
<1>3. Types'
  BY <1>1 DEF IInv, Types
<1>4. \A q \in Builds : pc'[q] = IF q = b THEN l ELSE pc[q]
  BY DEF IInv, Types
<1>5. \A q \in Builds : todo'[q] = IF q = b THEN T ELSE todo[q]
  BY <1>1 DEF IInv, Types
<1>6. TeardownSilent' /\ WantIsRow'
  BY <1>2, <1>4 DEF IInv, TeardownSilent, WantIsRow, Builds
<1>7. TodoWell' /\ ParentWell'
  BY <1>1, <1>2, <1>5 DEF IInv, TodoWell, ParentWell
<1>8. LastWell' = LastWell
  BY DEF LastWell
<1>9. VerdictWell' /\ AfterWell'
  BY <1>2, <1>4, <1>8 DEF IInv, VerdictWell, AfterWell
<1> QED
  BY <1>3, <1>6, <1>7, <1>9 DEF IInv

\* A build row gets another status: no success is taken back, and a job that is
\* started has a parent that succeeded.
Written(c, s) ==
  /\ c \in Builds /\ s \in Status \ {"NONE"} /\ st' = [st EXCEPT ![c] = s]
  /\ st[c] # "SUCCESS" \/ s = "SUCCESS"
  /\ c \in Jobs /\ st[c] = "NONE" => \A j \in Jobs : c \in Next_[j] => st[j] = "SUCCESS"

LEMMA WrittenKeeps ==
  ASSUME IInv, NEW c, NEW s, Written(c, s)
  PROVE  /\ st' \in [Builds -> Status]
         /\ \A k \in Builds : st'[k] = IF k = c THEN s ELSE st[k]
         /\ \A k \in Builds : st[k] = "SUCCESS" => st'[k] = "SUCCESS"
         /\ LastWell => LastWell'
         /\ ParentWell'
<1>1. st' \in [Builds -> Status] /\ \A k \in Builds : st'[k] = IF k = c THEN s ELSE st[k]
  BY DEF IInv, Types, Written
<1>2. \A k \in Builds : st[k] = "SUCCESS" => st'[k] = "SUCCESS"
  BY <1>1 DEF Written
<1>3. Jobs \subseteq Builds /\ Last \subseteq Builds
  BY DEF Last, Builds
<1>4. LastWell => LastWell'
  BY <1>2, <1>3 DEF LastWell
<1>5. ParentWell'
  <2> SUFFICES ASSUME NEW j \in Jobs, NEW k \in Jobs, k \in Next_[j], st'[k] # "NONE"
               PROVE  st[j] = "SUCCESS"
    BY <1>2, <1>3 DEF ParentWell
  <2> QED
    BY <1>1, <1>3 DEF Written, IInv, ParentWell
<1> QED
  BY <1>1, <1>2, <1>4, <1>5

\* A request creates or starts a build.
LEMMA WriteStep ==
  ASSUME IInv, NEW b \in Jobs, NEW l \in Pcs \ {"load", "set"}, pc' = [pc EXCEPT ![b] = l],
         NEW c, NEW s, Written(c, s),
         IF c = Teardown THEN s \in {"CREATED", "SUCCESS"} ELSE st[c] = "NONE",
         l = "start" => LastWell,
         l \in {"jload", "jset", "after"} => LastWell /\ s = "SUCCESS" /\ c = Teardown,
         \E T \in SUBSET todo[b] : todo' = [todo EXCEPT ![b] = T],
         UNCHANGED <<want, after>>
  PROVE  IInv'
<1>1. /\ st' \in [Builds -> Status]
      /\ \A k \in Builds : st'[k] = IF k = c THEN s ELSE st[k]
      /\ \A k \in Builds : st[k] = "SUCCESS" => st'[k] = "SUCCESS"
      /\ LastWell => LastWell'
      /\ ParentWell'
  BY WrittenKeeps
<1>2. PICK T \in SUBSET todo[b] : todo' = [todo EXCEPT ![b] = T]
  OBVIOUS
<1>3. Jobs \subseteq Builds /\ b # Teardown /\ Teardown \in Builds
  BY StageAssumption DEF Builds
<1>4. T \in SUBSET Builds
  BY <1>3 DEF IInv, Types
<1>5. Types'
  BY <1>1, <1>2, <1>3, <1>4 DEF IInv, Types
<1>6. \A q \in Builds : pc'[q] = IF q = b THEN l ELSE pc[q]
  BY DEF IInv, Types
<1>7. \A q \in Builds : todo'[q] \subseteq todo[q]
  BY <1>2 DEF IInv, Types
<1>8. TeardownSilent'
  BY <1>1, <1>3, <1>6 DEF IInv, TeardownSilent
<1>9. WantIsRow'
  BY <1>1, <1>6 DEF IInv, WantIsRow, TeardownSilent
<1>10. TodoWell'
  BY <1>1, <1>3, <1>7 DEF IInv, TodoWell
<1>11. VerdictWell' /\ AfterWell'
  BY <1>1, <1>3, <1>6 DEF IInv, VerdictWell, AfterWell
<1> QED
  BY <1>1, <1>5, <1>8, <1>9, <1>10, <1>11 DEF IInv

\* A launcher, the queue or a user reports: the build had not ended.
LEMMA ReportInv ==
  ASSUME IInv, NEW b \in Builds, NEW s \in Status, Report(b, s)
  PROVE  IInv'
<1>1. st[b] \in Active /\ s \in Status \ {"NONE"}
  BY DEF Report, Sends, Active, Finished, Terminal
<1>2. b \in Jobs /\ Jobs \subseteq Builds /\ Teardown \notin Jobs /\ Teardown \in Builds
  BY <1>1, StageAssumption DEF IInv, TeardownSilent, Builds, Active
<1>3. Written(b, s)
  BY <1>1, <1>2 DEF Written, Report, Active
<1>4. /\ st' \in [Builds -> Status]
      /\ \A k \in Builds : st'[k] = IF k = b THEN s ELSE st[k]
      /\ \A k \in Builds : st[k] = "SUCCESS" => st'[k] = "SUCCESS"
      /\ LastWell => LastWell'
      /\ ParentWell'
  BY <1>3, WrittenKeeps
<1>5. /\ pc' = [pc EXCEPT ![b] = "load"] /\ want' = [want EXCEPT ![b] = s]
      /\ UNCHANGED <<todo, after>>
  BY DEF Report, Goto
<1>6. Types'
  BY <1>4, <1>5 DEF IInv, Types, Pcs
<1>7. \A q \in Builds : /\ pc'[q] = IF q = b THEN "load" ELSE pc[q]
                        /\ want'[q] = IF q = b THEN s ELSE want[q]
  BY <1>5 DEF IInv, Types
<1>8. TeardownSilent'
  BY <1>2, <1>4, <1>7 DEF IInv, TeardownSilent
<1>9. WantIsRow'
  BY <1>1, <1>4, <1>7 DEF IInv, WantIsRow
<1>10. TodoWell'
  BY <1>2, <1>4, <1>5 DEF IInv, TodoWell
<1>11. VerdictWell' /\ AfterWell'
  BY <1>2, <1>4, <1>5, <1>7 DEF IInv, VerdictWell, AfterWell
<1> QED
  BY <1>4, <1>6, <1>8, <1>9, <1>10, <1>11 DEF IInv

LEMMA AtWork == ASSUME IInv, NEW b \in Builds, pc[b] # "ready" PROVE b \in Jobs
BY DEF IInv, TeardownSilent, Builds

\* The status a request has reported decides what it starts.
LEMMA SetStageInv == ASSUME IInv, NEW b \in Builds, SetStage(b) PROVE IInv'
<1>1. b \in Jobs
  BY AtWork DEF SetStage
<1>2. b # Teardown /\ Jobs \subseteq Builds /\ Last \subseteq Jobs /\ Teardown \in Builds \ Jobs
  BY <1>1, StageAssumption DEF Builds, Last
<1>3. want[b] = st[b] /\ pc[b] = "set"
  BY DEF IInv, WantIsRow, SetStage
<1> DEFINE l == IF want[b] \notin Finished THEN "answer"
                ELSE IF want[b] = "SUCCESS" THEN "trigger" ELSE "look"
           T == IF want[b] # "SUCCESS" THEN {} ELSE IF b \in Last THEN {Teardown} ELSE Next_[b]
<1>4. pc' = [pc EXCEPT ![b] = l]
  BY <1>1, <1>2 DEF SetStage, Goto
<1>5. todo' = [todo EXCEPT ![b] = T]
  BY <1>1, <1>2 DEF SetStage
<1>6. UNCHANGED <<st, want, after>>
  BY DEF SetStage
<1>7. T \in SUBSET Builds /\ T \cap Jobs \subseteq Next_[b] /\ (T \cap Jobs # {} => st[b] = "SUCCESS")
  BY <1>1, <1>2, <1>3, StageAssumption
<1>8. l \in {"answer", "trigger", "look"}
  OBVIOUS
<1> HIDE DEF l, T
<1> QED
  BY <1>1, <1>4, <1>5, <1>6, <1>7, <1>8, QuietStep DEF Pcs

\* A job is started by its parent, which has succeeded.
LEMMA TriggerJobInv == ASSUME IInv, NEW b \in Builds, TriggerJob(b) PROVE IInv'
<1>1. b \in Jobs /\ Jobs \subseteq Builds /\ Teardown \notin Jobs
  BY AtWork, StageAssumption DEF TriggerJob, Builds
<1>2. PICK j \in todo[b] \cap Jobs :
        /\ st' = [st EXCEPT ![j] = IF @ = "NONE" THEN "QUEUED" ELSE @]
        /\ todo' = [todo EXCEPT ![b] = @ \ {j}]
  BY DEF TriggerJob
<1>3. UNCHANGED <<pc, want, after>> /\ pc[b] = "trigger"
  BY DEF TriggerJob
<1>4. pc' = [pc EXCEPT ![b] = "trigger"]
  BY <1>3 DEF IInv, Types
<1>5. \E T \in SUBSET todo[b] : todo' = [todo EXCEPT ![b] = T]
  BY <1>2
<1>6. CASE st[j] = "NONE"
  <2>1. st' = [st EXCEPT ![j] = "QUEUED"]
    BY <1>2, <1>6
  <2>2. \A k \in Jobs : j \in Next_[k] => st[k] = "SUCCESS"
    BY <1>1, <1>2, TreeAssumption DEF IInv, TodoWell
  <2>3. Written(j, "QUEUED")
    BY <1>1, <1>6, <2>1, <2>2 DEF Written, Status, Active
  <2> QED
    BY <1>1, <1>3, <1>4, <1>5, <1>6, <2>3, WriteStep DEF Pcs
<1>7. CASE st[j] # "NONE"
  <2>1. st' = st
    BY <1>2, <1>7 DEF IInv, Types
  <2>2. /\ todo' = [todo EXCEPT ![b] = todo[b] \ {j}] /\ todo[b] \ {j} \in SUBSET Builds
        /\ (todo[b] \ {j}) \cap Jobs \subseteq Next_[b]
        /\ ((todo[b] \ {j}) \cap Jobs # {} => st[b] = "SUCCESS")
    BY <1>1, <1>2 DEF IInv, TodoWell, Types
  <2>3. \E T \in SUBSET Builds :
          /\ todo' = [todo EXCEPT ![b] = T] /\ T \cap Jobs \subseteq Next_[b]
          /\ (T \cap Jobs # {} => st[b] = "SUCCESS")
    BY <2>2
  <2> QED
    BY <1>1, <1>3, <1>4, <2>1, <2>3, QuietStep DEF Pcs
<1> QED
  BY <1>6, <1>7

\* The row of the teardown is found or created; its other requests start it.
LEMMA TeardownRow ==
  ASSUME IInv, NEW b \in Jobs, NEW l \in {"check", "run"}, pc' = [pc EXCEPT ![b] = l],
         st' = [st EXCEPT ![Teardown] = IF @ = "NONE" THEN "CREATED" ELSE @],
         todo' = todo \/ todo' = [todo EXCEPT ![b] = @ \ {Teardown}],
         UNCHANGED <<want, after>>
  PROVE  IInv'
<1>1. Teardown \in Builds \ Jobs /\ Jobs \subseteq Builds
  BY StageAssumption DEF Builds
<1>2. CASE st[Teardown] = "NONE"
  <2>1. Written(Teardown, "CREATED")
    BY <1>1, <1>2 DEF Written, Status
  <2>2. \E T \in SUBSET todo[b] : todo' = [todo EXCEPT ![b] = T]
    <3>1. todo = [todo EXCEPT ![b] = todo[b]]
      BY DEF IInv, Types
    <3> QED
      BY <3>1
  <2> QED
    BY <2>1, <2>2, WriteStep DEF Pcs
<1>3. CASE st[Teardown] # "NONE"
  <2>1. st' = st
    BY <1>3 DEF IInv, Types
  <2> QED
    BY <2>1, QuietStep DEF Pcs
<1> QED
  BY <1>2, <1>3

\* The teardown is passed over: it is SUCCESS at once.
LEMMA RunInv ==
  ASSUME VirtualTeardown, IInv, NEW b \in Builds, JoinStart(b) \/ StartTeardown(b)
  PROVE  IInv'
<1>1. b \in Jobs
  BY AtWork DEF JoinStart, StartTeardown
<1>2. Teardown \in Builds \ Jobs
  BY StageAssumption DEF Builds
<1>3. st' = [st EXCEPT ![Teardown] = "SUCCESS"] /\ UNCHANGED <<todo, want, after>>
  BY DEF JoinStart, StartTeardown, Run, mine
<1>4. Written(Teardown, "SUCCESS")
  BY <1>2, <1>3 DEF Written, Status, Finished
<1>5. \E T \in SUBSET todo[b] : todo' = [todo EXCEPT ![b] = T]
  <2>1. todo = [todo EXCEPT ![b] = todo[b]]
    BY DEF IInv, Types
  <2> QED
    BY <1>3, <2>1
<1>6. PICK l \in {"jload", "close"} :
        pc' = [pc EXCEPT ![b] = l] /\ (l = "jload" => pc[b] = "start")
  BY DEF JoinStart, StartTeardown, Goto
<1>7. l = "jload" => LastWell
  BY <1>1, <1>6 DEF IInv, VerdictWell
<1> QED
  BY <1>1, <1>3, <1>4, <1>5, <1>6, <1>7, WriteStep DEF Pcs

LEMMA StepInv ==
  ASSUME VirtualTeardown, IInv, NEW b \in Builds, Step(b)
  PROVE  IInv'
<1>1. CASE LoadStage(b)
  <2>1. b \in Jobs
    BY <1>1, AtWork DEF LoadStage
  <2>2. pc[b] = "load" /\ pc' = [pc EXCEPT ![b] = "set"] /\ UNCHANGED <<st, want, todo, after>>
    BY <1>1 DEF LoadStage, Goto, db
  <2>3. "set" \in Pcs \ {"load"} /\ "set" \notin {"start", "jload", "jset", "after"}
    BY DEF Pcs
  <2> QED
    BY <2>1, <2>2, <2>3, QuietStep
<1>2. CASE SetStage(b)
  BY <1>2, SetStageInv
<1>3. CASE Answer(b)
  <2>1. b \in Jobs /\ pc' = [pc EXCEPT ![b] = "ready"] /\ todo' = [todo EXCEPT ![b] = {}]
        /\ UNCHANGED <<st, after>> /\ want' = [want EXCEPT ![b] = "NONE"]
    BY <1>3, AtWork DEF Answer, Answered, Goto, db
  <2>2. Types'
    BY <2>1 DEF IInv, Types, Pcs, Status
  <2>3. \A q \in Builds : /\ pc'[q] = IF q = b THEN "ready" ELSE pc[q]
                          /\ todo'[q] \subseteq todo[q]
                          /\ q # b => want'[q] = want[q]
    BY <2>1 DEF IInv, Types
  <2>4. Jobs \subseteq Builds /\ Teardown \in Builds /\ b # Teardown
    BY <2>1, StageAssumption DEF Builds
  <2> QED
    BY <2>1, <2>2, <2>3, <2>4
    DEF IInv, TeardownSilent, WantIsRow, TodoWell, ParentWell, VerdictWell, AfterWell, LastWell
<1>4. CASE TriggerJob(b)
  BY <1>4, TriggerJobInv
<1>5. CASE JoinFind(b)
  <2>1. b \in Jobs
    BY <1>5, AtWork DEF JoinFind
  <2> QED
    BY <1>5, <2>1, TeardownRow DEF JoinFind, Goto
<1>6. CASE JoinCheck(b)
  <2>1. b \in Jobs /\ UNCHANGED <<st, want, todo, after>>
    BY <1>6, AtWork DEF JoinCheck, mine
  <2>2. PICK l \in {"start", "trigger"} : pc' = [pc EXCEPT ![b] = l] /\ (l = "start" => LastWell)
    BY <1>6 DEF JoinCheck, JoinReady, Goto, LastWell
  <2> QED
    BY <2>1, <2>2, QuietStep DEF Pcs
<1>7. CASE JoinStart(b) \/ StartTeardown(b)
  BY <1>7, RunInv
<1>8. CASE JoinLoadStage(b) \/ JoinSetStage(b)
  <2>1. b \in Jobs /\ UNCHANGED <<st, want, todo, after>>
    BY <1>8, AtWork DEF JoinLoadStage, JoinSetStage, db
  <2>2. LastWell /\ st[Teardown] = "SUCCESS"
    BY <1>8, <2>1 DEF JoinLoadStage, JoinSetStage, IInv, VerdictWell
  <2>3. PICK l \in {"jset", "after"} : pc' = [pc EXCEPT ![b] = l]
    BY <1>8 DEF JoinLoadStage, JoinSetStage, Goto
  <2> QED
    BY <2>1, <2>2, <2>3, QuietStep DEF Pcs
<1>9. CASE TriggerAfter(b)
  <2>1. b \in Jobs /\ b # Teardown
    BY <1>9, AtWork, StageAssumption DEF TriggerAfter
  <2>2. /\ UNCHANGED <<st, want, todo>> /\ after' = TRUE /\ pc' = [pc EXCEPT ![b] = "look"]
        /\ pc[b] = "after"
    BY <1>9, <2>1 DEF TriggerAfter, Goto, mine
  <2>3. LastWell /\ st[Teardown] = "SUCCESS"
    BY <2>1, <2>2 DEF IInv, VerdictWell
  <2> QED
    BY <2>1, <2>2, <2>3, QuietStep DEF Pcs
<1>10. CASE Triggered(b) \/ Look(b) \/ CheckDone(b) \/ CloseStage(b)
  <2>1. b \in Jobs /\ UNCHANGED <<st, want, todo, after>>
    BY <1>10, AtWork DEF Triggered, Look, CheckDone, CloseStage, db, mine
  <2>2. PICK l \in {"look", "done?", "answer", "ensure"} : pc' = [pc EXCEPT ![b] = l]
    BY <1>10 DEF Triggered, Look, CheckDone, CloseStage, Goto
  <2> QED
    BY <2>1, <2>2, QuietStep DEF Pcs
<1>11. CASE Ensure(b)
  <2>1. b \in Jobs
    BY <1>11, AtWork DEF Ensure
  <2> QED
    BY <1>11, <2>1, TeardownRow DEF Ensure, Goto, mine
<1> QED
  BY <1>1, <1>2, <1>3, <1>4, <1>5, <1>6, <1>7, <1>8, <1>9, <1>10, <1>11 DEF Step

\* If the last jobs have succeeded all have: take a job that has not and none of
\* whose children has not; it has a child, which exists, so it has succeeded.
LEMMA AllWell == ASSUME IInv, LastWell PROVE \A j \in Jobs : st[j] = "SUCCESS"
<1> DEFINE T == {j \in Jobs : st[j] # "SUCCESS"}
<1> SUFFICES ASSUME T # {} PROVE FALSE
  OBVIOUS
<1>1. PICK j \in T : Next_[j] \cap T = {}
  BY TreeAssumption
<1>2. Next_[j] # {}
  BY DEF LastWell, Last
<1>3. PICK k \in Next_[j] : st[k] = "SUCCESS"
  BY <1>1, <1>2, StageAssumption
<1> QED
  BY <1>3, StageAssumption DEF IInv, ParentWell

\* With a virtual teardown, what comes after the stage is triggered only when all
\* of its builds have succeeded, although the request that triggers it has
\* looked at the last of them only, and may have an old stage build
\* (helpers.js:765, updateBuild.js:527).
THEOREM StageBeforeAfter == ASSUME VirtualTeardown PROVE Spec => []AfterSuccess
<1>1. IInv => AfterSuccess
  <2> SUFFICES ASSUME IInv, after PROVE \A b \in Builds : st[b] = "SUCCESS"
    BY DEF AfterSuccess
  <2>1. LastWell /\ st[Teardown] = "SUCCESS"
    BY DEF IInv, AfterWell
  <2> QED
    BY <2>1, AllWell DEF Builds
<1>2. Init => IInv
  BY InitInv
<1>3. IInv /\ [Next]_vars => IInv'
  <2> SUFFICES ASSUME IInv, [Next]_vars PROVE IInv'
    OBVIOUS
  <2>1. CASE UNCHANGED vars
    BY <2>1 DEF vars, IInv, Types, TeardownSilent, WantIsRow, TodoWell, ParentWell,
                VerdictWell, AfterWell, LastWell
  <2>2. CASE Next
    BY <2>2, StepInv, ReportInv DEF Next
  <2> QED
    BY <2>1, <2>2
<1> QED
  BY <1>1, <1>2, <1>3, PTL DEF Spec
=============================================================================
