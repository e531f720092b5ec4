------------------------------ MODULE StageBuild ------------------------------
(***************************************************************************)
(* One stage of an event: its builds, the stage build that sums them up,   *)
(* and the teardown that is to run after them whether they fail or not.    *)
(*   plugins/builds/helper/updateBuild.js  updateStageBuildStatus and the  *)
(*       stage part of updateBuildAndTriggerDownstreamJobs                 *)
(*   plugins/builds/index.js               createOrUpdateStageTeardownBuild*)
(*   plugins/builds/triggers/helpers.js    ensureStageTeardownBuildExists, *)
(*       handleNewBuild for the teardown                                   *)
(*                                                                         *)
(* The teardown is started in two ways that know nothing of each other: by *)
(* the join of the workflow graph, when the last jobs of the stage have    *)
(* all succeeded, and by the build that finds the stage done, when one has *)
(* not.  What the join of an ordinary job goes through is in JoinTrigger.  *)
(***************************************************************************)
EXTENDS Naturals

CONSTANTS
  Jobs,             \* the jobs of the stage without its teardown
  Setup,            \* the job the stage begins with
  Next_,            \* job -> jobs of the stage its success starts
  Teardown,         \* the teardown of the stage
  VirtualTeardown,  \* the teardown ends on the spot, without being run
  NoOne

Builds == Jobs \cup {Teardown}

ASSUME StageAssumption ==
  /\ Setup \in Jobs /\ Next_ \in [Jobs -> SUBSET Jobs]
  /\ Teardown \notin Jobs /\ NoOne \notin Builds
  /\ VirtualTeardown \in BOOLEAN

(* The jobs of a stage follow each other without a circle, and here each has *)
(* one parent.                                                               *)
ASSUME TreeAssumption ==
  /\ \A j \in Jobs : Setup \notin Next_[j]
  /\ \A j, k \in Jobs : Next_[j] \cap Next_[k] # {} => j = k
  /\ \A T \in SUBSET Jobs : T # {} => \E j \in T : Next_[j] \cap T = {}

VARIABLES
  st,      \* builds table: build -> status
  stage,   \* stageBuilds table: the status of the stage build
  lock,    \* the lock on the group event
  runs,    \* history: how often the teardown was started
  after,   \* history: the jobs after the stage were triggered
  pc,      \* per build, where the request that updates it is
  want,    \* per build, payload.status of that request
  sb,      \* per request, status of its stageBuild object
  td,      \* per request, status of its teardown build object
  known,   \* per request, the parents of the teardown it knows builds of
  todo     \* per request, next jobs it has yet to trigger

vars == <<st, stage, lock, runs, after, pc, want, sb, td, known, todo>>
db   == <<st, stage, lock, runs, after>>
mine == <<want, sb, td, known, todo>>

-----------------------------------------------------------------------------
Terminal == {"FAILURE", "ABORTED"}
Finished == {"SUCCESS"} \cup Terminal
Active   == {"QUEUED", "BLOCKED", "RUNNING"}
Status   == {"NONE", "CREATED"} \cup Active \cup Finished

(* The teardown joins on the jobs that start nothing else in the stage. *)
Last == {j \in Jobs : Next_[j] = {}}

(* What the queue, the launcher and users report of a build in this status. *)
Sends(s) == CASE s = "QUEUED"  -> {"BLOCKED", "RUNNING", "ABORTED"}
              [] s = "BLOCKED" -> {"RUNNING", "ABORTED"}
              [] s = "RUNNING" -> Finished
              [] OTHER         -> {}

(* updateStageBuildStatus *)
StageStatus(old, new, b) ==
  IF /\ old \notin Terminal
     /\ new \in {"RUNNING"} \cup Terminal \/ (b = Teardown /\ new = "SUCCESS")
  THEN new ELSE old

(* Mutant: jobs that have no build hold the stage up. *)
DoneWhenAllRan(s) == \A j \in Jobs : s[j] \in Finished

(* isStageDone, of the builds getStageJobBuilds finds. *)
StageDone(s) == /\ \E j \in Jobs : s[j] # "NONE"
                /\ \A j \in Jobs : s[j] # "NONE" => s[j] \in Finished

-----------------------------------------------------------------------------
Init ==
  /\ st    = [b \in Builds |-> IF b = Setup THEN "QUEUED" ELSE "NONE"]
  /\ stage = "CREATED"
  /\ lock  = NoOne
  /\ runs  = 0
  /\ after = FALSE
  /\ pc    = [b \in Builds |-> "ready"]
  /\ want  = [b \in Builds |-> "NONE"]
  /\ sb    = [b \in Builds |-> "CREATED"]
  /\ td    = [b \in Builds |-> "NONE"]
  /\ known = [b \in Builds |-> {}]
  /\ todo  = [b \in Builds |-> {}]

Goto(b, l) == pc' = [pc EXCEPT ![b] = l]

Answered(b) ==
  /\ Goto(b, "ready")
  /\ want'  = [want EXCEPT ![b] = "NONE"]
  /\ sb'    = [sb EXCEPT ![b] = "CREATED"]
  /\ td'    = [td EXCEPT ![b] = "NONE"]
  /\ known' = [known EXCEPT ![b] = {}]
  /\ todo'  = [todo EXCEPT ![b] = {}]

(* PUT /builds/{id}: the build row is written ... *)
Report(b, s) ==
  /\ pc[b] = "ready" /\ s \in Sends(st[b])
  /\ st'   = [st EXCEPT ![b] = s]
  /\ want' = [want EXCEPT ![b] = s]
  /\ Goto(b, "load")
  /\ UNCHANGED <<stage, lock, runs, after, sb, td, known, todo>>

(* ... then the stage build is read ... *)
LoadStage(b) ==
  /\ pc[b] = "load"
  /\ sb' = [sb EXCEPT ![b] = stage]
  /\ Goto(b, "set")
  /\ UNCHANGED <<db, want, td, known, todo>>

(* The row is written only when the object says something new. *)
WriteStage(b, of, s) ==
  LET new == StageStatus(sb[b], s, of)
  IN /\ sb'    = [sb EXCEPT ![b] = new]
     /\ stage' = IF new # sb[b] THEN new ELSE stage

(* ... and updated.  A teardown that succeeds triggers what comes after the  *)
(* stage unless the stage has failed.                                        *)
SetStage(b) ==
  /\ pc[b] = "set"
  /\ WriteStage(b, b, want[b])
  /\ todo' = [todo EXCEPT ![b] = IF want[b] # "SUCCESS" \/ b = Teardown THEN {}
                                 ELSE IF b \in Last THEN {Teardown} ELSE Next_[b]]
  /\ Goto(b, IF want[b] \notin Finished THEN "answer"
             ELSE IF b \in Jobs THEN (IF want[b] = "SUCCESS" THEN "trigger" ELSE "look")
             ELSE IF want[b] = "SUCCESS" /\ sb'[b] \notin Terminal THEN "after"
             ELSE "answer")
  /\ UNCHANGED <<st, lock, runs, after, want, td, known>>

Answer(b) ==
  /\ pc[b] = "answer"
  /\ Answered(b)
  /\ UNCHANGED db

-----------------------------------------------------------------------------
(* triggerNextJobs *)

(* A job of the stage has one parent here: it is created and started. *)
TriggerJob(b) ==
  /\ pc[b] = "trigger" /\ lock = NoOne
  /\ \E j \in todo[b] \cap Jobs :
       /\ st'   = [st EXCEPT ![j] = IF @ = "NONE" THEN "QUEUED" ELSE @]
       /\ todo' = [todo EXCEPT ![b] = @ \ {j}]
  /\ UNCHANGED <<stage, lock, runs, after, pc, want, sb, td, known>>

(* AndTrigger.execute for the teardown, under the lock: the row is found or  *)
(* created, and the builds of its parents that exist are recorded in it.     *)
JoinFind(b) ==
  /\ pc[b] = "trigger" /\ Teardown \in todo[b] /\ lock = NoOne
  /\ lock'  = b
  /\ todo'  = [todo EXCEPT ![b] = @ \ {Teardown}]
  /\ st'    = [st EXCEPT ![Teardown] = IF @ = "NONE" THEN "CREATED" ELSE @]
  /\ td'    = [td EXCEPT ![b] = st'[Teardown]]
  /\ known' = [known EXCEPT ![b] = {j \in Last : st[j] # "NONE"}]
  /\ Goto(b, "check")
  /\ UNCHANGED <<stage, runs, after, want, sb>>

(* Mutant: finished parents are enough for the teardown, as for its other path. *)
JoinFinished(b) == /\ known[b] = Last /\ \A j \in Last : st[j] \in Finished
                   /\ td[b] = "CREATED"

(* handleNewBuild: nothing is done if a parent is missing, runs or failed, or  *)
(* if the teardown was started before; unlike other joins it is never removed. *)
JoinReady(b) == /\ known[b] = Last /\ \A j \in Last : st[j] = "SUCCESS"
                /\ td[b] = "CREATED"

JoinCheck(b) ==
  /\ pc[b] = "check"
  /\ IF JoinReady(b) THEN Goto(b, "start") /\ UNCHANGED lock
     ELSE Goto(b, "trigger") /\ lock' = NoOne
  /\ UNCHANGED <<st, stage, runs, after, mine>>

(* The teardown is started, or is done at once when it is virtual. *)
Run == /\ st'   = [st EXCEPT ![Teardown] = IF VirtualTeardown THEN "SUCCESS" ELSE "QUEUED"]
       /\ runs' = runs + 1

JoinStart(b) ==
  /\ pc[b] = "start"
  /\ Run
  /\ IF VirtualTeardown THEN Goto(b, "jload") /\ UNCHANGED lock
     ELSE Goto(b, "trigger") /\ lock' = NoOne
  /\ UNCHANGED <<stage, after, mine>>

(* The stage build of a virtual teardown is read and updated here as well. *)
JoinLoadStage(b) ==
  /\ pc[b] = "jload"
  /\ sb' = [sb EXCEPT ![b] = stage]
  /\ Goto(b, "jset")
  /\ UNCHANGED <<db, want, td, known, todo>>

JoinSetStage(b) ==
  /\ pc[b] = "jset"
  /\ WriteStage(b, Teardown, "SUCCESS")
  /\ lock' = NoOne
  /\ Goto(b, "after")
  /\ UNCHANGED <<st, runs, after, want, td, known, todo>>

(* The jobs downstream of the teardown. *)
TriggerAfter(b) ==
  /\ pc[b] = "after" /\ lock = NoOne
  /\ after' = TRUE
  /\ Goto(b, IF b = Teardown THEN "answer" ELSE "look")
  /\ UNCHANGED <<st, stage, lock, runs, mine>>

Triggered(b) ==
  /\ pc[b] = "trigger" /\ todo[b] = {}
  /\ Goto(b, "look")
  /\ UNCHANGED <<db, mine>>

-----------------------------------------------------------------------------
(* Determine if the teardown should start: no lock is held over these steps. *)

Look(b) ==
  /\ pc[b] = "look"
  /\ Goto(b, IF st[Teardown] \in {"NONE", "CREATED"} THEN "done?" ELSE "answer")
  /\ UNCHANGED <<db, mine>>

CheckDone(b) ==
  /\ pc[b] = "done?"
  /\ Goto(b, IF StageDone(st) THEN "ensure" ELSE "answer")
  /\ UNCHANGED <<db, mine>>

(* createOrUpdateStageTeardownBuild takes the lock, but for itself only. *)
Ensure(b) ==
  /\ pc[b] = "ensure" /\ lock = NoOne
  /\ st' = [st EXCEPT ![Teardown] = IF @ = "NONE" THEN "CREATED" ELSE @]
  /\ Goto(b, "run")
  /\ UNCHANGED <<stage, lock, runs, after, mine>>

(* The status the teardown has by now is not looked at. *)
StartTeardown(b) ==
  /\ pc[b] = "run"
  /\ Run
  /\ Goto(b, IF VirtualTeardown THEN "close" ELSE "answer")
  /\ UNCHANGED <<stage, lock, after, mine>>

(* The stage build is updated for a virtual teardown, from the object the     *)
(* request has read long before.                                              *)
CloseStage(b) ==
  /\ pc[b] = "close"
  /\ WriteStage(b, Teardown, "SUCCESS")
  /\ Goto(b, "answer")
  /\ UNCHANGED <<st, lock, runs, after, want, td, known, todo>>

-----------------------------------------------------------------------------
Step(b) ==
  \/ LoadStage(b) \/ SetStage(b) \/ Answer(b)
  \/ TriggerJob(b) \/ JoinFind(b) \/ JoinCheck(b) \/ JoinStart(b)
  \/ JoinLoadStage(b) \/ JoinSetStage(b) \/ TriggerAfter(b) \/ Triggered(b)
  \/ Look(b) \/ CheckDone(b) \/ Ensure(b) \/ StartTeardown(b) \/ CloseStage(b)

Next == \E b \in Builds : Step(b) \/ \E s \in Status : Report(b, s)

(* Requests run to their end; nothing makes a build send anything. *)
Fairness == \A b \in Builds : WF_vars(Step(b))

Spec     == Init /\ [][Next]_vars
FairSpec == Spec /\ Fairness

-----------------------------------------------------------------------------
TypeOK ==
  /\ st \in [Builds -> Status]
  /\ stage \in {"CREATED", "RUNNING"} \cup Finished
  /\ lock \in Builds \cup {NoOne} /\ runs \in Nat /\ after \in BOOLEAN
  /\ pc \in [Builds -> {"ready", "load", "set", "trigger", "check", "start",
                        "jload", "jset", "after", "look", "done?", "ensure",
                        "run", "close", "answer"}]
  /\ want \in [Builds -> Status] /\ td \in [Builds -> Status]
  /\ sb \in [Builds -> {"CREATED", "RUNNING"} \cup Finished]
  /\ known \in [Builds -> SUBSET Last] /\ todo \in [Builds -> SUBSET Builds]

Quiet == \A b \in Builds : pc[b] = "ready"

(* When nothing runs any more the stage is SUCCESS exactly if all its jobs    *)
(* and its teardown are: a failure is not written over by a request that read *)
(* the stage build before it.                                                 *)
StageVerdict ==
  Quiet /\ st[Teardown] \in Finished =>
    (stage = "SUCCESS" <=> \A b \in Builds : st[b] = "SUCCESS")

(* The teardown runs when all builds of the stage have finished, not while one *)
(* of them is still to run.                                                    *)
TeardownLast == runs > 0 => \A j \in Jobs : st[j] \notin Active

(* The jobs after the stage run only if the whole stage has succeeded. *)
AfterSuccess == after => \A b \in Builds : st[b] = "SUCCESS"

(* However the builds of the stage end, the teardown is started once none of *)
(* them runs, unless another one is started after all.                       *)
TeardownRuns ==
  (st[Setup] \in Finished /\ \A j \in Jobs : st[j] \notin Active)
    ~> (runs > 0 \/ \E j \in Jobs : st[j] \in Active)
=============================================================================
