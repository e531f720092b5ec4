----------------------------- MODULE BuildUpdate -----------------------------
(***************************************************************************)
(* Status updates of the builds of one event, and the status and meta of   *)
(* the event that are derived from them:                                   *)
(*   plugins/builds/update.js              PUT /builds/{id}                *)
(*   plugins/builds/helper/updateBuild.js  what it does to build and event *)
(*   plugins/events/stopBuilds.js          PUT /events/{id}/stop           *)
(*                                                                         *)
(* A build sends its updates one after the other; a user may abort any     *)
(* build and stop the event at any time.  Each request works on its own    *)
(* copies of the build and event rows and writes back the fields it set,   *)
(* so a write can undo what another request wrote after the copy was made. *)
(*                                                                         *)
(* "STOPPED" is the status ABORTED with the statusMessage "Aborted event   *)
(* by ...".  What triggerNextJobs does to one next job is JoinTrigger's    *)
(* subject; here a successful build starts the builds downstream of it.    *)
(***************************************************************************)
EXTENDS Naturals, FiniteSets

CONSTANTS
  Builds,     \* one build per job of the event
  Roots,      \* the builds the event begins with
  Down,       \* build -> the builds its success starts
  Users,      \* requests of users who abort one build
  Stoppers,   \* requests of users who stop the event
  MaxFails    \* bound: requests that die half-way (crash, datastore error)

ASSUME EventAssumption ==
  /\ Builds # {} /\ Roots \subseteq Builds
  /\ Down \in [Builds -> SUBSET Builds]
  /\ Builds \cap Users = {} /\ Builds \cap Stoppers = {}
  /\ Users \cap Stoppers = {}
  /\ MaxFails \in Nat

VARIABLES
  st,      \* builds table: build -> status
  ev,      \* events table: the status of the event
  meta,    \* events table: the builds whose meta is merged into event.meta
  phase,   \* per sender, what it will send next
  pc,      \* per sender, where its request is; "ready" when none is running
  on,      \* per request, the build it updates
  want,    \* per request, payload.status
  mine,    \* per request, build.status of its build object
  copy,    \* per request, event.status of its event object
  merged,  \* per request, event.meta of its event object
  due,     \* per request, writes or next builds of the current step still due
  derived, \* per request, the event status it has derived
  fails,   \* requests that died so far
  stopped, \* history: a stop of the event has been answered
  late     \* history: senders whose last request came after that, when a
           \* build was STOPPED, and was neither refused nor lost; reset
           \* when a stopped build's status is overwritten

rows   == <<st, ev, meta>>
object == <<on, want, mine, copy, merged>>
vars   == <<st, ev, meta, phase, pc, on, want, mine, copy, merged, due,
            derived, fails, stopped, late>>
history == <<stopped, late>>

-----------------------------------------------------------------------------
NonTerminated == {"QUEUED", "BLOCKED", "RUNNING"}
Aborted       == {"ABORTED", "STOPPED"}
EndStatus     == {"SUCCESS", "FAILURE", "ABORTED"}
Status        == {"NONE", "UNSTABLE", "STOPPED"} \cup NonTerminated \cup EndStatus
EventStatus   == {"CREATED", "IN_PROGRESS", "SUCCESS", "FAILURE", "ABORTED"}
Updatable     == {"RUNNING", "QUEUED", "BLOCKED", "UNSTABLE"}

Senders == Builds \cup Users \cup Stoppers

(* The awaits at which the handler of a request stands. *)
Labels == {"ready", "load", "aborted?", "set", "write", "trigger", "latest",
           "stopping", "sweep"}

(* What a sender sends in each phase, and the phase it is in afterwards.     *)
(* The launcher announces the build, may mark it unstable, and ends it;      *)
(* before that the queue may report it blocked.                              *)
Phases == {"boot", "work", "tail", "user", "stop", "gone"}
Sends  == [boot |-> {"BLOCKED", "RUNNING"},
           work |-> {"UNSTABLE", "SUCCESS", "FAILURE"},
           tail |-> {"SUCCESS", "FAILURE"},
           user |-> {"ABORTED"}, stop |-> {}, gone |-> {}]
After(ph, s) == IF s = "BLOCKED" THEN ph
                ELSE IF s = "RUNNING" THEN "work"
                ELSE IF s = "UNSTABLE" THEN "tail" ELSE "gone"

Targets(p) == IF p \in Builds THEN {p} \cap {b \in Builds : st[b] # "NONE"}
              ELSE {b \in Builds : st[b] # "NONE"}

(* Mutant: the message of the stop is not recognised. *)
NobodyStopped == FALSE

(* getEventAbortedStatusMessage finds a message. *)
SomeStopped == \E b \in Builds : st[b] = "STOPPED"

(* Mutant: statuses of builds that need no mapping are taken as they are. *)
DeriveUnmapped(s) ==
  IF \E b \in Builds : s[b] \in NonTerminated THEN "IN_PROGRESS"
  ELSE IF \E b \in Builds : s[b] \in Aborted THEN "ABORTED"
  ELSE IF \E b \in Builds : s[b] = "FAILURE" THEN "FAILURE"
  ELSE s[CHOOSE b \in Builds : s[b] # "NONE"]

(* deriveEventStatusFromBuildStatuses, "CREATED" standing for "no verdict". *)
Derive(s) ==
  IF \E b \in Builds : s[b] \in NonTerminated THEN "IN_PROGRESS"
  ELSE IF \E b \in Builds : s[b] \in Aborted THEN "ABORTED"
  ELSE IF \E b \in Builds : s[b] = "FAILURE" THEN "FAILURE"
  ELSE IF \E b \in Builds : s[b] \in {"SUCCESS", "UNSTABLE"} THEN "SUCCESS"
  ELSE "CREATED"

(* stopBuilds: the builds it changes, and the statuses after the change. *)
ToStop(s)  == {b \in Builds : s[b] \in NonTerminated}
Stopped(s) == [b \in Builds |-> IF b \in ToStop(s) THEN "STOPPED" ELSE s[b]]

(* updateBuildStatus: an unstable build stays unstable. *)
UpdateStatus(current, desired) ==
  IF current = "UNSTABLE" THEN current ELSE desired

-----------------------------------------------------------------------------
Init ==
  /\ st    = [b \in Builds |-> IF b \in Roots THEN "QUEUED" ELSE "NONE"]
  /\ ev    = "CREATED"
  /\ meta  = {}
  /\ phase = [p \in Senders |-> IF p \in Builds THEN "boot"
                                ELSE IF p \in Users THEN "user" ELSE "stop"]
  /\ pc      = [p \in Senders |-> "ready"]
  /\ on      = [p \in Senders |-> CHOOSE b \in Builds : TRUE]
  /\ want    = [p \in Senders |-> "NONE"]
  /\ mine    = [p \in Senders |-> "NONE"]
  /\ copy    = [p \in Senders |-> "CREATED"]
  /\ merged  = [p \in Senders |-> {}]
  /\ due     = [p \in Senders |-> {}]
  /\ derived = [p \in Senders |-> "CREATED"]
  /\ fails   = 0
  /\ stopped = FALSE
  /\ late    = {}

(* The request is answered: its objects are garbage. *)
Answered(p) ==
  /\ pc'      = [pc EXCEPT ![p] = "ready"]
  /\ phase'   = [phase EXCEPT ![p] = After(@, want[p])]
  /\ want'    = [want EXCEPT ![p] = "NONE"]
  /\ mine'    = [mine EXCEPT ![p] = "NONE"]
  /\ copy'    = [copy EXCEPT ![p] = "CREATED"]
  /\ merged'  = [merged EXCEPT ![p] = {}]
  /\ due'     = [due EXCEPT ![p] = {}]
  /\ derived' = [derived EXCEPT ![p] = "CREATED"]
  /\ UNCHANGED on

(* Mutant: the status of the build is not checked. *)
AcceptsEnded(p, b, s) == ~(p \in Builds /\ st[b] = "RUNNING" /\ s = "RUNNING")

(* getBuildToUpdate and preventDuplicateBuild *)
Accepts(p, b, s) ==
  /\ st[b] \in Updatable
  /\ ~(p \in Builds /\ st[b] = "RUNNING" /\ s = "RUNNING")

Receive(p, b, s) ==
  /\ pc[p] = "ready" /\ s \in Sends[phase[p]] /\ b \in Targets(p)
  /\ on'   = [on EXCEPT ![p] = b]
  /\ want' = [want EXCEPT ![p] = s]
  /\ IF Accepts(p, b, s)
     THEN /\ pc'   = [pc EXCEPT ![p] = "load"]
          /\ mine' = [mine EXCEPT ![p] = st[b]]
          /\ UNCHANGED phase
     ELSE /\ phase' = [phase EXCEPT ![p] = After(@, s)]
          /\ UNCHANGED <<pc, mine>>
  /\ late' = IF /\ stopped /\ Accepts(p, b, s)
                /\ \E d \in Builds : st[d] = "STOPPED"
             THEN late \cup {p} ELSE late \ {p}
  /\ UNCHANGED <<rows, copy, merged, due, derived, fails, stopped>>

(* The event is loaded.  A second BLOCKED is refused; when the event was     *)
(* aborted the builds are looked at next.                                    *)
Load(p) ==
  /\ pc[p] = "load"
  /\ \/ /\ want[p] = "BLOCKED" /\ mine[p] = "BLOCKED"
        /\ Answered(p)
        /\ late' = late \ {p}
     \/ /\ ~(want[p] = "BLOCKED" /\ mine[p] = "BLOCKED")
        /\ copy' = [copy EXCEPT ![p] = ev]
        /\ pc' = [pc EXCEPT ![p] = IF ev = "ABORTED" THEN "aborted?" ELSE "set"]
        /\ UNCHANGED <<phase, on, want, mine, merged, due, derived, late>>
  /\ UNCHANGED <<rows, fails, stopped>>

(* A build of a stopped event is forced to the status of the stopped ones. *)
AbortCheck(p) ==
  /\ pc[p] = "aborted?"
  /\ mine' = [mine EXCEPT ![p] = IF SomeStopped THEN "STOPPED" ELSE @]
  /\ pc' = [pc EXCEPT ![p] = "set"]
  /\ UNCHANGED <<rows, phase, on, want, copy, merged, due, derived>>
  /\ UNCHANGED <<fails, history>>

(* The status is set in the build object (that of an unstable build is not   *)
(* made dirty), and on an end status the latest event.meta is read and       *)
(* merged with the meta the launcher sent.  The event lock around this is    *)
(* never taken: locker is undefined here, as require('../../lock') exports   *)
(* the lock object itself.                                                   *)
SetStatus(p) ==
  LET set == IF mine[p] = "STOPPED" THEN "STOPPED"
             ELSE UpdateStatus(mine[p], want[p])
  IN
  /\ pc[p] = "set"
  /\ pc'   = [pc EXCEPT ![p] = "write"]
  /\ mine' = [mine EXCEPT ![p] = set]
  /\ due'  = [due EXCEPT ![p] = {x \in {"build", "event"} :
                 IF x = "build" THEN mine[p] # "UNSTABLE" ELSE want[p] \in EndStatus}]
  /\ merged' = [merged EXCEPT ![p] =
                   IF want[p] \in EndStatus THEN meta \cup ({p} \cap Builds) ELSE @]
  /\ UNCHANGED <<rows, phase, on, want, copy, derived, fails, history>>

(* Promise.all([build.update(), event.update(), ...])                        *)
WriteBuild(p) ==
  /\ pc[p] = "write" /\ "build" \in due[p]
  /\ st'   = [st EXCEPT ![on[p]] = mine[p]]
  /\ due'  = [due EXCEPT ![p] = @ \ {"build"}]
  /\ late' = IF st[on[p]] = "STOPPED" /\ mine[p] # "STOPPED" THEN {} ELSE late
  /\ UNCHANGED <<ev, meta, phase, pc, object, derived, fails, stopped>>

WriteEvent(p) ==
  /\ pc[p] = "write" /\ "event" \in due[p]
  /\ meta' = merged[p]
  /\ due'  = [due EXCEPT ![p] = @ \ {"event"}]
  /\ UNCHANGED <<st, ev, phase, pc, object, derived, fails, history>>

(* Mutant: a build that was to become SUCCESS triggers. *)
WrittenWanted(p) ==
  /\ pc[p] = "write" /\ due[p] = {}
  /\ IF want[p] = "SUCCESS"
     THEN /\ pc'  = [pc EXCEPT ![p] = "trigger"]
          /\ due' = [due EXCEPT ![p] = Down[on[p]]]
     ELSE /\ pc'  = [pc EXCEPT ![p] = "latest"]
          /\ UNCHANGED due
  /\ UNCHANGED <<rows, phase, object, derived, fails, history>>

(* Mutant: the row is looked at again before its next jobs are triggered. *)
WrittenRow(p) ==
  /\ pc[p] = "write" /\ due[p] = {}
  /\ IF st[on[p]] = "SUCCESS"
     THEN /\ pc'  = [pc EXCEPT ![p] = "trigger"]
          /\ due' = [due EXCEPT ![p] = Down[on[p]]]
     ELSE /\ pc'  = [pc EXCEPT ![p] = "latest"]
          /\ UNCHANGED due
  /\ UNCHANGED <<rows, phase, object, derived, fails, history>>

(* Only a build that is SUCCESS triggers. *)
Written(p) ==
  /\ pc[p] = "write" /\ due[p] = {}
  /\ IF mine[p] = "SUCCESS"
     THEN /\ pc'  = [pc EXCEPT ![p] = "trigger"]
          /\ due' = [due EXCEPT ![p] = Down[on[p]]]
     ELSE /\ pc'  = [pc EXCEPT ![p] = "latest"]
          /\ UNCHANGED due
  /\ UNCHANGED <<rows, phase, object, derived, fails, history>>

Trigger(p) ==
  /\ pc[p] = "trigger"
  /\ \E d \in due[p] :
       /\ st'  = [st EXCEPT ![d] = IF @ = "NONE" THEN "QUEUED" ELSE @]
       /\ due' = [due EXCEPT ![p] = @ \ {d}]
  /\ UNCHANGED <<ev, meta, phase, pc, object, derived, fails, history>>

Triggered(p) ==
  /\ pc[p] = "trigger" /\ due[p] = {}
  /\ pc' = [pc EXCEPT ![p] = "latest"]
  /\ UNCHANGED <<rows, phase, object, due, derived, fails, history>>

(* All builds are read; if one was stopped with the event, those that have   *)
(* not terminated are stopped too.                                           *)
Latest(p) ==
  /\ pc[p] = "latest"
  /\ due'     = [due EXCEPT ![p] = IF SomeStopped THEN ToStop(st) ELSE {}]
  /\ derived' = [derived EXCEPT ![p] =
                   Derive(IF SomeStopped THEN Stopped(st) ELSE st)]
  /\ pc'      = [pc EXCEPT ![p] = "sweep"]
  /\ UNCHANGED <<rows, phase, object, fails, history>>

(* PUT /events/{id}/stop: the event is loaded, then its builds are read. *)
StopEvent(p) ==
  /\ p \in Stoppers /\ pc[p] = "ready" /\ phase[p] = "stop"
  /\ copy' = [copy EXCEPT ![p] = ev]
  /\ pc'   = [pc EXCEPT ![p] = "stopping"]
  /\ UNCHANGED <<rows, phase, on, want, mine, merged, due, derived, fails, history>>

StopRead(p) ==
  /\ pc[p] = "stopping"
  /\ due'     = [due EXCEPT ![p] = ToStop(st)]
  /\ derived' = [derived EXCEPT ![p] = Derive(Stopped(st))]
  /\ pc'      = [pc EXCEPT ![p] = "sweep"]
  /\ UNCHANGED <<rows, phase, object, fails, history>>

(* Promise.all(changedBuilds.map(b => b.update())) *)
Sweep(p) ==
  /\ pc[p] = "sweep"
  /\ \E b \in due[p] :
       /\ st'  = [st EXCEPT ![b] = "STOPPED"]
       /\ due' = [due EXCEPT ![p] = @ \ {b}]
  /\ UNCHANGED <<ev, meta, phase, pc, object, derived, fails, history>>

(* The derived status is written if it differs from the request's own copy. *)
Settle(p) ==
  /\ pc[p] = "sweep" /\ due[p] = {}
  /\ ev' = IF derived[p] # "CREATED" /\ derived[p] # copy[p] THEN derived[p] ELSE ev
  /\ Answered(p)
  /\ stopped' = (stopped \/ p \in Stoppers)
  /\ UNCHANGED <<st, meta, fails, late>>

(* The process dies or the datastore fails: the request is not answered, and *)
(* its sender may send it again.                                             *)
Fail(p) ==
  /\ pc[p] # "ready" /\ fails < MaxFails
  /\ fails'   = fails + 1
  /\ pc'      = [pc EXCEPT ![p] = "ready"]
  /\ due'     = [due EXCEPT ![p] = {}]
  /\ late'    = late \ {p}
  /\ UNCHANGED <<rows, phase, object, derived, stopped>>

Step(p) ==
  \/ Load(p) \/ AbortCheck(p) \/ SetStatus(p) \/ WriteBuild(p) \/ WriteEvent(p)
  \/ Written(p) \/ Trigger(p) \/ Triggered(p) \/ Latest(p)
  \/ StopRead(p) \/ Sweep(p) \/ Settle(p)

Send(p) == \/ \E b \in Builds, s \in Status : Receive(p, b, s)
           \/ StopEvent(p)

Next == \E p \in Senders : Step(p) \/ Send(p) \/ Fail(p)

(* Requests run to their end; nothing makes a build send anything. *)
Fairness == \A p \in Senders : WF_vars(Step(p))

Spec     == Init /\ [][Next]_vars
FairSpec == Spec /\ Fairness

-----------------------------------------------------------------------------
TypeOK ==
  /\ st \in [Builds -> Status] /\ ev \in EventStatus /\ meta \subseteq Builds
  /\ phase \in [Senders -> Phases]
  /\ pc \in [Senders -> Labels]
  /\ on \in [Senders -> Builds] /\ want \in [Senders -> Status]
  /\ mine \in [Senders -> Status] /\ copy \in [Senders -> EventStatus]
  /\ merged \in [Senders -> SUBSET Builds]
  /\ due \in [Senders -> SUBSET (Builds \cup {"build", "event"})]
  /\ derived \in [Senders -> EventStatus]
  /\ fails \in 0..MaxFails
  /\ stopped \in BOOLEAN /\ late \subseteq Senders

(* What is inductive as long as nobody but the launchers and the queue sends  *)
(* anything, with the sender of a build as the only writer of its row.        *)
LaunchersOnly == Users = {} /\ Stoppers = {}
NoAborts ==
  /\ \A b \in Builds : st[b] \notin Aborted
  /\ \A p \in Senders : mine[p] \notin Aborted /\ phase[p] \notin {"user", "stop"}
OwnBuild ==
  \A p \in Senders : pc[p] # "ready" =>
    on[p] = p /\ st[p] # "NONE" /\ pc[p] # "stopping"
(* Until the row is written the request's object agrees with it and the       *)
(* build has not ended; once it is written they agree again.                  *)
OwnObject ==
  \A p \in Senders :
    /\ pc[p] \in {"load", "aborted?", "set"} =>
         /\ st[p] = mine[p] /\ st[p] \in Updatable
         /\ want[p] \notin Aborted \cup {"NONE"}
    /\ pc[p] = "write" => /\ mine[p] # "NONE"
                          /\ "build" \in due[p] => st[p] \in Updatable
                          /\ "build" \notin due[p] => st[p] = mine[p]
OwnDue ==
  \A p \in Senders :
    /\ pc[p] = "trigger" => st[p] = "SUCCESS" /\ due[p] \subseteq Down[p]
    /\ pc[p] = "sweep" => due[p] = {}

Quiet    == \A p \in Senders : pc[p] = "ready"

(* A build downstream is started only by a build that is SUCCESS: one that   *)
(* was marked unstable, failed or was aborted never triggers.                *)
OnlySuccessTriggers ==
  \A d \in Builds \ Roots : st[d] # "NONE" =>
    \E b \in Builds : d \in Down[b] /\ st[b] = "SUCCESS"

(* A build that is SUCCESS gets all builds downstream of it started, whatever *)
(* else is written to its row or to the event meanwhile.                      *)
SuccessTriggers ==
  \A b \in Builds : \A d \in Down[b] : (st[b] = "SUCCESS") ~> (st[d] # "NONE")

(* When no request is running, event.meta holds the meta of every build that *)
(* ended with SUCCESS or FAILURE.                                            *)
MetaComplete ==
  Quiet => \A b \in Builds : st[b] \in {"SUCCESS", "FAILURE"} => b \in meta

(* The status of a build that has ended is never changed again: only         *)
(* RUNNING, QUEUED, BLOCKED, FROZEN and UNSTABLE builds are updated.         *)
EndedStaysEnded ==
  [][\A b \in Builds : st[b] \in EndStatus \cup {"STOPPED"} => st'[b] = st[b]]_vars

(* A build that reports to the API after the stop of its event was answered  *)
(* is not left running when its report is answered: either the status of the *)
(* event or the look at the other builds stops it, whatever other requests   *)
(* write in between - unless they overwrite the status of a build the stop   *)
(* has aborted, which is all the code keeps of the stop.                     *)
StopReachesReporters ==
  \A b \in Builds : pc[b] = "ready" /\ b \in late => st[b] \notin NonTerminated
=============================================================================
