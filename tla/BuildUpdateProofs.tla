-------------------------- MODULE BuildUpdateProofs --------------------------
(* Types, for every event; what holds as long as only launchers and the     *)
(* queue write to its builds, when nobody aborts a build or stops the       *)
(* event; and that a stop reaches the builds that report after it, whoever  *)
(* writes meanwhile.                                                        *)
EXTENDS BuildUpdate, TLAPS

LEMMA DeriveType == ASSUME NEW s PROVE Derive(s) \in EventStatus
BY DEF Derive, EventStatus

LEMMA ToStopType == ASSUME NEW s PROVE ToStop(s) \subseteq Builds
BY DEF ToStop

LEMMA SendersType == Builds \subseteq Senders /\ Senders # {}
BY EventAssumption DEF Senders

LEMMA AfterType ==
  ASSUME NEW s, NEW ph \in Phases
  PROVE  After(ph, s) \in Phases
BY DEF After, Phases

LEMMA InitType == Init => TypeOK
<1> SUFFICES ASSUME Init PROVE TypeOK
  OBVIOUS
<1>1. (CHOOSE b \in Builds : TRUE) \in Builds
  BY EventAssumption
<1>2. MaxFails \in Nat
  BY EventAssumption
<1>3. on \in [Senders -> Builds]
  BY <1>1 DEF Init
<1>4. st \in [Builds -> Status] /\ ev \in EventStatus /\ meta \subseteq Builds
  BY DEF Init, Status, NonTerminated, EventStatus
<1>5. phase \in [Senders -> Phases]
  BY DEF Init, Phases
<1>6. /\ pc \in [Senders -> Labels]
      /\ want \in [Senders -> Status] /\ mine \in [Senders -> Status]
      /\ copy \in [Senders -> EventStatus] /\ derived \in [Senders -> EventStatus]
  BY DEF Init, Labels, Status, EventStatus
<1>7. /\ merged \in [Senders -> SUBSET Builds]
      /\ due \in [Senders -> SUBSET (Builds \cup {"build", "event"})]
  BY DEF Init
<1>8. fails \in 0..MaxFails /\ late \subseteq Senders
  BY <1>2 DEF Init
<1>9. stopped \in BOOLEAN
  BY Zenon DEF Init
<1>10. QED
  BY <1>3, <1>4, <1>5, <1>6, <1>7, <1>8, <1>9 DEF TypeOK

(* Answering a request leaves its objects typed. *)
LEMMA AnsweredType ==
  ASSUME TypeOK, NEW p \in Senders, Answered(p)
  PROVE  /\ phase' \in [Senders -> Phases]
         /\ pc' = [pc EXCEPT ![p] = "ready"]
         /\ on' = on /\ want' \in [Senders -> Status] /\ mine' \in [Senders -> Status]
         /\ copy' \in [Senders -> EventStatus] /\ merged' \in [Senders -> SUBSET Builds]
         /\ due' \in [Senders -> SUBSET (Builds \cup {"build", "event"})]
         /\ derived' \in [Senders -> EventStatus]
<1>1. After(phase[p], want[p]) \in Phases
  BY AfterType DEF TypeOK
<1>2. QED
  BY <1>1 DEF Answered, TypeOK, Status, EventStatus

(* Each action, with the rows and objects it writes; the others are unchanged. *)
LEMMA ReceiveType ==
  ASSUME TypeOK, NEW p \in Senders, NEW b \in Builds, NEW s \in Status,
         Receive(p, b, s)
  PROVE  TypeOK'
<1>1. on' \in [Senders -> Builds] /\ want' \in [Senders -> Status]
  BY DEF Receive, TypeOK
<1>2. After(phase[p], s) \in Phases
  BY AfterType DEF TypeOK
<1>3. /\ pc' \in [Senders -> Labels] /\ mine' \in [Senders -> Status]
      /\ phase' \in [Senders -> Phases]
  <2>1. CASE Accepts(p, b, s)
    BY <2>1 DEF Receive, TypeOK, Labels
  <2>2. CASE ~Accepts(p, b, s)
    BY <1>2, <2>2 DEF Receive, TypeOK
  <2>3. QED
    BY <2>1, <2>2
<1>4. late' \subseteq Senders
  BY DEF Receive, TypeOK
<1>5. /\ st' = st /\ ev' = ev /\ meta' = meta /\ copy' = copy /\ merged' = merged
      /\ due' = due /\ derived' = derived /\ fails' = fails /\ stopped' = stopped
  BY DEF Receive, rows
<1>6. QED
  BY <1>1, <1>3, <1>4, <1>5 DEF TypeOK

LEMMA LoadType ==
  ASSUME TypeOK, NEW p \in Senders, Load(p)
  PROVE  TypeOK'
<1>1. /\ st' = st /\ ev' = ev /\ meta' = meta /\ fails' = fails /\ stopped' = stopped
  BY DEF Load, rows
<1>2. CASE want[p] = "BLOCKED" /\ mine[p] = "BLOCKED"
  <2>1. Answered(p) /\ late' = late \ {p}
    BY <1>2 DEF Load
  <2>2. pc' \in [Senders -> Labels]
    BY <2>1, AnsweredType DEF TypeOK, Labels
  <2>3. QED
    BY <1>1, <2>1, <2>2, AnsweredType DEF TypeOK
<1>3. CASE ~(want[p] = "BLOCKED" /\ mine[p] = "BLOCKED")
  <2>1. /\ copy' = [copy EXCEPT ![p] = ev]
        /\ pc' = [pc EXCEPT ![p] = IF ev = "ABORTED" THEN "aborted?" ELSE "set"]
        /\ UNCHANGED <<phase, on, want, mine, merged, due, derived, late>>
    BY <1>3 DEF Load
  <2>2. copy' \in [Senders -> EventStatus] /\ pc' \in [Senders -> Labels]
    BY <2>1 DEF TypeOK, Labels
  <2>3. QED
    BY <1>1, <2>1, <2>2 DEF TypeOK
<1>4. QED
  BY <1>2, <1>3

LEMMA AbortCheckType ==
  ASSUME TypeOK, NEW p \in Senders, AbortCheck(p)
  PROVE  TypeOK'
<1>1. mine' \in [Senders -> Status] /\ pc' \in [Senders -> Labels]
  BY DEF AbortCheck, TypeOK, Labels, Status
<1>2. QED
  BY <1>1 DEF AbortCheck, TypeOK, rows, history

LEMMA SetStatusType ==
  ASSUME TypeOK, NEW p \in Senders, SetStatus(p)
  PROVE  TypeOK'
<1> DEFINE set == IF mine[p] = "STOPPED" THEN "STOPPED"
                  ELSE UpdateStatus(mine[p], want[p])
<1>1. set \in Status
  BY DEF UpdateStatus, TypeOK, Status
<1>2. mine' \in [Senders -> Status]
  BY <1>1 DEF SetStatus, TypeOK
<1>3. pc' \in [Senders -> Labels]
  BY DEF SetStatus, TypeOK, Labels
<1>4. due' \in [Senders -> SUBSET (Builds \cup {"build", "event"})]
  BY DEF SetStatus, TypeOK
<1>5. merged' \in [Senders -> SUBSET Builds]
  BY DEF SetStatus, TypeOK
<1>6. QED
  BY <1>2, <1>3, <1>4, <1>5 DEF SetStatus, TypeOK, rows, history

LEMMA WriteType ==
  ASSUME TypeOK, NEW p \in Senders, WriteBuild(p) \/ WriteEvent(p)
  PROVE  TypeOK'
<1>1. due' \in [Senders -> SUBSET (Builds \cup {"build", "event"})]
  BY DEF WriteBuild, WriteEvent, TypeOK
<1>2. CASE WriteBuild(p)
  <2>1. st' \in [Builds -> Status] /\ late' \subseteq Senders
    BY <1>2 DEF WriteBuild, TypeOK
  <2>2. QED
    BY <1>1, <1>2, <2>1 DEF WriteBuild, TypeOK, object
<1>3. CASE WriteEvent(p)
  <2>1. meta' \subseteq Builds
    BY <1>3 DEF WriteEvent, TypeOK
  <2>2. QED
    BY <1>1, <1>3, <2>1 DEF WriteEvent, TypeOK, object, history
<1>4. QED
  BY <1>2, <1>3

LEMMA TriggerType ==
  ASSUME TypeOK, NEW p \in Senders, Written(p) \/ Trigger(p) \/ Triggered(p)
  PROVE  TypeOK'
<1>1. on[p] \in Builds /\ Down[on[p]] \subseteq Builds
  BY EventAssumption DEF TypeOK
<1>2. due' \in [Senders -> SUBSET (Builds \cup {"build", "event"})]
  BY <1>1 DEF Written, Trigger, Triggered, TypeOK
<1>3. pc' \in [Senders -> Labels]
  BY DEF Written, Trigger, Triggered, TypeOK, Labels
<1>4. st' \in [Builds -> Status]
  BY DEF Written, Trigger, Triggered, TypeOK, rows, Status, NonTerminated
<1>5. UNCHANGED <<ev, meta, phase, on, want, mine, copy, merged, derived, fails, stopped, late>>
  BY DEF Written, Trigger, Triggered, rows, object, history
<1>6. QED
  BY <1>2, <1>3, <1>4, <1>5 DEF TypeOK

LEMMA ReadType ==
  ASSUME TypeOK, NEW p \in Senders, Latest(p) \/ StopRead(p)
  PROVE  TypeOK'
<1>1. due' \in [Senders -> SUBSET (Builds \cup {"build", "event"})]
  BY ToStopType DEF Latest, StopRead, TypeOK
<1>2. derived' \in [Senders -> EventStatus]
  BY DeriveType DEF Latest, StopRead, TypeOK
<1>3. pc' \in [Senders -> Labels]
  BY DEF Latest, StopRead, TypeOK, Labels
<1>4. UNCHANGED <<st, ev, meta, phase, on, want, mine, copy, merged, fails, stopped, late>>
  BY DEF Latest, StopRead, rows, object, history
<1>5. QED
  BY <1>1, <1>2, <1>3, <1>4 DEF TypeOK

LEMMA StopType ==
  ASSUME TypeOK, NEW p \in Senders, StopEvent(p) \/ Sweep(p)
  PROVE  TypeOK'
<1>1. CASE StopEvent(p)
  <2>1. copy' \in [Senders -> EventStatus] /\ pc' \in [Senders -> Labels]
    BY <1>1 DEF StopEvent, TypeOK, Labels
  <2>2. QED
    BY <1>1, <2>1 DEF StopEvent, TypeOK, rows, history
<1>2. CASE Sweep(p)
  <2>1. due' \in [Senders -> SUBSET (Builds \cup {"build", "event"})]
    BY <1>2 DEF Sweep, TypeOK
  <2>2. st' \in [Builds -> Status]
    BY <1>2 DEF Sweep, TypeOK, Status
  <2>3. QED
    BY <1>2, <2>1, <2>2 DEF Sweep, TypeOK, object, history
<1>3. QED
  BY <1>1, <1>2

LEMMA SettleType ==
  ASSUME TypeOK, NEW p \in Senders, Settle(p)
  PROVE  TypeOK'
<1>1. Answered(p)
  BY DEF Settle
<1>2. pc' \in [Senders -> Labels]
  BY <1>1, AnsweredType DEF TypeOK, Labels
<1>3. ev' \in EventStatus /\ UNCHANGED <<st, meta, fails, late>>
  BY DEF Settle, TypeOK
<1>4. stopped' \in BOOLEAN
  BY Zenon DEF Settle
<1>5. QED
  BY <1>1, <1>2, <1>3, <1>4, AnsweredType DEF TypeOK

LEMMA FailType ==
  ASSUME TypeOK, NEW p \in Senders, Fail(p)
  PROVE  TypeOK'
<1>1. due' \in [Senders -> SUBSET (Builds \cup {"build", "event"})]
  BY DEF Fail, TypeOK
<1>2. pc' \in [Senders -> Labels] /\ late' \subseteq Senders
  BY DEF Fail, TypeOK, Labels
<1>3. fails' \in 0..MaxFails
  BY EventAssumption DEF Fail, TypeOK
<1>4. UNCHANGED <<st, ev, meta, phase, on, want, mine, copy, merged, derived, stopped>>
  BY DEF Fail, rows, object
<1>5. QED
  BY <1>1, <1>2, <1>3, <1>4 DEF TypeOK

LEMMA NextType == TypeOK /\ [Next]_vars => TypeOK'
<1> SUFFICES ASSUME TypeOK, [Next]_vars PROVE TypeOK'
  OBVIOUS
<1>1. CASE UNCHANGED vars
  BY <1>1 DEF vars, TypeOK
<1>2. ASSUME NEW p \in Senders, Step(p) PROVE TypeOK'
  BY <1>2, LoadType, AbortCheckType, SetStatusType, WriteType, TriggerType,
     ReadType, StopType, SettleType
  DEF Step
<1>3. ASSUME NEW p \in Senders, Send(p) PROVE TypeOK'
  BY <1>3, ReceiveType, StopType DEF Send
<1>4. ASSUME NEW p \in Senders, Fail(p) PROVE TypeOK'
  BY <1>4, FailType
<1>5. QED
  BY <1>1, <1>2, <1>3, <1>4 DEF Next

(* Every row and object of the updates of an event keeps its type: a verdict *)
(* on the event is always one of the statuses an event can have.             *)
THEOREM TypeCorrect == Spec => []TypeOK
BY InitType, NextType, PTL DEF Spec

-----------------------------------------------------------------------------
(* Without aborts: the invariant, and that no step breaks it. *)
OwnInv == NoAborts /\ OwnBuild /\ OwnObject /\ OwnDue

LEMMA LaunchersAreSenders == LaunchersOnly => Senders = Builds
BY DEF LaunchersOnly, Senders

LEMMA InitOwn == LaunchersOnly /\ Init => OwnInv /\ OnlySuccessTriggers
<1> SUFFICES ASSUME LaunchersOnly, Init PROVE OwnInv /\ OnlySuccessTriggers
  OBVIOUS
<1>1. OwnInv
  BY LaunchersAreSenders
  DEF Init, OwnInv, NoAborts, OwnBuild, OwnObject, OwnDue, Aborted
<1>2. OnlySuccessTriggers
  BY DEF Init, OnlySuccessTriggers
<1>3. QED
  BY <1>1, <1>2

(* A step that leaves the rows alone and changes only what is p's own. *)
Private(p) ==
  /\ st' = st
  /\ \A q \in Senders \ {p} : /\ pc'[q] = pc[q] /\ on'[q] = on[q] /\ want'[q] = want[q]
                              /\ mine'[q] = mine[q] /\ due'[q] = due[q]
                              /\ phase'[q] = phase[q]

LEMMA PrivateOwn ==
  ASSUME TypeOK, OwnInv, NEW p \in Senders, Private(p),
         mine'[p] \notin Aborted, phase'[p] \notin {"user", "stop"},
         pc'[p] # "ready" => on'[p] = p /\ st[p] # "NONE" /\ pc'[p] # "stopping",
         pc'[p] \in {"load", "aborted?", "set"} =>
           /\ st[p] = mine'[p] /\ st[p] \in Updatable
           /\ want'[p] \notin Aborted \cup {"NONE"},
         pc'[p] = "write" => /\ mine'[p] # "NONE"
                             /\ "build" \in due'[p] => st[p] \in Updatable
                             /\ "build" \notin due'[p] => st[p] = mine'[p],
         pc'[p] = "trigger" => st[p] = "SUCCESS" /\ due'[p] \subseteq Down[p],
         pc'[p] = "sweep" => due'[p] = {}
  PROVE  OwnInv'
<1>1. NoAborts'
  BY DEF OwnInv, NoAborts, Private
<1>2. OwnBuild'
  BY DEF OwnInv, OwnBuild, Private
<1>3. OwnObject'
  BY DEF OwnInv, OwnObject, Private
<1>4. OwnDue'
  BY DEF OwnInv, OwnDue, Private
<1>5. QED
  BY <1>1, <1>2, <1>3, <1>4 DEF OwnInv

(* The object of an answered request is not looked at again. *)
LEMMA AnsweredOwn ==
  ASSUME TypeOK, OwnInv, NEW p \in Senders, Answered(p), st' = st
  PROVE  OwnInv'
<1>1. Private(p)
  BY DEF Answered, Private, TypeOK
<1>2. pc'[p] = "ready" /\ mine'[p] = "NONE"
  BY DEF Answered, TypeOK
<1>3. phase'[p] \notin {"user", "stop"}
  BY DEF Answered, After, TypeOK, OwnInv, NoAborts
<1>4. QED
  BY <1>1, <1>2, <1>3, PrivateOwn DEF Aborted

LEMMA ReceiveOwn ==
  ASSUME TypeOK, OwnInv, LaunchersOnly, NEW p \in Senders,
         NEW b \in Builds, NEW s \in Status, Receive(p, b, s)
  PROVE  OwnInv'
<1>1. Private(p)
  BY DEF Receive, Private, TypeOK, rows
<1>2. p \in Builds /\ b = p /\ st[p] # "NONE"
  BY LaunchersAreSenders DEF Receive, Targets
<1>3. s \notin Aborted \cup {"NONE"}
  BY DEF Receive, OwnInv, NoAborts, TypeOK, Phases, Sends, Aborted
<1>4. phase'[p] \notin {"user", "stop"}
  BY DEF Receive, After, TypeOK, OwnInv, NoAborts
<1>5. CASE Accepts(p, b, s)
  <2>1. /\ pc'[p] = "load" /\ mine'[p] = st[p] /\ on'[p] = p /\ want'[p] = s
        /\ st[p] \in Updatable
    BY <1>2, <1>5, LaunchersAreSenders DEF Receive, Accepts, TypeOK
  <2>2. QED
    BY <1>1, <1>2, <1>3, <1>4, <2>1, PrivateOwn
    DEF OwnInv, NoAborts
<1>6. CASE ~Accepts(p, b, s)
  <2>1. pc'[p] = "ready" /\ mine'[p] = mine[p]
    BY <1>6 DEF Receive, TypeOK
  <2>2. QED
    BY <1>1, <1>4, <2>1, PrivateOwn DEF OwnInv, NoAborts
<1>7. QED
  BY <1>5, <1>6

LEMMA LoadOwn ==
  ASSUME TypeOK, OwnInv, NEW p \in Senders, Load(p)
  PROVE  OwnInv'
<1>1. st' = st
  BY DEF Load, rows
<1>2. CASE Answered(p)
  BY <1>1, <1>2, AnsweredOwn
<1>3. CASE ~Answered(p)
  <2>1. /\ pc'[p] \in {"aborted?", "set"}
        /\ UNCHANGED <<phase, on, want, mine, due>>
        /\ \A q \in Senders \ {p} : pc'[q] = pc[q]
    BY <1>3 DEF Load, TypeOK
  <2>2. Private(p)
    BY <1>1, <2>1 DEF Private
  <2>3. pc[p] = "load"
    BY DEF Load
  <2>4. QED
    BY <2>1, <2>2, <2>3, PrivateOwn DEF OwnInv, NoAborts, OwnBuild, OwnObject
<1>4. QED
  BY <1>2, <1>3

LEMMA ObjectOwn ==
  ASSUME TypeOK, OwnInv, LaunchersOnly, NEW p \in Senders, AbortCheck(p) \/ SetStatus(p)
  PROVE  OwnInv'
<1>1. Private(p)
  BY DEF AbortCheck, SetStatus, Private, TypeOK, rows
<1>2. ~SomeStopped /\ mine[p] # "STOPPED"
  BY DEF SomeStopped, OwnInv, NoAborts, Aborted
<1>3. /\ on[p] = p /\ st[p] # "NONE" /\ st[p] = mine[p] /\ st[p] \in Updatable
      /\ want[p] \notin Aborted \cup {"NONE"}
      /\ on' = on /\ want' = want /\ phase' = phase
  BY DEF AbortCheck, SetStatus, OwnInv, OwnBuild, OwnObject
<1>4. CASE AbortCheck(p)
  <2>1. pc'[p] = "set" /\ mine'[p] = mine[p]
    BY <1>2, <1>4 DEF AbortCheck, TypeOK
  <2>2. QED
    BY <1>1, <1>3, <2>1, PrivateOwn DEF OwnInv, NoAborts
<1>5. CASE SetStatus(p)
  <2>1. pc'[p] = "write" /\ mine'[p] = UpdateStatus(mine[p], want[p])
    BY <1>2, <1>5 DEF SetStatus, TypeOK
  <2>2. "build" \in due'[p] <=> mine[p] # "UNSTABLE"
    BY <1>5 DEF SetStatus, TypeOK
  <2>3. mine'[p] \notin Aborted \cup {"NONE"}
    BY <1>3, <2>1 DEF UpdateStatus, Updatable, Aborted
  <2>4. mine[p] = "UNSTABLE" => mine'[p] = st[p]
    BY <1>3, <2>1 DEF UpdateStatus
  <2>5. QED
    BY <1>1, <1>3, <2>1, <2>2, <2>3, <2>4, PrivateOwn DEF OwnInv, NoAborts
<1>6. QED
  BY <1>4, <1>5

(* The only step that overwrites a status: that of the sender's own build,   *)
(* which has not ended.                                                      *)
LEMMA WriteBuildOwn ==
  ASSUME TypeOK, OwnInv, LaunchersOnly, NEW p \in Senders, WriteBuild(p)
  PROVE  /\ OwnInv'
         /\ st' = [st EXCEPT ![p] = mine[p]]
         /\ st[p] \in Updatable
<1>1. /\ on[p] = p /\ pc[p] = "write" /\ st[p] \in Updatable
      /\ mine[p] \notin Aborted \cup {"NONE"}
  BY DEF WriteBuild, OwnInv, OwnBuild, OwnObject, NoAborts
<1>2. st' = [st EXCEPT ![p] = mine[p]]
  BY <1>1 DEF WriteBuild
<1>3. /\ st'[p] = mine[p] /\ \A q \in Builds \ {p} : st'[q] = st[q]
      /\ due'[p] = due[p] \ {"build"} /\ \A q \in Senders \ {p} : due'[q] = due[q]
      /\ UNCHANGED <<phase, pc, on, want, mine>>
  BY <1>2, LaunchersAreSenders DEF WriteBuild, TypeOK, object
<1>4. NoAborts'
  BY <1>1, <1>3 DEF OwnInv, NoAborts
<1>5. OwnBuild'
  BY <1>1, <1>3, LaunchersAreSenders DEF OwnInv, OwnBuild
<1>6. OwnObject'
  BY <1>1, <1>3, LaunchersAreSenders DEF OwnInv, OwnObject
<1>7. OwnDue'
  BY <1>1, <1>3, LaunchersAreSenders DEF OwnInv, OwnDue
<1>8. QED
  BY <1>1, <1>2, <1>4, <1>5, <1>6, <1>7 DEF OwnInv

LEMMA WriteEventOwn ==
  ASSUME TypeOK, OwnInv, NEW p \in Senders, WriteEvent(p) \/ Written(p) \/ Triggered(p) \/ Latest(p)
  PROVE  OwnInv' /\ st' = st
<1>1. Private(p) /\ st' = st /\ UNCHANGED <<phase, on, want, mine>>
  BY DEF WriteEvent, Written, Triggered, Latest, Private, TypeOK, rows, object
<1>2. pc[p] # "ready"
  BY DEF WriteEvent, Written, Triggered, Latest
<1>3. on[p] = p /\ st[p] # "NONE" /\ mine[p] \notin Aborted /\ phase[p] \notin {"user", "stop"}
  BY <1>2 DEF OwnInv, OwnBuild, NoAborts
<1>4. CASE WriteEvent(p)
  <2>1. /\ pc[p] = "write" /\ pc'[p] = "write"
        /\ "build" \in due'[p] <=> "build" \in due[p]
    BY <1>4 DEF WriteEvent, TypeOK
  <2>2. QED
    BY <1>1, <1>3, <2>1, PrivateOwn DEF OwnInv, OwnObject
<1>5. CASE Written(p)
  <2>1. st[p] = mine[p]
    BY <1>5 DEF Written, OwnInv, OwnObject
  <2>2. \/ mine[p] = "SUCCESS" /\ pc'[p] = "trigger" /\ due'[p] = Down[on[p]]
        \/ pc'[p] = "latest"
    BY <1>5 DEF Written, TypeOK
  <2>3. QED
    BY <1>1, <1>3, <2>1, <2>2, PrivateOwn
<1>6. CASE Triggered(p)
  <2>1. pc'[p] = "latest"
    BY <1>6 DEF Triggered, TypeOK
  <2>2. QED
    BY <1>1, <1>3, <2>1, PrivateOwn
<1>7. CASE Latest(p)
  <2>1. ~SomeStopped
    BY DEF SomeStopped, OwnInv, NoAborts, Aborted
  <2>2. pc'[p] = "sweep" /\ due'[p] = {}
    BY <1>7, <2>1 DEF Latest, TypeOK
  <2>3. QED
    BY <1>1, <1>3, <2>2, PrivateOwn
<1>8. QED
  BY <1>1, <1>4, <1>5, <1>6, <1>7

(* A build downstream is started only if it does not exist yet, and then it  *)
(* has no request of its own.                                                *)
LEMMA TriggerOwn ==
  ASSUME TypeOK, OwnInv, LaunchersOnly, NEW p \in Senders, Trigger(p)
  PROVE  /\ OwnInv'
         /\ st[p] = "SUCCESS"
         /\ \A b \in Builds : st[b] # "NONE" => st'[b] = st[b]
         /\ \A b \in Builds : st'[b] # "NONE" => st[b] # "NONE" \/ b \in Down[p]
<1>1. on[p] = p /\ st[p] = "SUCCESS" /\ due[p] \subseteq Down[p]
  BY DEF Trigger, OwnInv, OwnBuild, OwnDue
<1>2. /\ \A b \in Builds : st[b] # "NONE" => st'[b] = st[b]
      /\ \A b \in Builds : st'[b] = st[b] \/ (st'[b] = "QUEUED" /\ b \in due[p])
      /\ UNCHANGED <<phase, pc, on, want, mine>>
      /\ due'[p] \subseteq due[p] /\ \A q \in Senders \ {p} : due'[q] = due[q]
      /\ pc[p] = "trigger"
  <2>1. PICK d \in due[p] : /\ st'  = [st EXCEPT ![d] = IF @ = "NONE" THEN "QUEUED" ELSE @]
                            /\ due' = [due EXCEPT ![p] = @ \ {d}]
    BY DEF Trigger
  <2>2. /\ \A b \in Builds : st[b] # "NONE" => st'[b] = st[b]
        /\ \A b \in Builds : st'[b] = st[b] \/ (st'[b] = "QUEUED" /\ b \in due[p])
    BY <2>1 DEF TypeOK
  <2>3. due'[p] \subseteq due[p] /\ \A q \in Senders \ {p} : due'[q] = due[q]
    BY <2>1 DEF TypeOK
  <2>4. QED
    BY <2>2, <2>3 DEF Trigger, object
<1>3. NoAborts'
  BY <1>2 DEF OwnInv, NoAborts, Aborted
<1>4. OwnBuild'
  BY <1>2, LaunchersAreSenders DEF OwnInv, OwnBuild
<1>5. OwnObject'
  BY <1>2, LaunchersAreSenders DEF OwnInv, OwnObject, OwnBuild
<1>6. OwnDue'
  BY <1>1, <1>2, LaunchersAreSenders DEF OwnInv, OwnDue
<1>7. QED
  BY <1>1, <1>2, <1>3, <1>4, <1>5, <1>6 DEF OwnInv

LEMMA EndOwn ==
  ASSUME TypeOK, OwnInv, NEW p \in Senders, Settle(p) \/ Fail(p)
  PROVE  OwnInv' /\ st' = st
<1>1. CASE Settle(p)
  BY <1>1, AnsweredOwn DEF Settle
<1>2. CASE Fail(p)
  <2>1. Private(p) /\ st' = st /\ mine' = mine /\ phase' = phase /\ pc'[p] = "ready"
    BY <1>2 DEF Fail, Private, TypeOK, rows, object
  <2>2. QED
    BY <2>1, PrivateOwn DEF OwnInv, NoAborts
<1>3. QED
  BY <1>1, <1>2

(* Nobody stops the event, and no request finds a build to stop. *)
LEMMA NoStop ==
  ASSUME OwnInv, LaunchersOnly, NEW p \in Senders
  PROVE  ~StopEvent(p) /\ ~StopRead(p) /\ ~Sweep(p)
BY DEF LaunchersOnly, OwnInv, OwnBuild, OwnDue, StopEvent, StopRead, Sweep

(* What a step does to the builds table. *)
RowsStep(p) ==
  \/ st' = st
  \/ p \in Builds /\ st' = [st EXCEPT ![p] = mine[p]] /\ st[p] \in Updatable
  \/ /\ p \in Builds /\ st[p] = "SUCCESS"
     /\ \A b \in Builds : st[b] # "NONE" => st'[b] = st[b]
     /\ \A b \in Builds : st'[b] # "NONE" => st[b] # "NONE" \/ b \in Down[p]

LEMMA NextOwn ==
  ASSUME TypeOK, OwnInv, LaunchersOnly, Next
  PROVE  OwnInv' /\ \E p \in Senders : RowsStep(p)
<1>1. ASSUME NEW p \in Senders, Step(p) PROVE OwnInv' /\ RowsStep(p)
  <2>1. CASE Load(p) \/ AbortCheck(p) \/ SetStatus(p)
    <3>1. st' = st
      BY <2>1 DEF Load, AbortCheck, SetStatus, rows
    <3>2. QED
      BY <2>1, <3>1, LoadOwn, ObjectOwn DEF RowsStep
  <2>2. CASE WriteBuild(p)
    BY <2>2, WriteBuildOwn, LaunchersAreSenders DEF RowsStep
  <2>3. CASE WriteEvent(p) \/ Written(p) \/ Triggered(p) \/ Latest(p)
    BY <2>3, WriteEventOwn DEF RowsStep
  <2>4. CASE Trigger(p)
    BY <2>4, TriggerOwn, LaunchersAreSenders DEF RowsStep
  <2>5. CASE Settle(p)
    BY <2>5, EndOwn DEF RowsStep
  <2>6. QED
    BY <1>1, <2>1, <2>2, <2>3, <2>4, <2>5, NoStop DEF Step
<1>2. ASSUME NEW p \in Senders, Send(p) PROVE OwnInv' /\ RowsStep(p)
  <2>1. PICK b \in Builds, s \in Status : Receive(p, b, s)
    BY <1>2, NoStop DEF Send
  <2>2. st' = st
    BY <2>1 DEF Receive, rows
  <2>3. QED
    BY <2>1, <2>2, ReceiveOwn DEF RowsStep
<1>3. ASSUME NEW p \in Senders, Fail(p) PROVE OwnInv' /\ RowsStep(p)
  BY <1>3, EndOwn DEF RowsStep
<1>4. QED
  BY <1>1, <1>2, <1>3 DEF Next

LEMMA NextTriggers ==
  ASSUME TypeOK, OnlySuccessTriggers, NEW p \in Senders, RowsStep(p)
  PROVE  OnlySuccessTriggers'
<1> SUFFICES ASSUME NEW d \in Builds \ Roots, st'[d] # "NONE"
             PROVE  \E b \in Builds : d \in Down[b] /\ st'[b] = "SUCCESS"
  BY DEF OnlySuccessTriggers
<1>1. \A b \in Builds : st[b] = "SUCCESS" => st'[b] = "SUCCESS"
  BY DEF RowsStep, Updatable, TypeOK
<1>2. CASE st[d] # "NONE"
  BY <1>1, <1>2 DEF OnlySuccessTriggers
<1>3. CASE st[d] = "NONE"
  <2>1. st' # st /\ (p = d => st[p] \notin Updatable)
    BY <1>3 DEF Updatable
  <2>2. ~(st' = [st EXCEPT ![p] = mine[p]] /\ st[p] \in Updatable)
    BY <1>3, <2>1 DEF TypeOK
  <2>3. p \in Builds /\ st[p] = "SUCCESS" /\ d \in Down[p]
    BY <1>3, <2>1, <2>2 DEF RowsStep
  <2>4. QED
    BY <1>1, <2>3
<1>4. QED
  BY <1>2, <1>3

LEMMA NextEnded ==
  ASSUME TypeOK, NEW p \in Senders, RowsStep(p)
  PROVE  \A b \in Builds : st[b] \in EndStatus \cup {"STOPPED"} => st'[b] = st[b]
BY DEF RowsStep, TypeOK, EndStatus, Updatable

(* As long as only launchers and the queue report on the builds of an event, *)
(* a build downstream is started only by one that is SUCCESS and stays so -  *)
(* for every graph, with requests that die anywhere and are repeated         *)
(* (updateBuildAndTriggerDownstreamJobs).                                    *)
THEOREM SuccessOnly == Spec => [](LaunchersOnly => OnlySuccessTriggers)
<1> DEFINE Inv == TypeOK /\ (LaunchersOnly => OwnInv /\ OnlySuccessTriggers)
<1>1. Init => Inv
  BY InitType, InitOwn
<1>2. Inv /\ [Next]_vars => Inv'
  <2> SUFFICES ASSUME Inv, [Next]_vars PROVE Inv'
    OBVIOUS
  <2>1. LaunchersOnly' <=> LaunchersOnly
    BY DEF LaunchersOnly
  <2>2. CASE UNCHANGED vars
    BY <2>1, <2>2, NextType
    DEF vars, OwnInv, NoAborts, OwnBuild, OwnObject, OwnDue, OnlySuccessTriggers
  <2>3. CASE Next
    BY <2>1, <2>3, NextType, NextOwn, NextTriggers
  <2>4. QED
    BY <2>2, <2>3
<1>3. Inv => (LaunchersOnly => OnlySuccessTriggers)
  OBVIOUS
<1>4. QED
  BY <1>1, <1>2, <1>3, PTL DEF Spec

(* And then the status of a build that has ended is final: the check of      *)
(* getBuildToUpdate is enough, although it is made long before the write.    *)
THEOREM EndedFinal == ASSUME LaunchersOnly PROVE Spec => EndedStaysEnded
<1> DEFINE Inv == TypeOK /\ OwnInv
<1>1. Init => Inv
  BY InitType, InitOwn
<1>2. Inv /\ [Next]_vars => Inv'
  <2> SUFFICES ASSUME Inv, [Next]_vars PROVE Inv'
    OBVIOUS
  <2>1. CASE UNCHANGED vars
    BY <2>1, NextType DEF vars, OwnInv, NoAborts, OwnBuild, OwnObject, OwnDue
  <2>2. CASE Next
    BY <2>2, NextType, NextOwn
  <2>3. QED
    BY <2>1, <2>2
<1>3. Inv /\ [Next]_vars =>
        [\A b \in Builds : st[b] \in EndStatus \cup {"STOPPED"} => st'[b] = st[b]]_vars
  BY NextOwn, NextEnded
<1>4. QED
  BY <1>1, <1>2, <1>3, PTL DEF Spec, EndedStaysEnded

-----------------------------------------------------------------------------
(* The stop of an event, with everybody sending.  What a request of a build,  *)
(* of a user and of a stop can be at: a build updates its own row, a user     *)
(* writes nothing but an abort, a stop has no build.                          *)
Role(p) ==
  /\ p \in Builds /\ pc[p] # "ready" =>
       on[p] = p /\ st[p] # "NONE" /\ pc[p] # "stopping"
  /\ p \in Users => phase[p] \in {"user", "gone"} /\ want[p] \in {"NONE", "ABORTED"}
  /\ p \in Stoppers => /\ phase[p] \in {"stop", "gone"} /\ want[p] = "NONE"
                       /\ pc[p] \in {"ready", "stopping", "sweep"}
  /\ pc[p] \in {"load", "aborted?", "set"} => mine[p] # "NONE" /\ want[p] # "NONE"
  /\ pc[p] = "write" => /\ mine[p] # "NONE"
                        /\ p \notin Builds /\ "build" \in due[p] => mine[p] \in Aborted

(* A build that reports after the stop: some build still tells that the event *)
(* was stopped, and the request does not end before the sweep has reached the *)
(* build.                                                                     *)
LateWell(b) ==
  b \in late =>
    /\ SomeStopped /\ st[b] # "NONE"
    /\ pc[b] = "ready" => st[b] \notin NonTerminated
    /\ pc[b] = "sweep" /\ st[b] \in NonTerminated => b \in due[b]

StopInv == (\A p \in Senders : Role(p)) /\ (\A b \in Builds : LateWell(b))

(* A step of p: the other requests are left alone, no build vanishes, nobody  *)
(* but a build itself revives it, and what tells of the stop is kept for as   *)
(* long as somebody relies on it.                                             *)
Keeps(p) ==
  /\ \A q \in Senders \ {p} : /\ pc'[q] = pc[q] /\ on'[q] = on[q] /\ want'[q] = want[q]
                              /\ mine'[q] = mine[q] /\ due'[q] = due[q]
                              /\ phase'[q] = phase[q]
  /\ \A b \in Builds : st[b] # "NONE" => st'[b] # "NONE"
  /\ \A b \in Builds \ {p} : st[b] # "NONE" /\ st'[b] \in NonTerminated => st'[b] = st[b]
  /\ SomeStopped /\ late' # {} => SomeStopped'
  /\ late' \subseteq late \cup {p}

LEMMA KeepsOthers ==
  ASSUME StopInv, NEW p \in Senders, Keeps(p), Role(p)', p \in Builds => LateWell(p)'
  PROVE  StopInv'
<1>1. ASSUME NEW q \in Senders \ {p} PROVE Role(q)'
  <2>1. Role(q)
    BY DEF StopInv
  <2>2. /\ pc'[q] = pc[q] /\ on'[q] = on[q] /\ want'[q] = want[q]
        /\ mine'[q] = mine[q] /\ due'[q] = due[q] /\ phase'[q] = phase[q]
        /\ q \in Builds /\ st[q] # "NONE" => st'[q] # "NONE"
    BY DEF Keeps
  <2>3. QED
    BY <2>1, <2>2 DEF Role
<1>2. ASSUME NEW b \in Builds \ {p} PROVE LateWell(b)'
  <2>1. b \in Senders /\ LateWell(b)
    BY SendersType DEF StopInv
  <2>2. /\ pc'[b] = pc[b] /\ due'[b] = due[b]
        /\ b \in late' => b \in late
        /\ st[b] # "NONE" => st'[b] # "NONE"
        /\ st[b] # "NONE" /\ st'[b] \in NonTerminated => st'[b] = st[b]
        /\ SomeStopped /\ b \in late' => SomeStopped'
    BY <2>1 DEF Keeps
  <2>3. QED
    BY <2>1, <2>2 DEF LateWell
<1>3. QED
  BY <1>1, <1>2 DEF StopInv

LEMMA InitStop == Init => StopInv
<1> SUFFICES ASSUME Init PROVE StopInv
  OBVIOUS
<1>1. ASSUME NEW p \in Senders PROVE Role(p)
  BY EventAssumption DEF Init, Role
<1>2. QED
  BY <1>1 DEF Init, StopInv, LateWell

LEMMA AnsweredStop ==
  ASSUME TypeOK, StopInv, NEW p \in Senders, Answered(p), st' = st,
         late' \subseteq late, p \in late' /\ p \in Builds => st[p] \notin NonTerminated
  PROVE  StopInv'
<1>1. SomeStopped' <=> SomeStopped
  BY DEF SomeStopped
<1>2. Keeps(p)
  BY <1>1 DEF Keeps, Answered, TypeOK
<1>3. pc'[p] = "ready" /\ want'[p] = "NONE" /\ phase'[p] = After(phase[p], want[p])
  BY DEF Answered, TypeOK
<1>4. Role(p)
  BY DEF StopInv
<1>5. p \in Users => phase'[p] \in {"user", "gone"}
  BY <1>3, <1>4 DEF Role, After
<1>6. p \in Stoppers => phase'[p] \in {"stop", "gone"}
  BY <1>3, <1>4 DEF Role, After
<1>7. Role(p)'
  BY <1>3, <1>5, <1>6 DEF Role
<1>8. p \in Builds => LateWell(p)'
  BY <1>1, <1>3 DEF StopInv, LateWell
<1>9. QED
  BY <1>2, <1>7, <1>8, KeepsOthers

LEMMA ReceiveStop ==
  ASSUME TypeOK, StopInv, NEW p \in Senders, NEW b \in Builds, NEW s \in Status,
         Receive(p, b, s)
  PROVE  StopInv'
<1>1. st' = st /\ due' = due
  BY DEF Receive, rows
<1>2. SomeStopped' <=> SomeStopped
  BY <1>1 DEF SomeStopped
<1>3. Role(p) /\ pc[p] = "ready" /\ s \in Sends[phase[p]] /\ b \in Targets(p)
  BY DEF StopInv, Receive
<1>4. s # "NONE" /\ st[b] # "NONE"
  BY <1>3 DEF Targets, Sends, TypeOK, Phases
<1>5. p \in Builds => b = p
  BY <1>3 DEF Targets
<1>6. p \in Users => s = "ABORTED"
  BY <1>3 DEF Role, Sends
<1>7. p \notin Stoppers
  BY <1>3 DEF Role, Sends
<1>8. on'[p] = b /\ want'[p] = s
  BY DEF Receive, TypeOK
<1>9. Keeps(p)
  BY <1>1, <1>2 DEF Keeps, Receive, TypeOK
<1>10. CASE Accepts(p, b, s)
  <2>1. pc'[p] = "load" /\ mine'[p] = st[b] /\ phase' = phase
    BY <1>10 DEF Receive, TypeOK
  <2>2. Role(p)'
    BY <1>1, <1>3, <1>4, <1>5, <1>6, <1>7, <1>8, <2>1 DEF Role
  <2>3. p \in late' => SomeStopped
    BY <1>10 DEF Receive, SomeStopped
  <2>4. p \in Builds => LateWell(p)'
    BY <1>1, <1>2, <1>4, <1>5, <2>1, <2>3 DEF LateWell
  <2>5. QED
    BY <1>9, <2>2, <2>4, KeepsOthers
<1>11. CASE ~Accepts(p, b, s)
  <2>1. pc'[p] = "ready" /\ phase'[p] = After(phase[p], s) /\ p \notin late'
    BY <1>3, <1>11 DEF Receive, TypeOK
  <2>2. p \in Users => phase'[p] = "gone"
    BY <1>6, <2>1 DEF After
  <2>3. Role(p)'
    BY <1>6, <1>7, <1>8, <2>1, <2>2 DEF Role
  <2>4. QED
    BY <1>9, <2>1, <2>3, KeepsOthers DEF LateWell
<1>12. QED
  BY <1>10, <1>11

LEMMA LoadStop ==
  ASSUME TypeOK, StopInv, NEW p \in Senders, Load(p)
  PROVE  StopInv'
<1>1. st' = st /\ pc[p] = "load"
  BY DEF Load, rows
<1>2. CASE want[p] = "BLOCKED" /\ mine[p] = "BLOCKED"
  BY <1>1, <1>2, AnsweredStop DEF Load
<1>3. CASE ~(want[p] = "BLOCKED" /\ mine[p] = "BLOCKED")
  <2>1. /\ pc'[p] \in {"aborted?", "set"}
        /\ UNCHANGED <<phase, on, want, mine, due, late>>
        /\ \A q \in Senders \ {p} : pc'[q] = pc[q]
    BY <1>3 DEF Load, TypeOK
  <2>2. SomeStopped' <=> SomeStopped
    BY <1>1 DEF SomeStopped
  <2>3. Keeps(p)
    BY <1>1, <2>1, <2>2 DEF Keeps
  <2>4. Role(p)'
    BY <1>1, <2>1 DEF StopInv, Role
  <2>5. p \in Builds => LateWell(p)'
    BY <1>1, <2>1, <2>2 DEF StopInv, LateWell
  <2>6. QED
    BY <2>3, <2>4, <2>5, KeepsOthers
<1>4. QED
  BY <1>2, <1>3

LEMMA AbortCheckStop ==
  ASSUME TypeOK, StopInv, NEW p \in Senders, AbortCheck(p)
  PROVE  StopInv'
<1>1. /\ st' = st /\ pc[p] = "aborted?" /\ pc'[p] = "set"
      /\ UNCHANGED <<phase, on, want, due, late>>
      /\ \A q \in Senders \ {p} : pc'[q] = pc[q] /\ mine'[q] = mine[q]
  BY DEF AbortCheck, TypeOK, rows, history
<1>2. mine'[p] \in {"STOPPED", mine[p]}
  BY DEF AbortCheck, TypeOK
<1>3. SomeStopped' <=> SomeStopped
  BY <1>1 DEF SomeStopped
<1>4. Keeps(p)
  BY <1>1, <1>3 DEF Keeps
<1>5. Role(p)'
  BY <1>1, <1>2 DEF StopInv, Role
<1>6. p \in Builds => LateWell(p)'
  BY <1>1, <1>3 DEF StopInv, LateWell
<1>7. QED
  BY <1>4, <1>5, <1>6, KeepsOthers

(* What a user writes is the abort, or the message of the stop. *)
LEMMA SetStatusStop ==
  ASSUME TypeOK, StopInv, NEW p \in Senders, SetStatus(p)
  PROVE  StopInv'
<1>1. /\ st' = st /\ pc[p] = "set" /\ pc'[p] = "write"
      /\ UNCHANGED <<phase, on, want, late>>
      /\ \A q \in Senders \ {p} : pc'[q] = pc[q] /\ mine'[q] = mine[q] /\ due'[q] = due[q]
  BY DEF SetStatus, TypeOK, rows, history
<1>2. mine'[p] = IF mine[p] = "STOPPED" THEN "STOPPED" ELSE UpdateStatus(mine[p], want[p])
  BY DEF SetStatus, TypeOK
<1>3. "build" \in due'[p] => mine[p] # "UNSTABLE"
  BY DEF SetStatus, TypeOK
<1>4. Role(p)
  BY DEF StopInv
<1>5. mine'[p] # "NONE"
  BY <1>1, <1>2, <1>4 DEF Role, UpdateStatus
<1>6. p \notin Builds /\ "build" \in due'[p] => mine'[p] \in Aborted
  <2> SUFFICES ASSUME p \notin Builds, "build" \in due'[p] PROVE mine'[p] \in Aborted
    OBVIOUS
  <2>1. p \in Users
    BY <1>1, <1>4 DEF Senders, Role
  <2>2. want[p] = "ABORTED"
    BY <1>1, <1>4, <2>1 DEF Role
  <2>3. QED
    BY <1>2, <1>3, <2>2 DEF UpdateStatus, Aborted
<1>7. SomeStopped' <=> SomeStopped
  BY <1>1 DEF SomeStopped
<1>8. Keeps(p)
  BY <1>1, <1>7 DEF Keeps
<1>9. Role(p)'
  BY <1>1, <1>4, <1>5, <1>6 DEF Role
<1>10. p \in Builds => LateWell(p)'
  BY <1>1, <1>7 DEF StopInv, LateWell
<1>11. QED
  BY <1>8, <1>9, <1>10, KeepsOthers

(* The write that could revive a build is the build's own; the one that could *)
(* make the stop forgotten empties late.                                      *)
LEMMA WriteBuildStop ==
  ASSUME TypeOK, StopInv, NEW p \in Senders, WriteBuild(p)
  PROVE  StopInv'
<1>1. /\ pc[p] = "write" /\ "build" \in due[p] /\ on[p] \in Builds
      /\ UNCHANGED <<phase, pc, on, want, mine>>
      /\ due'[p] = due[p] \ {"build"} /\ \A q \in Senders \ {p} : due'[q] = due[q]
      /\ st'[on[p]] = mine[p] /\ \A b \in Builds \ {on[p]} : st'[b] = st[b]
  BY DEF WriteBuild, TypeOK, object
<1>2. Role(p)
  BY DEF StopInv
<1>3. /\ mine[p] # "NONE" /\ (p \notin Builds => mine[p] \in Aborted)
      /\ p \in Builds => on[p] = p
  BY <1>1, <1>2 DEF Role
<1>4. late' \subseteq late /\ (late' # {} => ~(st[on[p]] = "STOPPED" /\ mine[p] # "STOPPED"))
  BY DEF WriteBuild
<1>5. SomeStopped /\ late' # {} => SomeStopped'
  BY <1>1, <1>4 DEF SomeStopped
<1>6. \A b \in Builds : st[b] # "NONE" => st'[b] # "NONE"
  BY <1>1, <1>3
<1>7. \A b \in Builds \ {p} : st'[b] \in NonTerminated => st'[b] = st[b]
  BY <1>1, <1>3 DEF Aborted, NonTerminated
<1>8. Keeps(p)
  BY <1>1, <1>4, <1>5, <1>6, <1>7 DEF Keeps
<1>9. Role(p)'
  BY <1>1, <1>2, <1>3, <1>6 DEF Role
<1>10. p \in Builds => LateWell(p)'
  BY <1>1, <1>3, <1>4, <1>5 DEF StopInv, LateWell
<1>11. QED
  BY <1>8, <1>9, <1>10, KeepsOthers

LEMMA WriteEventStop ==
  ASSUME TypeOK, StopInv, NEW p \in Senders, WriteEvent(p) \/ Written(p) \/ Triggered(p)
  PROVE  StopInv'
<1>1. /\ st' = st /\ UNCHANGED <<phase, on, want, mine, late>>
      /\ pc[p] \in {"write", "trigger"} /\ pc'[p] \in {"write", "trigger", "latest"}
      /\ \A q \in Senders \ {p} : pc'[q] = pc[q] /\ due'[q] = due[q]
      /\ pc'[p] = "write" => pc[p] = "write" /\ due'[p] \subseteq due[p]
  BY DEF WriteEvent, Written, Triggered, TypeOK, rows, object, history
<1>2. SomeStopped' <=> SomeStopped
  BY <1>1 DEF SomeStopped
<1>3. Keeps(p)
  BY <1>1, <1>2 DEF Keeps
<1>4. Role(p)
  BY DEF StopInv
<1>5. Role(p)'
  BY <1>1, <1>4 DEF Role
<1>6. p \in Builds => LateWell(p)'
  BY <1>1, <1>2 DEF StopInv, LateWell
<1>7. QED
  BY <1>3, <1>5, <1>6, KeepsOthers

(* A build is started only if there is none: what was stopped stays stopped. *)
LEMMA TriggerStop ==
  ASSUME TypeOK, StopInv, NEW p \in Senders, Trigger(p)
  PROVE  StopInv'
<1>1. PICK d \in due[p] : /\ st'  = [st EXCEPT ![d] = IF @ = "NONE" THEN "QUEUED" ELSE @]
                          /\ due' = [due EXCEPT ![p] = @ \ {d}]
  BY DEF Trigger
<1>2. \A b \in Builds : st[b] # "NONE" => st'[b] = st[b]
  BY <1>1 DEF TypeOK
<1>3. /\ pc[p] = "trigger" /\ UNCHANGED <<phase, pc, on, want, mine, late>>
      /\ \A q \in Senders \ {p} : due'[q] = due[q]
  BY <1>1 DEF Trigger, TypeOK, object, history
<1>4. SomeStopped => SomeStopped'
  BY <1>2 DEF SomeStopped
<1>5. Keeps(p)
  BY <1>2, <1>3, <1>4 DEF Keeps
<1>6. Role(p)'
  BY <1>2, <1>3 DEF StopInv, Role
<1>7. p \in Builds => LateWell(p)'
  BY <1>2, <1>3, <1>4 DEF StopInv, LateWell
<1>8. QED
  BY <1>5, <1>6, <1>7, KeepsOthers

(* The look at the other builds finds the reporting build among them. *)
LEMMA ReadStop ==
  ASSUME TypeOK, StopInv, NEW p \in Senders, Latest(p) \/ StopRead(p)
  PROVE  StopInv'
<1>1. /\ st' = st /\ UNCHANGED <<phase, on, want, mine, late>>
      /\ pc[p] \in {"latest", "stopping"} /\ pc'[p] = "sweep"
      /\ \A q \in Senders \ {p} : pc'[q] = pc[q] /\ due'[q] = due[q]
  BY DEF Latest, StopRead, TypeOK, rows, object, history
<1>2. SomeStopped => due'[p] = ToStop(st)
  BY DEF Latest, StopRead, TypeOK
<1>3. SomeStopped' <=> SomeStopped
  BY <1>1 DEF SomeStopped
<1>4. Keeps(p)
  BY <1>1, <1>3 DEF Keeps
<1>5. Role(p)
  BY DEF StopInv
<1>6. Role(p)'
  BY <1>1, <1>5 DEF Role
<1>7. p \in Builds => LateWell(p)'
  BY <1>1, <1>2, <1>3 DEF StopInv, LateWell, ToStop
<1>8. QED
  BY <1>4, <1>6, <1>7, KeepsOthers

LEMMA StopEventStop ==
  ASSUME TypeOK, StopInv, NEW p \in Senders, StopEvent(p)
  PROVE  StopInv'
<1>1. /\ st' = st /\ UNCHANGED <<phase, on, want, mine, due, late>>
      /\ p \in Stoppers /\ pc'[p] = "stopping"
      /\ \A q \in Senders \ {p} : pc'[q] = pc[q]
  BY DEF StopEvent, TypeOK, rows, history
<1>2. p \notin Builds /\ p \notin Users
  BY <1>1, EventAssumption
<1>3. SomeStopped' <=> SomeStopped
  BY <1>1 DEF SomeStopped
<1>4. Keeps(p)
  BY <1>1, <1>3 DEF Keeps
<1>5. Role(p)'
  BY <1>1, <1>2 DEF StopInv, Role
<1>6. QED
  BY <1>2, <1>4, <1>5, KeepsOthers

LEMMA SweepStop ==
  ASSUME TypeOK, StopInv, NEW p \in Senders, Sweep(p)
  PROVE  StopInv'
<1>1. PICK b \in due[p] : /\ st'  = [st EXCEPT ![b] = "STOPPED"]
                          /\ due' = [due EXCEPT ![p] = @ \ {b}]
  BY DEF Sweep
<1>2. /\ \A d \in Builds : st'[d] = IF d = b THEN "STOPPED" ELSE st[d]
      /\ due'[p] = due[p] \ {b} /\ \A q \in Senders \ {p} : due'[q] = due[q]
  BY <1>1 DEF TypeOK
<1>3. pc[p] = "sweep" /\ UNCHANGED <<phase, pc, on, want, mine, late>>
  BY DEF Sweep, object, history
<1>4. SomeStopped => SomeStopped'
  BY <1>2 DEF SomeStopped
<1>5. Keeps(p)
  BY <1>2, <1>3, <1>4 DEF Keeps, NonTerminated
<1>6. Role(p)'
  BY <1>2, <1>3 DEF StopInv, Role
<1>7. p \in Builds => LateWell(p)'
  BY <1>2, <1>3, <1>4 DEF StopInv, LateWell, NonTerminated
<1>8. QED
  BY <1>5, <1>6, <1>7, KeepsOthers

LEMMA EndStop ==
  ASSUME TypeOK, StopInv, NEW p \in Senders, Settle(p) \/ Fail(p)
  PROVE  StopInv'
<1>1. CASE Settle(p)
  <2>1. Answered(p) /\ st' = st /\ late' = late /\ pc[p] = "sweep" /\ due[p] = {}
    BY <1>1 DEF Settle
  <2>2. p \in late /\ p \in Builds => st[p] \notin NonTerminated
    BY <2>1 DEF StopInv, LateWell
  <2>3. QED
    BY <2>1, <2>2, AnsweredStop
<1>2. CASE Fail(p)
  <2>1. /\ st' = st /\ UNCHANGED <<phase, on, want, mine>> /\ late' = late \ {p}
        /\ pc'[p] = "ready" /\ \A q \in Senders \ {p} : pc'[q] = pc[q] /\ due'[q] = due[q]
    BY <1>2 DEF Fail, TypeOK, rows, object
  <2>2. SomeStopped' <=> SomeStopped
    BY <2>1 DEF SomeStopped
  <2>3. Keeps(p)
    BY <2>1, <2>2 DEF Keeps
  <2>4. Role(p)' /\ LateWell(p)'
    BY <2>1 DEF StopInv, Role, LateWell
  <2>5. QED
    BY <2>3, <2>4, KeepsOthers
<1>3. QED
  BY <1>1, <1>2

LEMMA NextStop == TypeOK /\ StopInv /\ [Next]_vars => StopInv'
<1> SUFFICES ASSUME TypeOK, StopInv, [Next]_vars PROVE StopInv'
  OBVIOUS
<1>1. CASE UNCHANGED vars
  BY <1>1 DEF vars, StopInv, Role, LateWell, SomeStopped
<1>2. ASSUME NEW p \in Senders, Step(p) PROVE StopInv'
  BY <1>2, LoadStop, AbortCheckStop, SetStatusStop, WriteBuildStop, WriteEventStop,
     TriggerStop, ReadStop, SweepStop, EndStop
  DEF Step
<1>3. ASSUME NEW p \in Senders, Send(p) PROVE StopInv'
  BY <1>3, ReceiveStop, StopEventStop DEF Send
<1>4. ASSUME NEW p \in Senders, Fail(p) PROVE StopInv'
  BY <1>4, EndStop
<1>5. QED
  BY <1>1, <1>2, <1>3, <1>4 DEF Next

(* A build that reports after the stop of its event was answered is not left *)
(* running by its report - for every event, with any number of users and     *)
(* stops, and requests that die anywhere: the sweep that ends the request    *)
(* covers the build, and only the build itself could have revived its row    *)
(* (updateBuildAndTriggerDownstreamJobs, PUT /events/{id}/stop).             *)
THEOREM StopReaches == Spec => []StopReachesReporters
<1> DEFINE Inv == TypeOK /\ StopInv
<1>1. Init => Inv
  BY InitType, InitStop
<1>2. Inv /\ [Next]_vars => Inv'
  BY NextType, NextStop
<1>3. Inv => StopReachesReporters
  BY DEF StopInv, LateWell, StopReachesReporters
<1>4. QED
  BY <1>1, <1>2, <1>3, PTL DEF Spec
=============================================================================
