--------------------------- MODULE ServicesProofs ---------------------------
(***************************************************************************)
(* What the requests of users, builds and administrators promise, for any  *)
(* number of them and any names, rows, versions and failures.              *)
(*   - Credentials.  RevokedStaysOut needs to be known besides that no two *)
(*     rows carry one value, that a value is never given twice, and that a *)
(*     login that has found its token had found a value still in force.    *)
(*   - Clusters.  OnlyStaleUndoes: a request whose copy is not old writes  *)
(*     back what it has read, which is what was said last.                 *)
(*   - Collections.  DefaultCollection rests on CollectionInv: what a      *)
(*     request has read of a user and of the owner and type of a           *)
(*     collection stays true, for nobody changes these.                    *)
(*   - Catalog.  CatalogSound rests on CatInv: what a request has read is  *)
(*     true but for what has changed since (Knows); the latest version is  *)
(*     the newest, and missing only while a request looks for it.          *)
(***************************************************************************)
EXTENDS Services, Sequences, WellFoundedInduction, TLAPS

-----------------------------------------------------------------------------
(* Tokens and secrets *)

Rows == [kind : Kinds, name : Names, attr : BOOLEAN, value : Nat]

Jobs == {Idle}
          \cup [pc : {"create"}, kind : Kinds, name : Names]
          \cup [pc : {"change"}, i : Ids, name : Names, seen : Rows]
          \cup [pc : {"replace", "remove"}, i : Ids]
          \cup [pc : {"owner"}, value : Nat, late : BOOLEAN]

Typed ==
    /\ row \in [Ids -> Rows \cup {Absent}]
    /\ req \in [Requests -> Jobs]
    /\ last \in Nat /\ revoked \subseteq 1 .. last

Given    == \A i \in Live : row[i].value \in 1 .. last
Distinct == \A i, j \in Live : row[i].value = row[j].value => i = j
InForce  == \A i \in Live : row[i].value \notin revoked
InTime   == \A r \in Requests : req[r].pc = "owner" => ~req[r].late
OnTime   == \A s \in session : ~s.late

IInv == Typed /\ Given /\ Distinct /\ InForce /\ InTime /\ OnTime

-----------------------------------------------------------------------------
\* A row is live exactly when it has the fields of one.
LEMMA LiveRow ==
    ASSUME Typed
    PROVE  \A i \in Ids : i \in Live <=> row[i] \in Rows
<1>1. \A x \in Rows : x # Absent
  BY DEF Rows, Absent, Kinds
<1> QED
  BY <1>1 DEF Typed, Live

LEMMA InitInv == Init => IInv
<1> SUFFICES ASSUME Init PROVE IInv
  OBVIOUS
<1>1. Live = {}
  BY DEF Init, Live
<1>2. Typed
  BY DEF Init, Typed, Jobs
<1>3. InTime
  BY DEF Init, InTime, Idle
<1> QED
  BY <1>1, <1>2, <1>3 DEF Init, IInv, Given, Distinct, InForce, OnTime

\* A request that only reads.
LEMMA Reads ==
    ASSUME IInv, NEW r \in Requests, NEW new \in Jobs, Go(r, new),
           new.pc = "owner" => ~new.late
    PROVE  IInv'
<1>1. row' = row /\ last' = last /\ revoked' = revoked /\ session' = session /\ Live' = Live
  BY DEF Go, Live
<1>2. req' \in [Requests -> Jobs]
  BY DEF IInv, Typed, Go
<1>3. \A q \in Requests : req'[q] = IF q = r THEN new ELSE req[q]
  BY DEF IInv, Typed, Go
<1>4. InTime'
  BY <1>3 DEF IInv, InTime
<1> QED
  BY <1>1, <1>2, <1>4 DEF IInv, Typed, Given, Distinct, InForce, OnTime

\* The answer of a request that has written.
LEMMA Answered ==
    ASSUME IInv, NEW r \in Requests, Answer(r)
    PROVE  req' \in [Requests -> Jobs] /\ InTime'
<1>1. Idle \in Jobs /\ Idle.pc # "owner"
  BY DEF Jobs, Idle
<1>2. \A q \in Requests : req'[q] = IF q = r THEN Idle ELSE req[q]
  BY DEF IInv, Typed, Answer
<1> QED
  BY <1>1, <1>2 DEF IInv, Typed, InTime, Answer

-----------------------------------------------------------------------------
\* What the writers leave in a row: one row gets a value that was never given,
\* and the value it had, if any, is revoked.
LEMMA NewValue ==
    ASSUME IInv, NEW i \in Ids, NEW new \in Rows,
           new.value = last + 1, last' = last + 1, session' = session,
           row' = [row EXCEPT ![i] = new],
           revoked' = IF i \in Live THEN revoked \cup {row[i].value} ELSE revoked,
           req' \in [Requests -> Jobs], InTime'
    PROVE  IInv'
<1>1. \A j \in Ids : row'[j] = IF j = i THEN new ELSE row[j]
  BY DEF IInv, Typed
<1>2. new # Absent
  BY DEF Rows, Absent, Kinds
<1>3. Live' = Live \cup {i}
  BY <1>1, <1>2 DEF Live
<1>4. \A j \in Live : row[j].value \in 1 .. last
  BY DEF IInv, Given
<1>5. last \in Nat /\ revoked \subseteq 1 .. last
  BY DEF IInv, Typed
<1>6. Typed'
  <2>1. row' \in [Ids -> Rows \cup {Absent}]
    BY DEF IInv, Typed
  <2>2. revoked' \subseteq 1 .. last'
    <3>1. 1 .. last \subseteq 1 .. last'
      BY <1>5
    <3>2. CASE i \in Live
      BY <3>1, <3>2, <1>4, <1>5
    <3>3. CASE i \notin Live
      BY <3>1, <3>3, <1>5
    <3> QED
      BY <3>2, <3>3
  <2> QED
    BY <2>1, <2>2, <1>5 DEF Typed
<1>7. Given'
  BY <1>1, <1>3, <1>4, <1>5 DEF Given
<1>8. Distinct'
  <2> SUFFICES ASSUME NEW j \in Live', NEW k \in Live', row'[j].value = row'[k].value
               PROVE  j = k
    BY DEF Distinct
  <2>1. \A l \in Live' : l \in Ids /\ (l # i => l \in Live /\ row'[l].value \in 1 .. last)
    BY <1>1, <1>3, <1>4 DEF Live
  <2>2. row'[i].value = last + 1
    BY <1>1
  <2>3. CASE j = i \/ k = i
    BY <2>1, <2>2, <2>3, <1>5
  <2>4. CASE j # i /\ k # i
    BY <2>1, <2>4, <1>1 DEF IInv, Distinct
  <2> QED
    BY <2>3, <2>4
<1>9. InForce'
  <2> SUFFICES ASSUME NEW j \in Live' PROVE row'[j].value \notin revoked'
    BY DEF InForce
  <2>1. CASE j = i
    BY <2>1, <1>1, <1>4, <1>5
  <2>2. CASE j # i
    <3>1. j \in Live /\ row'[j] = row[j]
      BY <2>2, <1>1, <1>3 DEF Live
    <3>2. row[j].value \notin revoked
      BY <3>1 DEF IInv, InForce
    <3>3. i \in Live => row[j].value # row[i].value
      BY <3>1, <2>2 DEF IInv, Distinct
    <3> QED
      BY <3>1, <3>2, <3>3
  <2> QED
    BY <2>1, <2>2
<1> QED
  BY <1>6, <1>7, <1>8, <1>9 DEF IInv, OnTime

\* Whatever else is written to a row, its value stays.
LEMMA SameValue ==
    ASSUME IInv, NEW i \in Live, NEW new \in Rows, new.value = row[i].value,
           row' = [row EXCEPT ![i] = new],
           UNCHANGED <<last, revoked, session>>,
           req' \in [Requests -> Jobs], InTime'
    PROVE  IInv'
<1>1. i \in Ids
  BY DEF Live
<1>2. \A j \in Ids : row'[j] = IF j = i THEN new ELSE row[j]
  BY <1>1 DEF IInv, Typed
<1>3. new # Absent
  BY DEF Rows, Absent, Kinds
<1>4. Live' = Live
  BY <1>1, <1>2, <1>3 DEF Live
<1>5. \A j \in Live : row'[j].value = row[j].value
  BY <1>2 DEF Live
<1>6. Typed'
  BY <1>1 DEF IInv, Typed
<1> QED
  BY <1>4, <1>5, <1>6 DEF IInv, Given, Distinct, InForce, OnTime

\* A row is removed, and its value revoked.
LEMMA Removal ==
    ASSUME IInv, NEW i \in Live,
           row' = [row EXCEPT ![i] = Absent],
           revoked' = revoked \cup {row[i].value},
           UNCHANGED <<last, session>>,
           req' \in [Requests -> Jobs], InTime'
    PROVE  IInv'
<1>1. \A j \in Ids : row'[j] = IF j = i THEN Absent ELSE row[j]
  BY DEF IInv, Typed
<1>2. Live' = Live \ {i} /\ \A j \in Live' : row'[j] = row[j]
  BY <1>1 DEF Live
<1>3. Typed'
  BY DEF IInv, Typed, Given
<1>4. InForce'
  BY <1>2 DEF IInv, InForce, Distinct
<1> QED
  BY <1>2, <1>3, <1>4 DEF IInv, Given, Distinct, OnTime

-----------------------------------------------------------------------------
\* Each step of a request keeps the invariant.
LEMMA HandleInv ==
    ASSUME IInv, NEW r \in Requests, Handle(r)
    PROVE  IInv'
<1>t. Typed
  BY DEF IInv
<1>l. \A i \in Ids : i \in Live <=> row[i] \in Rows
  BY <1>t, LiveRow
<1>q. req[r] \in Jobs
  BY <1>t DEF Typed
<1>1. ASSUME NEW kind \in Kinds, NEW n \in Names, Create(r, kind, n)
      PROVE  IInv'
  <2> DEFINE new == [pc |-> "create", kind |-> kind, name |-> n]
  <2>1. new \in Jobs /\ new.pc # "owner"
    BY DEF Jobs
  <2>2. Go(r, new)
    BY <1>1 DEF Create
  <2> QED
    BY <2>1, <2>2, Reads
<1>2. ASSUME NEW i \in Ids, NEW n \in Names, Change(r, i, n)
      PROVE  IInv'
  <2> DEFINE new == [pc |-> "change", i |-> i, name |-> n, seen |-> row[i]]
  <2>1. Go(r, new) /\ row[i] \in Rows
    BY <1>2, <1>l DEF Change
  <2>2. new \in Jobs /\ new.pc # "owner"
    BY <2>1 DEF Jobs
  <2> QED
    BY <2>1, <2>2, Reads
<1>3. ASSUME NEW i \in Ids, Replace(r, i)
      PROVE  IInv'
  <2> DEFINE new == [pc |-> "replace", i |-> i]
  <2>1. new \in Jobs /\ new.pc # "owner"
    BY DEF Jobs
  <2>2. Go(r, new)
    BY <1>3 DEF Replace
  <2> QED
    BY <2>1, <2>2, Reads
<1>4. ASSUME NEW i \in Ids, RemoveToken(r, i) \/ RemoveSecret(r, i)
      PROVE  IInv'
  <2> DEFINE new == [pc |-> "remove", i |-> i]
  <2>1. new \in Jobs /\ new.pc # "owner"
    BY DEF Jobs
  <2>2. Go(r, new)
    BY <1>4 DEF RemoveToken, RemoveSecret
  <2> QED
    BY <2>1, <2>2, Reads
<1>5. ASSUME NEW v \in 1 .. last, FindToken(r, v)
      PROVE  IInv'
  <2> DEFINE new == [pc |-> "owner", value |-> v, late |-> FALSE]
  <2>1. PICK i \in Live : row[i].value = v
    BY <1>5 DEF FindToken, Bearer
  <2>2. (v \in revoked) = FALSE
    BY <2>1 DEF IInv, InForce
  <2>3. v \in Nat
    BY <1>t DEF Typed
  <2>4. new \in Jobs /\ ~new.late
    BY <2>3 DEF Jobs
  <2>5. Go(r, new)
    BY <1>5, <2>2 DEF FindToken
  <2> QED
    BY <2>4, <2>5, Reads
<1>6. CASE WriteNew(r)
  <2>1. req[r].kind \in Kinds /\ req[r].name \in Names
    BY <1>6, <1>q DEF WriteNew, Jobs, Idle
  <2>2. PICK i \in Ids \ Live :
          row' = [row EXCEPT ![i] = [kind |-> req[r].kind, name |-> req[r].name,
                                     attr |-> FALSE, value |-> last + 1]]
    BY <1>6 DEF WriteNew
  <2>3. [kind |-> req[r].kind, name |-> req[r].name, attr |-> FALSE, value |-> last + 1] \in Rows
    BY <2>1, <1>t DEF Rows, Typed
  <2>4. req' \in [Requests -> Jobs] /\ InTime'
    BY <1>6, Answered DEF WriteNew
  <2>5. last' = last + 1 /\ revoked' = revoked /\ session' = session
    BY <1>6 DEF WriteNew
  <2> QED
    BY <2>2, <2>3, <2>4, <2>5, NewValue
<1>7. CASE WriteChange(r)
  <2> DEFINE i == req[r].i
  <2>1. req[r].name \in Names
    BY <1>7, <1>q DEF WriteChange, Jobs, Idle
  <2>2. req' \in [Requests -> Jobs] /\ InTime'
    BY <1>7, Answered DEF WriteChange
  <2>3. UNCHANGED <<last, revoked, session>>
    BY <1>7 DEF WriteChange
  <2>4. CASE i \in Live
    <3>1. row[i] \in Rows
      BY <2>4, <1>l DEF Live
    <3>2. Changed(r) \in Rows /\ Changed(r).value = row[i].value
      BY <3>1, <2>1 DEF Changed, Rows
    <3>3. row' = [row EXCEPT ![i] = Changed(r)]
      BY <1>7, <2>4 DEF WriteChange
    <3> QED
      BY <2>2, <2>3, <2>4, <3>2, <3>3, SameValue
  <2>5. CASE i \notin Live
    <3>1. row' = row /\ Live' = Live
      BY <1>7, <2>5 DEF WriteChange, Live
    <3> QED
      BY <3>1, <2>2, <2>3 DEF IInv, Typed, Given, Distinct, InForce, OnTime
  <2> QED
    BY <2>4, <2>5
<1>8. CASE WriteValue(r)
  <2> DEFINE i == req[r].i
             new == [row[i] EXCEPT !.value = last + 1]
  <2>1. req' \in [Requests -> Jobs] /\ InTime'
    BY <1>8, Answered DEF WriteValue
  <2>2. last' = last + 1 /\ session' = session
    BY <1>8 DEF WriteValue
  <2>3. CASE i \in Live
    <3>1. row[i] \in Rows /\ i \in Ids
      BY <2>3, <1>l DEF Live
    <3>2. new \in Rows /\ new.value = last + 1
      BY <3>1, <1>t DEF Rows, Typed
    <3>3. row' = [row EXCEPT ![i] = new] /\ revoked' = revoked \cup {row[i].value}
      BY <1>8, <2>3, <3>1 DEF WriteValue
    <3> QED
      BY <2>1, <2>2, <2>3, <3>1, <3>2, <3>3, NewValue
  <2>4. CASE i \notin Live
    <3>1. row' = row /\ Live' = Live /\ revoked' = revoked
      BY <1>8, <2>4 DEF WriteValue, Live
    <3>2. last \in Nat
      BY <1>t DEF Typed
    <3>3. Typed'
      BY <3>1, <3>2, <2>1, <2>2 DEF IInv, Typed
    <3>4. Given'
      BY <3>1, <3>2, <2>2 DEF IInv, Given
    <3> QED
      BY <3>1, <3>3, <3>4, <2>1, <2>2 DEF IInv, Distinct, InForce, OnTime
  <2> QED
    BY <2>3, <2>4
<1>9. CASE WriteRemoval(r)
  <2> DEFINE i == req[r].i
  <2>1. req' \in [Requests -> Jobs] /\ InTime'
    BY <1>9, Answered DEF WriteRemoval
  <2>2. UNCHANGED <<last, session>>
    BY <1>9 DEF WriteRemoval
  <2>3. row' = [row EXCEPT ![i] = Absent]
    BY <1>9 DEF WriteRemoval
  <2>4. CASE i \in Live
    <3>1. revoked' = revoked \cup {row[i].value}
      BY <1>9, <2>4 DEF WriteRemoval
    <3> QED
      BY <2>1, <2>2, <2>3, <2>4, <3>1, Removal
  <2>5. CASE i \notin Live
    <3>1. revoked' = revoked
      BY <1>9, <2>5 DEF WriteRemoval
    <3>2. \A j \in Ids : row'[j] = row[j]
      BY <2>3, <2>5, <1>t DEF Live, Typed
    <3>3. Live' = Live /\ \A j \in Live : row'[j] = row[j]
      BY <3>2 DEF Live
    <3>4. Typed'
      BY <2>1, <2>2, <2>3, <3>1, <1>t DEF Typed
    <3> QED
      BY <2>1, <2>2, <3>1, <3>3, <3>4 DEF IInv, Given, Distinct, InForce, OnTime
  <2> QED
    BY <2>4, <2>5
<1>10. CASE FindOwner(r)
  <2>1. req' \in [Requests -> Jobs] /\ InTime'
    BY <1>10, Answered DEF FindOwner
  <2>2. row' = row /\ last' = last /\ revoked' = revoked /\ Live' = Live
    BY <1>10 DEF FindOwner, Live
  <2>3. ~req[r].late
    BY <1>10 DEF FindOwner, IInv, InTime
  <2>4. \A s \in session' : s \in session \/ s.late = req[r].late
    BY <1>10 DEF FindOwner
  <2>5. OnTime'
    BY <2>3, <2>4 DEF IInv, OnTime
  <2> QED
    BY <2>1, <2>2, <2>5 DEF IInv, Typed, Given, Distinct, InForce
<1> QED
  BY <1>1, <1>2, <1>3, <1>4, <1>5, <1>6, <1>7, <1>8, <1>9, <1>10 DEF Handle

LEMMA NextInv == IInv /\ [Next]_vars => IInv'
<1> SUFFICES ASSUME IInv, [Next]_vars PROVE IInv'
  OBVIOUS
<1>1. ASSUME NEW r \in Requests, Handle(r) PROVE IInv'
  BY <1>1, HandleInv
<1>2. CASE DeletePipeline
  BY <1>2 DEF DeletePipeline, IInv, Typed, Given, Distinct, InForce, InTime, OnTime, Live
<1>3. CASE UNCHANGED vars
  BY <1>3 DEF vars, IInv, Typed, Given, Distinct, InForce, InTime, OnTime, Live
<1> QED
  BY <1>1, <1>2, <1>3 DEF Next

\* A value that was replaced or removed is carried by no row any more, and no
\* login that begins afterwards gets a session for it (tokens/update.js:48,
\* secrets/update.js:36, auth/index.js:192).
THEOREM RevokedOut == Spec => []RevokedStaysOut
<1>1. IInv => RevokedStaysOut
  BY DEF IInv, InForce, OnTime, RevokedStaysOut
<1> QED
  BY InitInv, NextInv, <1>1, PTL DEF Spec

-----------------------------------------------------------------------------
(* What administrators set *)

BadgeNames == {"sonar", "other"}
Attributes == {"config", "forced"} \cup BadgeNames

\* What a request has read of its column and knows no change of is what is there.
Copied(r) ==
    /\ treq[r].pc = "force" =>
         /\ DOMAIN treq[r] = {"pc", "seen", "to", "old"}
         /\ "config" \notin treq[r].old => treq[r].seen = job.config
    /\ treq[r].pc = "badges" =>
         /\ DOMAIN treq[r] = {"pc", "seen", "to", "inPlace", "old"}
         /\ DOMAIN treq[r].to \subseteq BadgeNames /\ DOMAIN treq[r].seen = BadgeNames
         /\ \A b \in BadgeNames \ treq[r].old : treq[r].seen[b] = pipeline.badges[b]

Columns ==
    /\ DOMAIN treq = Requests /\ DOMAIN word = Attributes
    /\ DOMAIN job = {"state", "changer", "config", "forced"}
    /\ DOMAIN pipeline = {"cluster", "annotated", "badges", "badged"}
    /\ DOMAIN pipeline.badges = BadgeNames

ColumnInv == Columns /\ OnlyStaleUndoes /\ \A r \in Requests : Copied(r)

\* A request that begins.
LEMMA ColumnStart ==
    ASSUME ColumnInv, NEW r \in Requests, NEW new, Clu!Start(r, new),
           new.pc = "force" => /\ DOMAIN new = {"pc", "seen", "to", "old"}
                               /\ new.seen = job.config,
           new.pc = "badges" => /\ DOMAIN new = {"pc", "seen", "to", "inPlace", "old"}
                                /\ DOMAIN new.to \subseteq BadgeNames
                                /\ new.seen = pipeline.badges
    PROVE  ColumnInv'
<1>1. UNCHANGED <<job, pipeline, word, undone>> /\ treq' = [treq EXCEPT ![r] = new]
  BY DEF Clu!Start, Clu!rows
<1>2. Columns' /\ OnlyStaleUndoes'
  BY <1>1 DEF ColumnInv, Columns, OnlyStaleUndoes, Clu!OnlyStaleUndoes, Clu!Now
<1>3. ASSUME NEW o \in Requests PROVE Copied(o)'
  <2>1. CASE o = r
    BY <1>1, <2>1 DEF ColumnInv, Columns, Copied
  <2>2. CASE o # r
    BY <1>1, <2>2 DEF ColumnInv, Columns, Copied
  <2> QED  BY <2>1, <2>2
<1> QED  BY <1>2, <1>3 DEF ColumnInv

\* A request that ends, without a write to either column.
LEMMA ColumnFinish ==
    ASSUME ColumnInv, NEW r \in Requests, NEW pc, Clu!Finish(r, pc), UNCHANGED <<word, undone>>,
           DOMAIN job' = DOMAIN job, DOMAIN pipeline' = DOMAIN pipeline,
           job'.config = job.config, job'.forced = job.forced, pipeline'.badges = pipeline.badges
    PROVE  ColumnInv'
<1>1. treq' = [treq EXCEPT ![r] = Clu!Idle] /\ Clu!Idle.pc = "idle"
  BY DEF Clu!Finish, Clu!Idle
<1>2. Columns' /\ OnlyStaleUndoes'
  BY <1>1 DEF ColumnInv, Columns, OnlyStaleUndoes, Clu!OnlyStaleUndoes, Clu!Now
<1>3. ASSUME NEW o \in Requests PROVE Copied(o)'
  BY <1>1 DEF ColumnInv, Columns, Copied
<1> QED  BY <1>2, <1>3 DEF ColumnInv

\* Ageing adds attributes to what may have changed and touches nothing else.
LEMMA AgedIs ==
    ASSUME NEW o \in Requests, NEW S, Copied(o)
    PROVE  /\ Clu!Aged(o, S).pc = treq[o].pc
           /\ treq[o].pc \in {"force", "badges"} =>
                /\ DOMAIN Clu!Aged(o, S) = DOMAIN treq[o]
                /\ Clu!Aged(o, S).old = treq[o].old \cup S
                /\ Clu!Aged(o, S).seen = treq[o].seen /\ Clu!Aged(o, S).to = treq[o].to
BY DEF Copied, Clu!Aged

\* A request ends and writes its column: then the others have aged by all that
\* differs, and what is not undone is what was set last.
LEMMA ColumnWrite ==
    ASSUME ColumnInv, NEW r \in Requests, NEW column, column \subseteq Attributes, NEW own,
           DOMAIN own \subseteq column, Clu!Overwrite(r, column, own), Columns',
           \A a \in DOMAIN own : Clu!Now'[a] = own[a],
           \A a \in Attributes \ DOMAIN own :
               a \notin column \cap treq[r].old => Clu!Now'[a] = Clu!Now[a]
    PROVE  ColumnInv'
<1> DEFINE again == (column \ DOMAIN own) \cap treq[r].old
<1>1. /\ word' = [a \in DOMAIN word |-> IF a \in DOMAIN own THEN own[a] ELSE word[a]]
      /\ undone' = (undone \cup again) \ DOMAIN own
      /\ treq' = [o \in Requests |-> IF o = r THEN Clu!Idle ELSE Clu!Aged(o, DOMAIN own \cup again)]
  BY DEF Clu!Overwrite
<1>2. OnlyStaleUndoes'
  <2>1. ASSUME NEW a \in DOMAIN word' \ undone' PROVE Clu!Now'[a] = word'[a]
    <3>1. a \in Attributes /\ word'[a] = IF a \in DOMAIN own THEN own[a] ELSE word[a]
      BY <1>1, <2>1 DEF ColumnInv, Columns
    <3>2. CASE a \in DOMAIN own
      BY <3>1, <3>2
    <3>3. CASE a \notin DOMAIN own
      <4>1. a \notin undone /\ a \notin column \cap treq[r].old
        BY <1>1, <2>1, <3>3
      <4>2. Clu!Now[a] = word[a]
        BY <3>1, <4>1 DEF ColumnInv, Columns, OnlyStaleUndoes, Clu!OnlyStaleUndoes
      <4> QED  BY <3>1, <3>3, <4>1, <4>2
    <3> QED  BY <3>2, <3>3
  <2> QED  BY <2>1 DEF OnlyStaleUndoes, Clu!OnlyStaleUndoes
<1>3. ASSUME NEW o \in Requests PROVE Copied(o)'
  <2>1. CASE o = r
    BY <1>1, <2>1 DEF Copied, Clu!Idle
  <2>2. CASE o # r
    <3>1. treq'[o] = Clu!Aged(o, DOMAIN own \cup again) /\ Copied(o)
      BY <1>1, <2>2 DEF ColumnInv
    <3>2. /\ treq'[o].pc = treq[o].pc
          /\ treq[o].pc \in {"force", "badges"} =>
               /\ DOMAIN treq'[o] = DOMAIN treq[o]
               /\ treq'[o].old = treq[o].old \cup DOMAIN own \cup again
               /\ treq'[o].seen = treq[o].seen /\ treq'[o].to = treq[o].to
      BY <3>1, AgedIs
    <3>3. ASSUME NEW a \in Attributes, a \notin DOMAIN own, a \notin again PROVE Clu!Now'[a] = Clu!Now[a]
      BY <3>3
    <3>4. CASE treq[o].pc = "force"
      <4>1. "config" \notin treq'[o].old => job'.config = job.config /\ "config" \notin treq[o].old
        BY <3>2, <3>3, <3>4 DEF Clu!Now, Attributes
      <4> QED  BY <3>1, <3>2, <3>4, <4>1 DEF Copied
    <3>5. CASE treq[o].pc = "badges"
      <4>1. ASSUME NEW b \in BadgeNames, b \notin treq'[o].old
            PROVE  pipeline'.badges[b] = pipeline.badges[b] /\ b \notin treq[o].old
        <5>1. b \in Attributes /\ Clu!Now'[b] = Clu!Now[b] /\ b \notin treq[o].old
          BY <3>2, <3>3, <3>5, <4>1 DEF Attributes
        <5> QED  BY <5>1 DEF Clu!Now, BadgeNames
      <4> QED  BY <3>1, <3>2, <3>5, <4>1 DEF Copied
    <3> QED  BY <3>2, <3>4, <3>5 DEF Copied
  <2> QED  BY <2>1, <2>2
<1> QED  BY <1>2, <1>3 DEF ColumnInv

LEMMA ColumnJob ==
    ASSUME ColumnInv, NEW r \in Requests, Clu!WriteJob(r) PROVE ColumnInv'
<1> DEFINE own == [a \in {"forced"} |-> treq[r].to]
<1>1. /\ treq[r].pc = "force" /\ pipeline' = pipeline
      /\ job' = [job EXCEPT !.forced = treq[r].to, !.config = treq[r].seen]
      /\ Clu!Overwrite(r, {"config", "forced"}, own)
  BY DEF Clu!WriteJob, Clu!Permutation
<1>2. Columns'
  BY <1>1 DEF ColumnInv, Columns, Clu!Overwrite
<1>3. job'.forced = treq[r].to /\ job'.config = treq[r].seen
  BY <1>1 DEF ColumnInv, Columns
<1>4. \A a \in DOMAIN own : Clu!Now'[a] = own[a]
  BY <1>3 DEF Clu!Now
<1>5. ASSUME NEW a \in Attributes \ DOMAIN own, a \notin {"config", "forced"} \cap treq[r].old
      PROVE  Clu!Now'[a] = Clu!Now[a]
  <2>1. CASE a = "config"
    <3>1. treq[r].seen = job.config
      BY <1>1, <1>5, <2>1 DEF ColumnInv, Copied
    <3> QED  BY <1>3, <2>1, <3>1 DEF Clu!Now
  <2>2. CASE a \in BadgeNames
    BY <1>1, <2>2 DEF Clu!Now, BadgeNames
  <2> QED  BY <1>5, <2>1, <2>2 DEF Attributes
<1> QED
  BY <1>1, <1>2, <1>4, <1>5, ColumnWrite DEF Attributes

LEMMA ColumnBadges ==
    ASSUME ColumnInv, NEW r \in Requests, Clu!WriteBadges(r) PROVE ColumnInv'
<1>1. CASE Clu!Finish(r, "badges") /\ UNCHANGED <<pipeline, word, undone>>
  BY <1>1, ColumnFinish DEF Clu!WriteBadges
<1>2. CASE /\ pipeline' = [pipeline EXCEPT !.badges = Clu!Merged(treq[r].seen, treq[r].to), !.badged = TRUE]
           /\ Clu!Overwrite(r, {"sonar", "other"}, treq[r].to)
  <2>1. treq[r].pc = "badges" /\ job' = job
    BY DEF Clu!WriteBadges
  <2>2. DOMAIN treq[r].seen = BadgeNames /\ DOMAIN treq[r].to \subseteq BadgeNames
    BY <2>1 DEF ColumnInv, Copied
  <2>3. pipeline'.badges = [b \in BadgeNames |-> IF b \in DOMAIN treq[r].to THEN treq[r].to[b] ELSE treq[r].seen[b]]
    BY <1>2, <2>2 DEF ColumnInv, Columns, Clu!Merged
  <2>4. Columns'
    BY <1>2, <2>1, <2>3 DEF ColumnInv, Columns, Clu!Overwrite
  <2>5. \A a \in DOMAIN treq[r].to : Clu!Now'[a] = treq[r].to[a]
    BY <2>2, <2>3 DEF Clu!Now, BadgeNames
  <2>6. ASSUME NEW a \in Attributes \ DOMAIN treq[r].to, a \notin {"sonar", "other"} \cap treq[r].old
        PROVE  Clu!Now'[a] = Clu!Now[a]
    <3>1. CASE a \in BadgeNames
      <4>1. treq[r].seen[a] = pipeline.badges[a]
        BY <2>1, <2>6, <3>1 DEF ColumnInv, Copied, BadgeNames
      <4>2. pipeline'.badges[a] = pipeline.badges[a]
        BY <2>3, <2>6, <3>1, <4>1
      <4> QED  BY <3>1, <4>2 DEF Clu!Now, BadgeNames
    <3>2. CASE a \notin BadgeNames
      BY <2>1, <2>6, <3>2 DEF Clu!Now, Attributes
    <3> QED  BY <3>1, <3>2
  <2> QED
    BY <1>2, <2>2, <2>4, <2>5, <2>6, ColumnWrite DEF Attributes, BadgeNames
<1> QED  BY <1>1, <1>2 DEF Clu!WriteBadges

LEMMA ColumnSync ==
    ASSUME ColumnInv, Clu!Sync PROVE ColumnInv'
<1>1. /\ job' = [job EXCEPT !.config = word.config + 1] /\ pipeline' = pipeline
      /\ word' = [word EXCEPT !.config = @ + 1] /\ undone' = undone \ {"config"}
      /\ treq' = [o \in Requests |-> Clu!Aged(o, {"config"})]
  BY DEF Clu!Sync
<1>2. Columns'
  BY <1>1 DEF ColumnInv, Columns
<1>3. job'.config = word'.config /\ job'.forced = job.forced
  BY <1>1 DEF ColumnInv, Columns, Attributes
<1>4. OnlyStaleUndoes'
  <2>1. ASSUME NEW a \in DOMAIN word' \ undone' PROVE Clu!Now'[a] = word'[a]
    <3>1. a \in Attributes
      BY <1>1, <2>1 DEF ColumnInv, Columns
    <3>2. CASE a = "config"
      BY <1>3, <3>2 DEF Clu!Now
    <3>3. CASE a # "config"
      <4>1. Clu!Now[a] = word[a] /\ word'[a] = word[a]
        BY <1>1, <2>1, <3>1, <3>3 DEF ColumnInv, Columns, OnlyStaleUndoes, Clu!OnlyStaleUndoes
      <4>2. Clu!Now'[a] = Clu!Now[a]
        BY <1>1, <1>3, <3>1, <3>3 DEF Clu!Now, Attributes, BadgeNames
      <4> QED  BY <4>1, <4>2
    <3> QED  BY <3>2, <3>3
  <2> QED  BY <2>1 DEF OnlyStaleUndoes, Clu!OnlyStaleUndoes
<1>5. ASSUME NEW o \in Requests PROVE Copied(o)'
  <2>1. treq'[o] = Clu!Aged(o, {"config"}) /\ Copied(o)
    BY <1>1 DEF ColumnInv
  <2>2. /\ treq'[o].pc = treq[o].pc
        /\ treq[o].pc \in {"force", "badges"} =>
             /\ DOMAIN treq'[o] = DOMAIN treq[o] /\ treq'[o].old = treq[o].old \cup {"config"}
             /\ treq'[o].seen = treq[o].seen /\ treq'[o].to = treq[o].to
    BY <2>1, AgedIs
  <2> QED  BY <1>1, <2>1, <2>2 DEF Copied
<1> QED  BY <1>2, <1>4, <1>5 DEF ColumnInv

LEMMA ColumnStep == ColumnInv /\ [Clu!Next]_(Clu!vars) => ColumnInv'
<1> SUFFICES ASSUME ColumnInv, [Clu!Next]_(Clu!vars) PROVE ColumnInv'
    OBVIOUS
<1>1. ASSUME NEW r \in Requests, NEW u \in Users, NEW n \in ClusterNames,
             \/ \E ctx \in Contexts : Clu!Create(r, u, n, ctx) \/ Clu!Update(r, u, n, ctx)
             \/ Clu!RemoveCluster(r, u, n) \/ Clu!ForcePipeline(r, u, n) \/ Clu!ForceJob(r, u, n)
      PROVE  ColumnInv'
  <2>1. ASSUME NEW ctx \in Contexts, Clu!Create(r, u, n, ctx) PROVE ColumnInv'
    BY <2>1, ColumnStart DEF Clu!Create
  <2>2. ASSUME NEW ctx \in Contexts, Clu!Update(r, u, n, ctx) PROVE ColumnInv'
    BY <2>2, ColumnStart DEF Clu!Update
  <2>3. CASE Clu!RemoveCluster(r, u, n)
    BY <2>3, ColumnStart DEF Clu!RemoveCluster
  <2>4. CASE Clu!ForcePipeline(r, u, n)
    BY <2>4, ColumnStart DEF Clu!ForcePipeline
  <2>5. CASE Clu!ForceJob(r, u, n)
    BY <2>5, ColumnStart DEF Clu!ForceJob
  <2> QED  BY <1>1, <2>1, <2>2, <2>3, <2>4, <2>5
<1>2. ASSUME NEW r \in Requests, NEW u \in Users,
             \/ Clu!FreeJob(r, u) \/ Clu!CreateBanner(r, u) \/ Clu!UpdateBanner(r, u) \/ Clu!RemoveBanner(r, u)
             \/ \E state \in {"ENABLED", "DISABLED"} : Clu!PutJob(r, u, state)
      PROVE  ColumnInv'
  <2>1. CASE Clu!FreeJob(r, u)
    BY <2>1, ColumnStart DEF Clu!FreeJob
  <2>2. CASE Clu!CreateBanner(r, u) \/ Clu!UpdateBanner(r, u) \/ Clu!RemoveBanner(r, u)
    BY <2>2, ColumnStart DEF Clu!CreateBanner, Clu!UpdateBanner, Clu!RemoveBanner
  <2>3. ASSUME NEW state, Clu!PutJob(r, u, state) PROVE ColumnInv'
    BY <2>3, ColumnStart DEF Clu!PutJob
  <2> QED  BY <1>2, <2>1, <2>2, <2>3
<1>3. ASSUME NEW r \in Requests, Clu!Badge(r, "url") PROVE ColumnInv'
  BY <1>3, ColumnStart DEF Clu!Badge, BadgeNames
<1>4. ASSUME NEW r \in Requests, NEW B \in SUBSET {"sonar", "other"}, NEW badges \in [B -> {Clu!None, "mine"}],
             Clu!PutBadges(r, badges)
      PROVE  ColumnInv'
  BY <1>4, ColumnStart DEF Clu!PutBadges, BadgeNames
<1>5. ASSUME NEW r \in Requests,
             Clu!WriteCreate(r) \/ Clu!WriteUpdate(r) \/ Clu!WriteDrop(r) \/ Clu!WriteBanner(r)
      PROVE  ColumnInv'
  BY <1>5, ColumnFinish DEF Clu!WriteCreate, Clu!WriteUpdate, Clu!WriteDrop, Clu!WriteBanner
<1>6. ASSUME NEW r \in Requests, Clu!WritePipeline(r) PROVE ColumnInv'
  <2>1. pipeline'.badges = pipeline.badges /\ DOMAIN pipeline' = DOMAIN pipeline
    BY <1>6 DEF Clu!WritePipeline, ColumnInv, Columns
  <2> QED  BY <1>6, <2>1, ColumnFinish DEF Clu!WritePipeline
<1>7. ASSUME NEW r \in Requests, Clu!WriteState(r) PROVE ColumnInv'
  <2>1. job'.config = job.config /\ job'.forced = job.forced /\ DOMAIN job' = DOMAIN job
    BY <1>7 DEF Clu!WriteState, ColumnInv, Columns
  <2> QED  BY <1>7, <2>1, ColumnFinish DEF Clu!WriteState
<1>8. CASE UNCHANGED Clu!vars
  BY <1>8 DEF Clu!vars, Clu!rows, ColumnInv, Columns, Copied, OnlyStaleUndoes, Clu!OnlyStaleUndoes, Clu!Now
<1> QED
  BY <1>1, <1>2, <1>3, <1>4, <1>5, <1>6, <1>7, <1>8, ColumnJob, ColumnBadges, ColumnSync
     DEF Clu!Next, Clu!Handle

\* Whatever requests overlap, the configuration and the forced cluster of the
\* job and the badges of the pipeline are what was set last, but for what a
\* request has undone that had read it before (jobs/buildCluster/update.js,
\* jobs/buildCluster/remove.js, pipelines/update.js, coverage/token.js).
THEOREM StaleUndoesOnly == Clu!Spec => []OnlyStaleUndoes
<1>1. Clu!Init => ColumnInv
  <2> SUFFICES ASSUME Clu!Init PROVE ColumnInv
      OBVIOUS
  <2>1. Columns
    BY DEF Clu!Init, Columns, Attributes, BadgeNames
  <2>2. OnlyStaleUndoes
    BY DEF Clu!Init, OnlyStaleUndoes, Clu!OnlyStaleUndoes, Clu!Now
  <2>3. ASSUME NEW r \in Requests PROVE Copied(r)
    BY DEF Clu!Init, Clu!Idle, Copied
  <2> QED  BY <2>1, <2>2, <2>3 DEF ColumnInv
<1>2. ColumnInv => OnlyStaleUndoes
  BY DEF ColumnInv
<1> QED  BY <1>1, <1>2, ColumnStep, PTL DEF Clu!Spec

-----------------------------------------------------------------------------
(* Logins and collections *)

Collected ==
    [user : Users, type : {"default", "normal"}, name : CollectionNames, pipelineIds : SUBSET Pipelines]

\* What a login or a request has read stays true: a user that is known, the
\* owner and the type of a collection, for neither ever changes.
Holds(x) ==
    \/ x.pc = "idle"
    \/ x.pc = "user" /\ x.user \in Users
    \/ x.pc = "defaults" /\ x.user \in known
    \/ /\ x.pc = "create" /\ x.row \in Collected
       /\ x.login => x.row.user \in known /\ x.row.type = "default"
    \/ /\ x.pc = "write" /\ x.row \in Collected /\ x.i \in DOMAIN coll
       /\ coll[x.i] # Col!Removed => x.row.user = coll[x.i].user /\ x.row.type = coll[x.i].type
    \/ /\ x.pc = "remove" /\ x.i \in DOMAIN coll
       /\ coll[x.i] # Col!Removed => coll[x.i].type = "normal"

CollectionInv ==
    /\ known \subseteq Users /\ coll \in Seq(Collected \cup {Col!Removed}) /\ exists \subseteq Pipelines
    /\ DOMAIN oreq = Requests /\ \A r \in Requests : Holds(oreq[r])
    /\ welcome \subseteq known
    /\ \A u \in welcome : \E i \in DOMAIN coll :
         coll[i] # Col!Removed /\ coll[i].user = u /\ coll[i].type = "default"

LEMMA RowNotRemoved == \A x \in Collected : x # Col!Removed
BY DEF Collected, Col!Removed

\* A request that begins, or goes on, without a write to the collections.
LEMMA GoCollection ==
    ASSUME CollectionInv, NEW r \in Requests, NEW next, Col!Go(r, next), coll' = coll,
           exists' \subseteq exists, known \subseteq known', known' \subseteq Users, welcome' = welcome,
           Holds(next)'
    PROVE  CollectionInv'
<1>1. \A o \in Requests : oreq'[o] = IF o = r THEN next ELSE oreq[o]
  BY DEF Col!Go, CollectionInv
<1>2. \A x : Holds(x) => Holds(x)'
  BY DEF Holds, Col!Removed
<1>3. \A o \in Requests : Holds(oreq[o])'
  BY <1>1, <1>2 DEF CollectionInv
<1> QED  BY <1>1, <1>3 DEF CollectionInv, Col!Go, Col!Removed

\* A request that writes the collections, and is answered.
LEMMA WriteCollection ==
    ASSUME CollectionInv, NEW r \in Requests, Col!Answer(r), UNCHANGED <<known, exists>>,
           coll' \in Seq(Collected \cup {Col!Removed}), DOMAIN coll \subseteq DOMAIN coll',
           \A i \in DOMAIN coll :
              \/ coll'[i] = coll[i]
              \/ /\ coll[i] # Col!Removed /\ coll'[i] # Col!Removed
                 /\ coll'[i].user = coll[i].user /\ coll'[i].type = coll[i].type
              \/ coll'[i] = Col!Removed /\ coll[i].type = "normal",
           \A u \in welcome' : u \in welcome \/
              (u \in known /\ \E i \in DOMAIN coll' :
                  coll'[i] # Col!Removed /\ coll'[i].user = u /\ coll'[i].type = "default")
    PROVE  CollectionInv'
<1>r. Col!Removed' = Col!Removed
  BY DEF Col!Removed
<1>1. \A o \in Requests : oreq'[o] = IF o = r THEN [pc |-> "idle"] ELSE oreq[o]
  BY DEF Col!Answer, Col!Go, CollectionInv
<1>2. ASSUME NEW x, Holds(x) PROVE Holds(x)'
  <2>1. CASE x.pc \in {"idle", "user", "defaults", "create"}
    BY <1>2, <2>1 DEF Holds
  <2>2. CASE x.pc = "write"
    <3>1. x.row \in Collected /\ x.i \in DOMAIN coll'
      BY <1>2, <2>2 DEF Holds
    <3>2. coll'[x.i] # Col!Removed => x.row.user = coll'[x.i].user /\ x.row.type = coll'[x.i].type
      BY <1>2, <2>2 DEF Holds
    <3> QED  BY <1>r, <2>2, <3>1, <3>2 DEF Holds
  <2>3. CASE x.pc = "remove"
    <3>1. x.i \in DOMAIN coll' /\ (coll'[x.i] # Col!Removed => coll'[x.i].type = "normal")
      BY <1>2, <2>3 DEF Holds
    <3> QED  BY <1>r, <2>3, <3>1 DEF Holds
  <2> QED  BY <1>2, <2>1, <2>2, <2>3 DEF Holds
<1>3. \A o \in Requests : Holds(oreq[o])'
  <2>1. Holds([pc |-> "idle"])'
    BY DEF Holds
  <2> QED  BY <1>1, <1>2, <2>1 DEF CollectionInv
<1>4. \A u \in welcome' : u \in known /\ \E i \in DOMAIN coll' :
          coll'[i] # Col!Removed /\ coll'[i].user = u /\ coll'[i].type = "default"
  <2> SUFFICES ASSUME NEW u \in welcome
               PROVE  u \in known /\ \E i \in DOMAIN coll' :
                        coll'[i] # Col!Removed /\ coll'[i].user = u /\ coll'[i].type = "default"
      OBVIOUS
  <2>1. PICK i \in DOMAIN coll : coll[i] # Col!Removed /\ coll[i].user = u /\ coll[i].type = "default"
    BY DEF CollectionInv
  <2>2. coll'[i] # Col!Removed /\ coll'[i].user = u /\ coll'[i].type = "default"
    BY <2>1
  <2> QED  BY <2>1, <2>2 DEF CollectionInv
<1> QED  BY <1>r, <1>1, <1>3, <1>4 DEF CollectionInv, Col!Answer, Col!Go

LEMMA CollectionReads ==
    ASSUME CollectionInv, NEW r \in Requests,
           \/ \E u \in Users : Col!Login(r, u) \/ Col!TokenLogin(r, u)
           \/ \E u \in Users, n \in CollectionNames : Col!Create(r, u, n)
           \/ \E u \in Users, i \in Col!Live :
                 \/ Col!Update(r, u, i) \/ Col!AddPipelines(r, u, i)
                 \/ Col!RemovePipelines(r, u, i) \/ Col!RemoveOne(r, u, i)
    PROVE  CollectionInv'
<1>l. \A i \in Col!Live : i \in DOMAIN coll /\ coll[i] \in Collected /\ coll[i] # Col!Removed
  BY DEF CollectionInv, Col!Live
<1>s. \A next : Col!Start(r, next) => /\ Col!Go(r, next) /\ UNCHANGED <<known, coll, exists, welcome>>
  BY DEF Col!Start
<1>h. \A next : Holds(next) /\ UNCHANGED <<known, coll>> => Holds(next)'
  BY DEF Holds, Col!Removed
<1>g. \A next : Holds(next) /\ Col!Start(r, next) => CollectionInv'
  BY <1>s, <1>h, GoCollection DEF CollectionInv
<1>1. ASSUME NEW u \in Users, Col!Login(r, u) \/ Col!TokenLogin(r, u) PROVE CollectionInv'
  <2>1. CASE Col!Login(r, u)
    BY <1>g, <2>1 DEF Col!Login, Holds
  <2>2. CASE Col!TokenLogin(r, u)
    BY <1>g, <2>2 DEF Col!TokenLogin, Holds
  <2> QED  BY <1>1, <2>1, <2>2
<1>2. ASSUME NEW u \in Users, NEW n \in CollectionNames, Col!Create(r, u, n) PROVE CollectionInv'
  <2>1. PICK ps \in SUBSET Pipelines :
          Col!Start(r, [pc |-> "create", login |-> FALSE, row |->
                        [user |-> u, type |-> "normal", name |-> n, pipelineIds |-> ps \cap exists]])
    BY <1>2 DEF Col!Create
  <2>2. [user |-> u, type |-> "normal", name |-> n, pipelineIds |-> ps \cap exists] \in Collected
    BY DEF Collected
  <2> QED  BY <1>g, <2>1, <2>2 DEF Holds
<1>3. ASSUME NEW u \in Users, NEW i \in Col!Live, Col!Update(r, u, i) PROVE CollectionInv'
  <2>1. PICK n \in CollectionNames, ps \in SUBSET Pipelines :
          Col!Start(r, [pc |-> "write", i |-> i, row |->
                        [coll[i] EXCEPT !.type = "normal", !.name = n, !.pipelineIds = ps \cap exists]])
    BY <1>3 DEF Col!Update
  <2>2. coll[i].type = "normal"
    BY <1>3, <1>l DEF Col!Update, Col!MayUpdate, Col!Owned, Col!Default, Collected
  <2>3. PICK x : x = [coll[i] EXCEPT !.type = "normal", !.name = n, !.pipelineIds = ps \cap exists]
    OBVIOUS
  <2>4. x \in Collected /\ x.user = coll[i].user /\ x.type = coll[i].type
    BY <1>l, <2>2, <2>3 DEF Collected
  <2> QED  BY <1>g, <1>l, <2>1, <2>3, <2>4 DEF Holds
<1>4. ASSUME NEW u \in Users, NEW i \in Col!Live, Col!AddPipelines(r, u, i) \/ Col!RemovePipelines(r, u, i)
      PROVE  CollectionInv'
  <2>1. PICK qs \in SUBSET Pipelines :
          Col!Start(r, [pc |-> "write", i |-> i, row |-> [coll[i] EXCEPT !.pipelineIds = qs]])
    <3>1. coll[i].pipelineIds \subseteq Pipelines
      BY <1>l DEF Collected
    <3>2. CASE Col!AddPipelines(r, u, i)
      <4>1. PICK ps \in SUBSET Pipelines :
              Col!Start(r, [pc |-> "write", i |-> i, row |-> [coll[i] EXCEPT !.pipelineIds = @ \cup (ps \cap exists)]])
        BY <3>2 DEF Col!AddPipelines
      <4>2. [coll[i] EXCEPT !.pipelineIds = @ \cup (ps \cap exists)]
              = [coll[i] EXCEPT !.pipelineIds = coll[i].pipelineIds \cup (ps \cap exists)]
        OBVIOUS
      <4>3. coll[i].pipelineIds \cup (ps \cap exists) \in SUBSET Pipelines
        BY <3>1
      <4> QED  BY <4>1, <4>2, <4>3
    <3>3. CASE Col!RemovePipelines(r, u, i)
      <4>1. PICK ps \in SUBSET Pipelines :
              Col!Start(r, [pc |-> "write", i |-> i, row |-> [coll[i] EXCEPT !.pipelineIds = @ \ ps]])
        BY <3>3 DEF Col!RemovePipelines
      <4>2. [coll[i] EXCEPT !.pipelineIds = @ \ ps] = [coll[i] EXCEPT !.pipelineIds = coll[i].pipelineIds \ ps]
        OBVIOUS
      <4>3. coll[i].pipelineIds \ ps \in SUBSET Pipelines
        BY <3>1
      <4> QED  BY <4>1, <4>2, <4>3
    <3> QED  BY <1>4, <3>2, <3>3
  <2>2. PICK x : x = [coll[i] EXCEPT !.pipelineIds = qs]
    OBVIOUS
  <2>3. x \in Collected /\ x.user = coll[i].user /\ x.type = coll[i].type
    BY <1>l, <2>2 DEF Collected
  <2> QED  BY <1>g, <1>l, <2>1, <2>2, <2>3 DEF Holds
<1>5. ASSUME NEW u \in Users, NEW i \in Col!Live, Col!RemoveOne(r, u, i) PROVE CollectionInv'
  <2>1. coll[i].type = "normal"
    BY <1>5, <1>l DEF Col!RemoveOne, Col!MayRemove, Col!Owned, Col!Default, Collected
  <2> QED  BY <1>g, <1>l, <1>5, <2>1 DEF Col!RemoveOne, Holds
<1> QED  BY <1>1, <1>2, <1>3, <1>4, <1>5

LEMMA CollectionGoes ==
    ASSUME CollectionInv, NEW r \in Requests, Col!StoreUser(r) \/ Col!ListDefaults(r)
    PROVE  CollectionInv'
<1>h. Holds(oreq[r])
  BY DEF CollectionInv
<1>1. CASE Col!StoreUser(r)
  <2>1. PICK u : u = oreq[r].user
    OBVIOUS
  <2>2. /\ u \in Users /\ known' = known \cup {u} /\ UNCHANGED <<coll, exists, welcome>>
        /\ Col!Go(r, [oreq[r] EXCEPT !.pc = "defaults"])
    BY <1>h, <1>1, <2>1 DEF Col!StoreUser, Holds
  <2>3. PICK x : x = [oreq[r] EXCEPT !.pc = "defaults"]
    OBVIOUS
  <2>4. x.pc = "defaults" /\ x.user = u
    BY <1>1, <2>1, <2>3 DEF Col!StoreUser
  <2>5. Holds(x)'
    BY <2>2, <2>4 DEF Holds
  <2>6. Col!Go(r, x) /\ known \subseteq known' /\ known' \subseteq Users
    BY <2>2, <2>3 DEF CollectionInv
  <2> QED  BY <2>2, <2>5, <2>6, GoCollection
<1>2. CASE Col!ListDefaults(r)
  <2>1. PICK u : u = oreq[r].user
    OBVIOUS
  <2>2. u \in known /\ u \in Users /\ UNCHANGED <<known, coll, exists>>
    BY <1>h, <1>2, <2>1 DEF Col!ListDefaults, Holds, CollectionInv
  <2>3. CASE Col!Lacking(u)
    <3>1. PICK x : x = [user |-> u, type |-> "default", name |-> "My Pipelines", pipelineIds |-> {}]
      OBVIOUS
    <3>2. Col!Go(r, [pc |-> "create", login |-> TRUE, row |-> x]) /\ welcome' = welcome
      BY <1>2, <2>1, <2>3, <3>1 DEF Col!ListDefaults
    <3>3. x \in Collected /\ x.user = u /\ x.type = "default"
      BY <2>2, <3>1, CollectionsAssumed DEF Collected, Col!CollectionsAssumption
    <3> QED  BY <2>2, <3>2, <3>3, GoCollection DEF Holds, CollectionInv
  <2>4. CASE ~Col!Lacking(u)
    <3>1. Col!Answer(r) /\ welcome' = welcome \cup {u}
      BY <1>2, <2>1, <2>4 DEF Col!ListDefaults
    <3>2. \E i \in DOMAIN coll' : coll'[i] # Col!Removed /\ coll'[i].user = u /\ coll'[i].type = "default"
      BY <2>2, <2>4 DEF Col!Lacking, Col!Default, Col!Owned, Col!Live
    <3> QED  BY <2>2, <3>1, <3>2, WriteCollection DEF CollectionInv
  <2> QED  BY <2>3, <2>4
<1> QED  BY <1>1, <1>2

LEMMA CollectionWrites ==
    ASSUME CollectionInv, NEW r \in Requests,
           Col!WriteCreate(r) \/ Col!Write(r) \/ Col!WriteRemoval(r)
    PROVE  CollectionInv'
<1>h. Holds(oreq[r]) /\ coll \in Seq(Collected \cup {Col!Removed}) /\ welcome \subseteq known
  BY DEF CollectionInv
<1>1. CASE Col!WriteCreate(r)
  <2>1. /\ oreq[r].pc = "create" /\ Col!Answer(r) /\ UNCHANGED <<known, exists>>
        /\ oreq[r].row \in Collected
        /\ oreq[r].login => oreq[r].row.user \in known /\ oreq[r].row.type = "default"
    BY <1>h, <1>1 DEF Col!WriteCreate, Holds
  <2>2. CASE UNCHANGED <<coll, welcome>>
    BY <1>h, <2>1, <2>2, WriteCollection
  <2>3. CASE /\ coll' = Append(coll, oreq[r].row)
             /\ welcome' = IF oreq[r].login THEN welcome \cup {oreq[r].row.user} ELSE welcome
    <3>1. /\ coll' \in Seq(Collected \cup {Col!Removed}) /\ Len(coll') = Len(coll) + 1
          /\ coll'[Len(coll) + 1] = oreq[r].row /\ \A i \in DOMAIN coll : coll'[i] = coll[i]
          /\ DOMAIN coll \subseteq DOMAIN coll' /\ Len(coll) + 1 \in DOMAIN coll'
      BY <1>h, <2>1, <2>3
    <3>2. oreq[r].row # Col!Removed
      BY <2>1, RowNotRemoved
    <3>3. \A u \in welcome' : u \in welcome \/
              (u \in known /\ \E i \in DOMAIN coll' :
                  coll'[i] # Col!Removed /\ coll'[i].user = u /\ coll'[i].type = "default")
      BY <2>1, <2>3, <3>1, <3>2
    <3> QED  BY <2>1, <3>1, <3>3, WriteCollection
  <2> QED  BY <1>1, <2>2, <2>3 DEF Col!WriteCreate
<1>2. CASE Col!Write(r)
  <2>1. PICK i : i = oreq[r].i
    OBVIOUS
  <2>2. /\ Col!Answer(r) /\ UNCHANGED <<known, exists, welcome>>
        /\ coll' = IF i \in Col!Live THEN [coll EXCEPT ![i] = oreq[r].row] ELSE coll
        /\ i \in DOMAIN coll /\ oreq[r].row \in Collected
        /\ coll[i] # Col!Removed => oreq[r].row.user = coll[i].user /\ oreq[r].row.type = coll[i].type
    BY <1>h, <1>2, <2>1 DEF Col!Write, Holds
  <2>3. coll' \in Seq(Collected \cup {Col!Removed}) /\ DOMAIN coll' = DOMAIN coll
    BY <1>h, <2>2
  <2>4. \A o \in DOMAIN coll :
          \/ coll'[o] = coll[o]
          \/ o = i /\ coll[i] # Col!Removed /\ coll'[i] = oreq[r].row /\ coll'[i] # Col!Removed
    BY <1>h, <2>2, RowNotRemoved DEF Col!Live
  <2> QED  BY <2>2, <2>3, <2>4, WriteCollection
<1>3. CASE Col!WriteRemoval(r)
  <2>1. PICK i : i = oreq[r].i
    OBVIOUS
  <2>2. /\ Col!Answer(r) /\ UNCHANGED <<known, exists, welcome>>
        /\ coll' = [coll EXCEPT ![i] = Col!Removed]
        /\ i \in DOMAIN coll /\ (coll[i] # Col!Removed => coll[i].type = "normal")
    BY <1>h, <1>3, <2>1 DEF Col!WriteRemoval, Holds
  <2>3. coll' \in Seq(Collected \cup {Col!Removed}) /\ DOMAIN coll' = DOMAIN coll
    BY <1>h, <2>2
  <2>4. \A o \in DOMAIN coll : coll'[o] = coll[o] \/ (coll'[o] = Col!Removed /\ coll[o].type = "normal")
    BY <1>h, <2>2
  <2> QED  BY <2>2, <2>3, <2>4, WriteCollection
<1> QED  BY <1>1, <1>2, <1>3

LEMMA CollectionStep == CollectionInv /\ [Col!Next]_(Col!vars) => CollectionInv'
<1> SUFFICES ASSUME CollectionInv, [Col!Next]_(Col!vars) PROVE CollectionInv'
    OBVIOUS
<1>1. ASSUME NEW p \in Pipelines, Col!DeletePipeline(p) PROVE CollectionInv'
  BY <1>1 DEF Col!DeletePipeline, CollectionInv, Holds, Col!Removed
<1>2. CASE UNCHANGED Col!vars
  BY <1>2 DEF Col!vars, CollectionInv, Holds, Col!Removed
<1>3. ASSUME NEW r \in Requests, Col!Handle(r) PROVE CollectionInv'
  BY <1>3, CollectionReads, CollectionGoes, CollectionWrites DEF Col!Handle
<1> QED  BY <1>1, <1>2, <1>3 DEF Col!Next

\* A user whose login was answered has a default collection for good, for any
\* number of users, requests and collections (auth/index.js, plugins/collections).
THEOREM DefaultKept == Col!Spec => []DefaultCollection
<1>1. Col!Init => CollectionInv
  BY DEF Col!Init, CollectionInv, Holds
<1>2. CollectionInv => DefaultCollection
  BY DEF CollectionInv, DefaultCollection, Col!DefaultCollection, Col!Default, Col!Owned, Col!Live
<1> QED  BY <1>1, <1>2, CollectionStep, PTL DEF Col!Spec

\* A set of versions has a newest one.
LEMMA HasNewest ==
    ASSUME NEW N \in Nat, NEW S, S \subseteq 1 .. N, S # {}
    PROVE  \E v \in S : \A w \in S : w <= v
<1> DEFINE R == {ss \in Nat \X Nat : ss[1] < ss[2]}
           T == {N - v : v \in S}
<1>1. IsWellFoundedOn(R, Nat)
  BY NatLessThanWellFounded DEF OpToRel
<1>2. T \subseteq Nat /\ T # {}
  <2>1. \A v \in S : N - v \in Nat /\ N - v \in T
    OBVIOUS
  <2>2. PICK v : v \in S
    OBVIOUS
  <2>3. T # {}
    BY <2>1, <2>2
  <2> QED  BY <2>1, <2>3
<1> HIDE DEF R
<1>3. PICK x \in T : \A y \in T : ~(<<y, x>> \in R)
  BY <1>1, <1>2, WFMin
<1>4. \A y \in T : ~(y < x)
  BY <1>2, <1>3 DEF R
<1>5. PICK v \in S : x = N - v
  OBVIOUS
<1> SUFFICES ASSUME NEW w \in S PROVE w <= v
    BY <1>5
<1>6. N - w \in T
  OBVIOUS
<1>7. ~(N - w < N - v)
  BY <1>4, <1>5, <1>6
<1> QED  BY <1>7

-----------------------------------------------------------------------------
(* One name of a catalog *)

PipelinesOf == {c.pipeline : c \in Creds}
Published   == [owner : PipelinesOf, latest : BOOLEAN, trusted : BOOLEAN, file : Requests \cup {Cat!NoFile}]

CatTyped ==
    /\ catalog \in CatalogKinds
    /\ crow \in [Cat!Versions -> Published \cup {Cat!Absent}]
    /\ DOMAIN tag = Tags /\ DOMAIN store = Cat!Versions
    /\ meta # Cat!Absent => DOMAIN meta = {"owner", "latest", "since"}
    /\ DOMAIN marred = {"owners", "latest", "tags", "files"} /\ marred.owners \in BOOLEAN /\ marred.latest \in BOOLEAN

\* The version is called the latest.
Called(v) == IF catalog = "pipeline" THEN meta.latest = v ELSE crow[v].latest

Seek == {"list", "promote"}

\* What a request has read and decided is still true, but for what has changed
\* since.
Knows(x) ==
    /\ x.pc \in {"post", "create"} =>
         /\ x.what.by \in PipelinesOf /\ x.what.v \in Cat!Versions
         /\ x.what.file \in Requests \cup {Cat!NoFile}
         /\ (catalog = "pipeline" \/ ~marred.owners) /\ x.aged.by \subseteq {x.what.by} =>
              Cat!Owners \subseteq {x.what.by}
         /\ x.aged.by = {} /\ x.aged.gone = {} => x.what.v = Cat!NextPatch
    /\ x.pc = "create" /\ x.what.v \notin x.aged.files /\ x.what.file # Cat!NoFile =>
         store[x.what.v] = x.what.file
    /\ x.pc = "tag" => x.what.v \in x.aged.gone \/ x.what.v \in Cat!Existing
    /\ x.pc = "remove" =>
         /\ x.what.v \in Cat!Versions /\ (x.what.v \in x.aged.gone \/ x.what.v \in Cat!Existing)
         /\ x.what.tags \subseteq Tags
         /\ \A t \in Tags \ x.aged.tags : t \in x.what.tags <=> tag[t] = x.what.v
         /\ x.what.v \notin x.aged.gone \cup x.aged.lifted /\ ~x.what.latest /\ catalog # "command" =>
              ~Called(x.what.v)
    /\ x.pc = "promote" =>
         /\ x.what.v \in Cat!Versions /\ (x.what.v \in x.aged.gone \/ x.what.v \in Cat!Existing)
         /\ x.aged.by = {} /\ x.aged.gone = {} => \A w \in Cat!Existing : w <= x.what.v
         /\ catalog = "pipeline" /\ 0 \notin x.aged.gone => meta # Cat!Absent
    /\ x.pc = "removeAll" =>
         /\ x.what.vs \subseteq Cat!Versions /\ x.what.tags \subseteq Tags
         /\ x.what.vs \ x.aged.gone \subseteq Cat!Existing
         /\ \A v \in x.what.vs \ x.aged.gone, w \in Cat!Existing \ (x.what.vs \ x.aged.gone) : v < w
         /\ \A t \in Tags \ x.aged.tags : t \in x.what.tags <=> tag[t] # 0
    /\ x.pc = "trust" =>
         /\ x.what.b \in BOOLEAN
         /\ x.what.v = 0 \/ x.what.v \in x.aged.gone \/ x.what.v \in Cat!Existing
         /\ x.what.v = 0 => catalog = "pipeline" /\ (0 \notin x.aged.gone => meta # Cat!Absent)

Well(x) == \/ x = Cat!Idle
           \/ DOMAIN x = {"pc", "aged", "what"} /\ DOMAIN x.aged = DOMAIN Cat!Fresh /\ Knows(x)

OwnersOk == ~marred.owners => Cat!OneOwner
TagsOk   == \A t \in Tags \ marred.tags : Cat!Resolves(t)
FilesOk  == catalog = "command" => \A v \in Cat!Existing \ marred.files : Cat!HasFile(v)

\* A version that is called the latest is the newest; that none is called the
\* latest is only while a request is looking for it.
LatestOk ==
    ~marred.latest =>
        /\ \A v, w \in Cat!Existing : Called(v) => w <= v
        /\ catalog # "command" /\ Cat!Existing # {} /\ ~Cat!Seeking => \E v \in Cat!Existing : Called(v)

CatInv ==
    /\ DOMAIN creq = Requests /\ CatTyped /\ \A r \in Requests : Well(creq[r])
    /\ OwnersOk /\ TagsOk /\ LatestOk /\ FilesOk

LEMMA NextPatchIs ==
    /\ \A v \in Cat!Existing : v \in Cat!Versions /\ v \in Nat \ {0} /\ crow[v] # Cat!Absent
    /\ Cat!Existing # {} => /\ Cat!Newest(Cat!Existing) \in Cat!Existing
                            /\ \A w \in Cat!Existing : w <= Cat!Newest(Cat!Existing)
    /\ Cat!NextPatch \in Nat \ {0} /\ \A w \in Cat!Existing : w < Cat!NextPatch
<1>1. Cat!Existing \subseteq 1 .. MaxVersions /\ MaxVersions \in Nat
  BY CatalogAssumed DEF Cat!Existing, Cat!Versions, Cat!CatalogAssumption
<1>2. CASE Cat!Existing # {}
  <2>1. \E v \in Cat!Existing : \A w \in Cat!Existing : w <= v
    BY <1>1, <1>2, HasNewest
  <2>2. Cat!Newest(Cat!Existing) \in Cat!Existing /\ \A w \in Cat!Existing : w <= Cat!Newest(Cat!Existing)
    BY <2>1 DEF Cat!Newest
  <2>3. Cat!NextPatch = Cat!Newest(Cat!Existing) + 1
    BY <1>2 DEF Cat!NextPatch
  <2> QED  BY <1>1, <2>2, <2>3 DEF Cat!Existing, Cat!Versions
<1>3. CASE Cat!Existing = {}
  BY <1>3 DEF Cat!NextPatch
<1> QED  BY <1>2, <1>3 DEF Cat!Existing

LEMMA PublishedIs ==
    ASSUME NEW x \in Published
    PROVE  x # Cat!Absent /\ DOMAIN x = {"owner", "latest", "trusted", "file"}
BY DEF Published, Cat!Absent

\* change tells all that a step has changed of what other requests have read.
Described(change) ==
    /\ catalog' = catalog
    /\ Cat!Owners' \subseteq Cat!Owners \cup change.by
    /\ catalog # "pipeline" /\ marred.owners /\ ~marred.owners' => Cat!Owners' \subseteq change.by
    /\ change.by = {} /\ change.gone = {} => Cat!NextPatch' = Cat!NextPatch
    /\ \A v \in Cat!Versions \ change.files : store'[v] = store[v]
    /\ Cat!Existing \subseteq Cat!Existing' \cup change.gone
    /\ Cat!Existing' \cap change.gone = {}
    /\ \A w \in Cat!Existing' \ Cat!Existing : change.by # {} /\ \A v \in Cat!Existing : v < w
    /\ \A t \in Tags \ change.tags : tag'[t] = tag[t]
    /\ \A v \in Cat!Existing \ (change.gone \cup change.lifted) : Called(v)' => Called(v)
    /\ catalog = "pipeline" /\ meta # Cat!Absent /\ 0 \notin change.gone => meta' # Cat!Absent

LEMMA HeedsOn ==
    ASSUME NEW x, NEW y, NEW change, Well(x), x # Cat!Idle, Described(change),
           y = [x EXCEPT !.aged = [f \in DOMAIN Cat!Fresh |->
                   IF f \in Cat!Matters(x.pc) THEN @[f] \cup change[f] ELSE {}]]
    PROVE  Well(y)' /\ y.pc = x.pc /\ y # Cat!Idle
<1>1. DOMAIN x = {"pc", "aged", "what"} /\ DOMAIN x.aged = DOMAIN Cat!Fresh /\ Knows(x)
  BY DEF Well
<1>2. /\ DOMAIN y = {"pc", "aged", "what"} /\ y.pc = x.pc /\ y.what = x.what
      /\ y.aged = [f \in DOMAIN Cat!Fresh |-> IF f \in Cat!Matters(x.pc) THEN x.aged[f] \cup change[f] ELSE {}]
  BY <1>1
<1>3. y # Cat!Idle /\ DOMAIN y.aged = DOMAIN Cat!Fresh
  BY <1>2 DEF Cat!Idle
<1>4. DOMAIN Cat!Fresh = {"by", "gone", "lifted", "tags", "freed", "files"}
  BY DEF Cat!Fresh
<1>5. CASE x.pc \in {"post", "create"}
  <2>1. /\ y.aged.by = x.aged.by \cup change.by /\ y.aged.gone = x.aged.gone \cup change.gone
        /\ y.aged.files = x.aged.files \cup change.files
    BY <1>2, <1>4, <1>5 DEF Cat!Matters
  <2>2. (catalog' = "pipeline" \/ ~marred.owners') /\ y.aged.by \subseteq {y.what.by} =>
        Cat!Owners' \subseteq {y.what.by}
    BY <1>1, <1>2, <1>5, <2>1 DEF Knows, Described
  <2>3. y.aged.by = {} /\ y.aged.gone = {} => y.what.v = Cat!NextPatch'
    BY <1>1, <1>2, <1>5, <2>1 DEF Knows, Described
  <2>4. y.pc = "create" /\ y.what.v \notin y.aged.files /\ y.what.file # Cat!NoFile => store'[y.what.v] = y.what.file
    BY <1>1, <1>2, <1>5, <2>1 DEF Knows, Described
  <2>5. /\ y.what.by \in PipelinesOf /\ y.what.v \in Cat!Versions
        /\ y.what.file \in Requests \cup {Cat!NoFile}
    BY <1>1, <1>2, <1>5 DEF Knows
  <2> QED  BY <1>2, <1>3, <1>5, <2>2, <2>3, <2>4, <2>5 DEF Well, Knows, Cat!Versions, PipelinesOf, Cat!NoFile, Cat!Fresh
<1>6. CASE x.pc = "tag"
  <2>1. y.aged.gone = x.aged.gone \cup change.gone
    BY <1>2, <1>4, <1>6 DEF Cat!Matters
  <2>2. y.what.v \in y.aged.gone \/ y.what.v \in Cat!Existing'
    BY <1>1, <1>2, <1>6, <2>1 DEF Knows, Described
  <2> QED  BY <1>2, <1>3, <1>6, <2>2 DEF Well, Knows, Cat!Fresh
<1>7. CASE x.pc = "remove"
  <2>1. /\ y.aged.gone = x.aged.gone \cup change.gone /\ y.aged.tags = x.aged.tags \cup change.tags
        /\ y.aged.lifted = x.aged.lifted \cup change.lifted
    BY <1>2, <1>4, <1>7 DEF Cat!Matters
  <2>2. y.what.v \in Cat!Versions /\ y.what.tags \subseteq Tags
    BY <1>1, <1>2, <1>7 DEF Knows
  <2>3. y.what.v \in y.aged.gone \/ y.what.v \in Cat!Existing'
    BY <1>1, <1>2, <1>7, <2>1 DEF Knows, Described
  <2>4. \A t \in Tags \ y.aged.tags : t \in y.what.tags <=> tag'[t] = y.what.v
    BY <1>1, <1>2, <1>7, <2>1 DEF Knows, Described
  <2>5. y.what.v \notin y.aged.gone \cup y.aged.lifted /\ ~y.what.latest /\ catalog' # "command" => ~Called(y.what.v)'
    BY <1>1, <1>2, <1>7, <2>1 DEF Knows, Described
  <2> QED  BY <1>2, <1>3, <1>7, <2>2, <2>3, <2>4, <2>5 DEF Well, Knows, Cat!Versions, Cat!Fresh
<1>8. CASE x.pc = "promote"
  <2>1. y.aged.gone = x.aged.gone \cup change.gone /\ y.aged.by = x.aged.by \cup change.by
    BY <1>2, <1>4, <1>8 DEF Cat!Matters
  <2>2. y.what.v \in Cat!Versions /\ (y.what.v \in y.aged.gone \/ y.what.v \in Cat!Existing')
    BY <1>1, <1>2, <1>8, <2>1 DEF Knows, Described
  <2>3. y.aged.by = {} /\ y.aged.gone = {} => \A w \in Cat!Existing' : w <= y.what.v
    BY <1>1, <1>2, <1>8, <2>1 DEF Knows, Described
  <2>4. catalog' = "pipeline" /\ 0 \notin y.aged.gone => meta' # Cat!Absent
    BY <1>1, <1>2, <1>8, <2>1 DEF Knows, Described
  <2> QED  BY <1>2, <1>3, <1>8, <2>2, <2>3, <2>4 DEF Well, Knows, Cat!Versions, Cat!Fresh, Cat!Absent
<1>9. CASE x.pc = "removeAll"
  <2>1. y.aged.gone = x.aged.gone \cup change.gone /\ y.aged.tags = x.aged.tags \cup change.tags
    BY <1>2, <1>4, <1>9 DEF Cat!Matters
  <2>2. y.what.vs \subseteq Cat!Versions /\ y.what.tags \subseteq Tags
    BY <1>1, <1>2, <1>9 DEF Knows
  <2>3. y.what.vs \ y.aged.gone \subseteq Cat!Existing'
    BY <1>1, <1>2, <1>9, <2>1 DEF Knows, Described
  <2>4. ASSUME NEW v \in y.what.vs \ y.aged.gone, NEW w \in Cat!Existing' \ (y.what.vs \ y.aged.gone) PROVE v < w
    <3>1. v \in x.what.vs \ x.aged.gone /\ v \in Cat!Existing
      BY <1>1, <1>2, <1>9, <2>1, <2>4 DEF Knows
    <3>2. CASE w \in Cat!Existing
      <4>1. w \notin change.gone
        BY <2>4 DEF Described
      <4>2. w \notin x.what.vs \ x.aged.gone
        BY <1>2, <2>1, <2>4, <4>1
      <4> QED  BY <1>1, <1>9, <3>1, <3>2, <4>2 DEF Knows
    <3>3. CASE w \notin Cat!Existing
      BY <2>4, <3>1, <3>3 DEF Described
    <3> QED  BY <3>2, <3>3
  <2>5. \A t \in Tags \ y.aged.tags : t \in y.what.tags <=> tag'[t] # 0
    BY <1>1, <1>2, <1>9, <2>1 DEF Knows, Described
  <2> QED  BY <1>2, <1>3, <1>9, <2>2, <2>3, <2>4, <2>5 DEF Well, Knows, Cat!Versions, Cat!Fresh
<1>10. CASE x.pc = "trust"
  <2>1. y.aged.gone = x.aged.gone \cup change.gone
    BY <1>2, <1>4, <1>10 DEF Cat!Matters
  <2>2. /\ y.what.b \in BOOLEAN
        /\ y.what.v = 0 \/ y.what.v \in y.aged.gone \/ y.what.v \in Cat!Existing'
    BY <1>1, <1>2, <1>10, <2>1 DEF Knows, Described
  <2>3. y.what.v = 0 => catalog' = "pipeline" /\ (0 \notin y.aged.gone => meta' # Cat!Absent)
    BY <1>1, <1>2, <1>10, <2>1 DEF Knows, Described
  <2> QED  BY <1>2, <1>3, <1>10, <2>2, <2>3 DEF Well, Knows, Cat!Absent, Cat!Fresh
<1>11. CASE x.pc \notin {"post", "create", "tag", "remove", "promote", "removeAll", "trust"}
  BY <1>2, <1>3, <1>11 DEF Well, Knows, Cat!Fresh
<1> QED  BY <1>2, <1>3, <1>5, <1>6, <1>7, <1>8, <1>9, <1>10, <1>11

LEMMA AllWell ==
    ASSUME NEW r \in Requests, NEW new, NEW change, DOMAIN creq = Requests,
           \A o \in Requests : Well(creq[o]), Described(change), Well(new)',
           creq' = Cat!After(r, new, change)
    PROVE  /\ DOMAIN creq' = Requests /\ \A o \in Requests : Well(creq[o])'
           /\ creq'[r] = new
           /\ Cat!Seeking /\ creq[r].pc \notin Seek => Cat!Seeking'
           /\ new.pc \in Seek => Cat!Seeking'
<1>1. DOMAIN creq' = Requests /\ creq'[r] = new
  BY DEF Cat!After
<1>2. ASSUME NEW o \in Requests PROVE Well(creq[o])' /\ (o # r => creq'[o].pc = creq[o].pc)
  <2>1. CASE o = r
    BY <1>1, <2>1
  <2>2. CASE o # r /\ creq[o] = Cat!Idle
    <3>1. creq'[o] = Cat!Idle
      BY <2>2 DEF Cat!After
    <3> QED  BY <2>2, <3>1 DEF Well, Cat!Idle
  <2>3. CASE o # r /\ creq[o] # Cat!Idle
    <3>1. PICK x : x = creq[o]
      OBVIOUS
    <3>2. PICK y : y = creq'[o]
      OBVIOUS
    <3>3. y = [x EXCEPT !.aged = [f \in DOMAIN Cat!Fresh |->
                   IF f \in Cat!Matters(x.pc) THEN @[f] \cup change[f] ELSE {}]]
      BY <2>3, <3>1, <3>2 DEF Cat!After
    <3>4. Well(x) /\ x # Cat!Idle
      BY <2>3, <3>1
    <3>5. Well(y)' /\ y.pc = x.pc
      BY <3>3, <3>4, HeedsOn
    <3> QED  BY <3>1, <3>2, <3>5
  <2> QED  BY <2>1, <2>2, <2>3
<1>3. Cat!Seeking /\ creq[r].pc \notin Seek => Cat!Seeking'
  BY <1>1, <1>2 DEF Cat!Seeking, Seek
<1>4. new.pc \in Seek => Cat!Seeking'
  BY <1>1 DEF Cat!Seeking, Seek
<1> QED  BY <1>1, <1>2, <1>3, <1>4

LEMMA Untouched ==
    ASSUME catalog' = catalog, crow' = crow, meta' = meta
    PROVE  /\ Cat!Existing' = Cat!Existing /\ Cat!Owners' = Cat!Owners /\ Cat!NextPatch' = Cat!NextPatch
           /\ \A v : Called(v)' <=> Called(v)
BY DEF Cat!Existing, Cat!Owners, Cat!NextPatch, Called

\* A step that leaves versions, owners and what is called the latest alone.
LEMMA RowsKept ==
    ASSUME NEW r \in Requests, NEW new, NEW change, CatInv,
           catalog' = catalog, Cat!Existing' = Cat!Existing, Cat!Owners' = Cat!Owners,
           \A v \in Cat!Existing : Called(v)' <=> Called(v), meta # Cat!Absent => meta' # Cat!Absent,
           creq' = Cat!After(r, new, change), Well(new)', change.by = {}, change.gone = {},
           \A t \in Tags \ change.tags : tag'[t] = tag[t],
           \A v \in Cat!Versions \ change.files : store'[v] = store[v],
           marred'.owners = marred.owners, marred.latest => marred'.latest,
           creq[r].pc \in Seek => new.pc \in Seek \/ marred'.latest \/ Cat!Existing = {}
    PROVE  DOMAIN creq' = Requests /\ (\A o \in Requests : Well(creq[o])') /\ OwnersOk' /\ LatestOk'
<1>1. Described(change)
  BY DEF Described, Cat!NextPatch
<1>2. /\ DOMAIN creq' = Requests /\ \A o \in Requests : Well(creq[o])'
      /\ Cat!Seeking /\ creq[r].pc \notin Seek => Cat!Seeking'
      /\ new.pc \in Seek => Cat!Seeking'
  BY <1>1, AllWell DEF CatInv
<1>3. OwnersOk'
  BY DEF CatInv, OwnersOk, Cat!OneOwner
<1>4. LatestOk'
  BY <1>2 DEF CatInv, LatestOk
<1> QED  BY <1>2, <1>3, <1>4

LEMMA CatGo ==
    ASSUME NEW r \in Requests, NEW pc, NEW what, CatInv, Cat!Go(r, pc, what),
           Knows([pc |-> pc, aged |-> Cat!Fresh, what |-> what])
    PROVE  CatInv'
<1> DEFINE new == [pc |-> pc, aged |-> Cat!Fresh, what |-> what]
<1>1. /\ UNCHANGED <<catalog, crow, tag, meta, store, marred>> /\ creq[r] = Cat!Idle
      /\ creq' = Cat!After(r, new, Cat!Fresh)
  BY DEF Cat!Go
<1>2. /\ Cat!Existing' = Cat!Existing /\ Cat!Owners' = Cat!Owners /\ Cat!NextPatch' = Cat!NextPatch
      /\ \A v : Called(v)' <=> Called(v)
  BY <1>1, Untouched
<1>3. Well(new)'
  BY <1>1, <1>2 DEF Well, Knows, Cat!Fresh, Cat!Versions, Cat!NoFile, Cat!Absent, PipelinesOf
<1>4. creq[r].pc \notin Seek
  BY <1>1 DEF Cat!Idle, Seek
<1>5. DOMAIN creq' = Requests /\ (\A o \in Requests : Well(creq[o])') /\ OwnersOk' /\ LatestOk'
  <2>1. PICK n : n = new
    OBVIOUS
  <2>2. Cat!Fresh.by = {} /\ Cat!Fresh.gone = {}
    BY DEF Cat!Fresh
  <2> HIDE DEF new
  <2> QED  BY <1>1, <1>2, <1>3, <1>4, <2>1, <2>2, RowsKept
<1>6. TagsOk' /\ FilesOk' /\ CatTyped'
  BY <1>1, <1>2 DEF CatInv, TagsOk, FilesOk, Cat!Resolves, Cat!HasFile, CatTyped, Published,
                    Cat!Absent, Cat!Versions, Cat!NoFile
<1> QED  BY <1>5, <1>6 DEF CatInv

LEMMA CatReceive ==
    ASSUME NEW r \in Requests, NEW by \in Creds, CatInv, Cat!Receive(r, by)
    PROVE  CatInv'
<1>1. CASE Cat!RemoveAll(r, by)
  <2> DEFINE what == [vs |-> Cat!Existing, tags |-> {t \in Tags : tag[t] # 0}]
  <2>1. Cat!Go(r, "removeAll", what)
    BY <1>1 DEF Cat!RemoveAll
  <2>2. Knows([pc |-> "removeAll", aged |-> Cat!Fresh, what |-> what])
    BY NextPatchIs DEF Knows, Cat!Fresh
  <2> QED  BY <2>1, <2>2, CatGo
<1>2. ASSUME NEW filed \in BOOLEAN, Cat!Publish(r, by, filed) PROVE CatInv'
  <2> DEFINE pc == IF filed THEN "post" ELSE "create"
             what == [by |-> by.pipeline, v |-> Cat!NextPatch, file |-> IF filed THEN r ELSE Cat!NoFile]
  <2>1. Cat!Go(r, pc, what) /\ Cat!MayPublish(by) /\ Cat!NextPatch <= MaxVersions
    BY <1>2 DEF Cat!Publish
  <2>2. Cat!NextPatch \in Cat!Versions
    BY <2>1, NextPatchIs, CatalogAssumed DEF Cat!Versions, Cat!CatalogAssumption
  <2>3. by.pipeline \in PipelinesOf
    BY DEF PipelinesOf
  <2>4. catalog = "pipeline" \/ ~marred.owners => Cat!Owners \subseteq {by.pipeline}
    BY <2>1 DEF CatInv, OwnersOk, Cat!OneOwner, Cat!MayPublish, Cat!Owners
  <2>5. Knows([pc |-> pc, aged |-> Cat!Fresh, what |-> what])
    BY <2>2, <2>3, <2>4 DEF Knows, Cat!Fresh
  <2> QED  BY <2>1, <2>5, CatGo
<1>3. ASSUME NEW t \in Tags, Cat!SetTag(r, by, t) PROVE CatInv'
  <2>1. PICK v : Cat!MayTag(by, v) /\ Cat!Go(r, "tag", [t |-> t, v |-> v, found |-> tag[t] # 0])
    BY <1>3 DEF Cat!SetTag
  <2>2. Knows([pc |-> "tag", aged |-> Cat!Fresh, what |-> [t |-> t, v |-> v, found |-> tag[t] # 0]])
    BY <2>1 DEF Knows, Cat!MayTag
  <2> QED  BY <2>1, <2>2, CatGo
<1>4. ASSUME NEW t \in Tags, Cat!RemoveTag(r, by, t) PROVE CatInv'
  <2>1. Cat!Go(r, "untag", [t |-> t])
    BY <1>4 DEF Cat!RemoveTag
  <2>2. Knows([pc |-> "untag", aged |-> Cat!Fresh, what |-> [t |-> t]])
    BY DEF Knows
  <2> QED  BY <2>1, <2>2, CatGo
<1>5. ASSUME NEW v \in Cat!Versions, Cat!RemoveVersion(r, by, v) PROVE CatInv'
  <2> DEFINE what == [v |-> v, latest |-> Cat!IsLatest(v), tags |-> {t \in Tags : tag[t] = v}]
  <2>1. v \in Cat!Existing /\ Cat!Go(r, "remove", what)
    BY <1>5 DEF Cat!RemoveVersion
  <2>2. catalog # "command" => (Called(v) <=> Cat!IsLatest(v))
    BY CatalogAssumed DEF Called, Cat!IsLatest, CatInv, CatTyped, Cat!CatalogAssumption
  <2>3. Knows([pc |-> "remove", aged |-> Cat!Fresh, what |-> what])
    BY <2>1, <2>2 DEF Knows, Cat!Fresh
  <2> QED  BY <2>1, <2>3, CatGo
<1>6. ASSUME NEW b \in BOOLEAN, Cat!Trust(r, by, b) PROVE CatInv'
  <2>1. CASE catalog = "pipeline"
    <3>1. meta # Cat!Absent /\ Cat!Go(r, "trust", [b |-> b, v |-> 0])
      BY <1>6, <2>1 DEF Cat!Trust
    <3>2. Knows([pc |-> "trust", aged |-> Cat!Fresh, what |-> [b |-> b, v |-> 0]])
      BY <2>1, <3>1 DEF Knows
    <3> QED  BY <3>1, <3>2, CatGo
  <2>2. CASE catalog # "pipeline"
    <3>1. PICK v \in Cat!Existing : Cat!Go(r, "trust", [b |-> b, v |-> v])
      BY <1>6, <2>2 DEF Cat!Trust
    <3>2. Knows([pc |-> "trust", aged |-> Cat!Fresh, what |-> [b |-> b, v |-> v]])
      BY <3>1, NextPatchIs DEF Knows
    <3> QED  BY <3>1, <3>2, CatGo
  <2> QED  BY <2>1, <2>2
<1> QED  BY <1>1, <1>2, <1>3, <1>4, <1>5, <1>6 DEF Cat!Receive

LEMMA CatFail ==
    ASSUME NEW r \in Requests, CatInv, Cat!Fail(r)
    PROVE  CatInv'
<1>1. /\ UNCHANGED <<catalog, crow, tag, meta, store>> /\ creq' = Cat!After(r, Cat!Idle, Cat!Fresh)
      /\ marred' = [marred EXCEPT !.latest = @ \/ creq[r].pc \in {"list", "promote"}]
  BY DEF Cat!Fail, Cat!Answer
<1>2. /\ Cat!Existing' = Cat!Existing /\ Cat!Owners' = Cat!Owners
      /\ \A v : Called(v)' <=> Called(v)
  BY <1>1, Untouched
<1>3. CatTyped' /\ marred'.owners = marred.owners /\ (marred.latest => marred'.latest)
      /\ (creq[r].pc \in Seek => marred'.latest) /\ marred'.tags = marred.tags /\ marred'.files = marred.files
  BY <1>1 DEF CatInv, CatTyped, Published, Cat!Absent, Cat!Versions, Cat!NoFile, Seek
<1>4. Well(Cat!Idle)' /\ Cat!Fresh.by = {} /\ Cat!Fresh.gone = {}
  BY DEF Well, Cat!Idle, Cat!Fresh
<1>5. DOMAIN creq' = Requests /\ (\A o \in Requests : Well(creq[o])') /\ OwnersOk' /\ LatestOk'
  BY <1>1, <1>2, <1>3, <1>4, RowsKept
<1>6. TagsOk' /\ FilesOk'
  BY <1>1, <1>2, <1>3 DEF CatInv, TagsOk, FilesOk, Cat!Resolves, Cat!HasFile
<1> QED  BY <1>3, <1>5, <1>6 DEF CatInv

LEMMA CatPostFile ==
    ASSUME NEW r \in Requests, CatInv, Cat!PostFile(r)
    PROVE  CatInv'
<1>1. PICK x : x = creq[r]
  OBVIOUS
<1> DEFINE v == x.what.v
           change == [Cat!Fresh EXCEPT !.files = {v}]
<1>2. PICK new : new = [x EXCEPT !.pc = "create"]
  OBVIOUS
<1>3. /\ x.pc = "post" /\ UNCHANGED <<catalog, crow, tag, meta>>
      /\ store' = [store EXCEPT ![v] = x.what.file]
      /\ marred' = [marred EXCEPT !.files = IF x.aged.by # {} \/ x.aged.gone # {} THEN @ \cup {v} ELSE @]
      /\ creq' = Cat!After(r, new, change)
  BY <1>1, <1>2 DEF Cat!PostFile, Cat!What, Cat!Aged, Cat!Renumbered, Cat!Move
<1>4. /\ Cat!Existing' = Cat!Existing /\ Cat!Owners' = Cat!Owners /\ Cat!NextPatch' = Cat!NextPatch
      /\ \A w : Called(w)' <=> Called(w)
  BY <1>3, Untouched
<1>5. DOMAIN x = {"pc", "aged", "what"} /\ DOMAIN x.aged = DOMAIN Cat!Fresh /\ Knows(x)
  BY <1>1, <1>3 DEF CatInv, Well, Cat!Idle
<1>6. /\ marred'.owners = marred.owners /\ marred'.latest = marred.latest /\ marred'.tags = marred.tags
      /\ marred'.files = IF x.aged.by # {} \/ x.aged.gone # {} THEN marred.files \cup {v} ELSE marred.files
  BY <1>3 DEF CatInv, CatTyped
<1>7. CatTyped'
  BY <1>3, <1>6 DEF CatInv, CatTyped, Published, Cat!Absent, Cat!Versions, Cat!NoFile
<1>8. v \in Cat!Versions /\ store'[v] = x.what.file /\ \A w \in Cat!Versions \ {v} : store'[w] = store[w]
  BY <1>3, <1>5 DEF Knows, CatInv, CatTyped
<1>9. Well(new)'
  <2>1. DOMAIN new = {"pc", "aged", "what"} /\ new.pc = "create" /\ new.aged = x.aged /\ new.what = x.what
    BY <1>2, <1>5
  <2> QED  BY <1>3, <1>4, <1>5, <1>6, <1>8, <2>1 DEF Well, Knows, Cat!Fresh, Cat!Versions, Cat!NoFile, PipelinesOf
<1>10. change.by = {} /\ change.gone = {} /\ change.files = {v}
  BY DEF Cat!Fresh
<1>11. DOMAIN creq' = Requests /\ (\A o \in Requests : Well(creq[o])') /\ OwnersOk' /\ LatestOk'
  <2>1. PICK c : c = change
    OBVIOUS
  <2>2. creq[r].pc \notin Seek
    BY <1>1, <1>3 DEF Seek
  <2> HIDE DEF change
  <2> QED  BY <1>3, <1>4, <1>6, <1>8, <1>9, <1>10, <2>1, <2>2, RowsKept
<1>12. TagsOk'
  BY <1>3, <1>4, <1>6 DEF CatInv, TagsOk, Cat!Resolves
<1>13. FilesOk'
  <2>1. v \notin Cat!Existing \/ v \in marred'.files
    BY <1>3, <1>5, <1>6, NextPatchIs DEF Knows
  <2> QED  BY <1>3, <1>4, <1>6, <1>8, <2>1 DEF CatInv, FilesOk, Cat!HasFile, Cat!Existing
<1> QED  BY <1>7, <1>11, <1>12, <1>13 DEF CatInv

LEMMA CatWriteTag ==
    ASSUME NEW r \in Requests, CatInv, Cat!WriteTag(r)
    PROVE  CatInv'
<1>1. PICK x : x = creq[r]
  OBVIOUS
<1> DEFINE t == x.what.t
           v == x.what.v
           change == [Cat!Fresh EXCEPT !.tags = {t}]
<1>2. /\ x.pc = "tag" /\ UNCHANGED <<catalog, crow, meta, store>>
      /\ creq' = Cat!After(r, Cat!Idle, change)
      /\ \/ tag' = tag /\ marred' = marred
         \/ /\ tag' = [tag EXCEPT ![t] = v]
            /\ marred' = [marred EXCEPT !.tags = IF v \in x.aged.gone THEN @ \cup {t} ELSE @ \ {t}]
  BY <1>1 DEF Cat!WriteTag, Cat!What, Cat!Aged, Cat!Answer
<1>3. /\ Cat!Existing' = Cat!Existing /\ Cat!Owners' = Cat!Owners
      /\ \A w : Called(w)' <=> Called(w)
  BY <1>2, Untouched
<1>4. v \in x.aged.gone \/ v \in Cat!Existing
  BY <1>1, <1>2 DEF CatInv, Well, Cat!Idle, Knows
<1>5. marred'.owners = marred.owners /\ marred'.latest = marred.latest /\ marred'.files = marred.files
  BY <1>2 DEF CatInv, CatTyped
<1>6. CatTyped'
  BY <1>2, <1>5 DEF CatInv, CatTyped, Published, Cat!Absent, Cat!Versions, Cat!NoFile
<1>7. Well(Cat!Idle)' /\ change.by = {} /\ change.gone = {} /\ change.tags = {t} /\ creq[r].pc \notin Seek
  BY <1>1, <1>2 DEF Well, Cat!Idle, Cat!Fresh, Seek
<1>8. DOMAIN creq' = Requests /\ (\A o \in Requests : Well(creq[o])') /\ OwnersOk' /\ LatestOk'
  <2>1. PICK c : c = change
    OBVIOUS
  <2>2. \A u \in Tags \ {t} : tag'[u] = tag[u]
    BY <1>2 DEF CatInv, CatTyped
  <2> HIDE DEF change
  <2> QED  BY <1>2, <1>3, <1>5, <1>7, <2>1, <2>2, RowsKept
<1>9. TagsOk'
  BY <1>2, <1>3, <1>4 DEF CatInv, CatTyped, TagsOk, Cat!Resolves
<1>10. FilesOk'
  BY <1>2, <1>3, <1>5 DEF CatInv, FilesOk, Cat!HasFile
<1> QED  BY <1>6, <1>8, <1>9, <1>10 DEF CatInv

LEMMA CatWriteRemoveTag ==
    ASSUME NEW r \in Requests, CatInv, Cat!WriteRemoveTag(r)
    PROVE  CatInv'
<1>1. PICK t : t = creq[r].what.t
  OBVIOUS
<1> DEFINE change == [Cat!Fresh EXCEPT !.tags = {t}, !.freed = {t}]
<1>2. /\ creq[r].pc = "untag" /\ UNCHANGED <<catalog, crow, meta, store, marred>>
      /\ creq' = Cat!After(r, Cat!Idle, change)
      /\ tag' = tag \/ tag' = [tag EXCEPT ![t] = 0]
  BY <1>1 DEF Cat!WriteRemoveTag, Cat!What, Cat!Aged, Cat!Answer
<1>3. /\ Cat!Existing' = Cat!Existing /\ Cat!Owners' = Cat!Owners
      /\ \A w : Called(w)' <=> Called(w)
  BY <1>2, Untouched
<1>4. CatTyped'
  BY <1>2 DEF CatInv, CatTyped, Published, Cat!Absent, Cat!Versions, Cat!NoFile
<1>5. Well(Cat!Idle)' /\ change.by = {} /\ change.gone = {} /\ change.tags = {t} /\ creq[r].pc \notin Seek
  BY <1>2 DEF Well, Cat!Idle, Cat!Fresh, Seek
<1>6. DOMAIN creq' = Requests /\ (\A o \in Requests : Well(creq[o])') /\ OwnersOk' /\ LatestOk'
  <2>1. PICK c : c = change
    OBVIOUS
  <2>2. \A u \in Tags \ {t} : tag'[u] = tag[u]
    BY <1>2 DEF CatInv, CatTyped
  <2> HIDE DEF change
  <2> QED  BY <1>2, <1>3, <1>5, <2>1, <2>2, RowsKept
<1>7. TagsOk' /\ FilesOk'
  BY <1>2, <1>3 DEF CatInv, CatTyped, TagsOk, Cat!Resolves, FilesOk, Cat!HasFile
<1> QED  BY <1>4, <1>6, <1>7 DEF CatInv

LEMMA CatListNewest ==
    ASSUME NEW r \in Requests, CatInv, Cat!ListNewest(r)
    PROVE  CatInv'
<1>1. PICK new : new = IF Cat!Existing = {} THEN Cat!Idle
                       ELSE [pc |-> "promote", aged |-> Cat!Fresh, what |-> [v |-> Cat!Newest(Cat!Existing)]]
  OBVIOUS
<1>2. UNCHANGED <<catalog, crow, tag, meta, store, marred>> /\ creq' = Cat!After(r, new, Cat!Fresh)
  BY <1>1 DEF Cat!ListNewest
<1>3. /\ Cat!Existing' = Cat!Existing /\ Cat!Owners' = Cat!Owners
      /\ \A w : Called(w)' <=> Called(w)
  BY <1>2, Untouched
<1>4. Well(new)'
  <2>1. CASE Cat!Existing = {}
    BY <1>1, <2>1 DEF Well
  <2>2. CASE Cat!Existing # {}
    <3>1. catalog = "pipeline" => meta # Cat!Absent
      BY <2>2 DEF Cat!Existing
    <3> QED  BY <1>1, <1>2, <1>3, <2>2, <3>1, NextPatchIs DEF Well, Knows, Cat!Fresh, Cat!Versions, Cat!Absent
  <2> QED  BY <2>1, <2>2
<1>5. CatTyped'
  BY <1>2 DEF CatInv, CatTyped, Published, Cat!Absent, Cat!Versions, Cat!NoFile
<1>6. Cat!Fresh.by = {} /\ Cat!Fresh.gone = {} /\ (new.pc \in Seek \/ Cat!Existing = {})
  BY <1>1 DEF Cat!Fresh, Seek
<1>7. DOMAIN creq' = Requests /\ (\A o \in Requests : Well(creq[o])') /\ OwnersOk' /\ LatestOk'
  BY <1>2, <1>3, <1>4, <1>6, RowsKept
<1>8. TagsOk' /\ FilesOk'
  BY <1>2, <1>3 DEF CatInv, TagsOk, Cat!Resolves, FilesOk, Cat!HasFile
<1> QED  BY <1>5, <1>7, <1>8 DEF CatInv

LEMMA CatWriteTrust ==
    ASSUME NEW r \in Requests, CatInv, Cat!WriteTrust(r)
    PROVE  CatInv'
<1>1. PICK x : x = creq[r]
  OBVIOUS
<1> DEFINE b == x.what.b
           v == x.what.v
<1>2. /\ x.pc = "trust" /\ UNCHANGED <<catalog, tag, store, marred>>
      /\ creq' = Cat!After(r, Cat!Idle, Cat!Fresh)
      /\ crow' = IF v # 0 /\ v \notin x.aged.gone THEN [crow EXCEPT ![v].trusted = b] ELSE crow
      /\ meta' = IF v # 0 \/ 0 \in x.aged.gone THEN meta
                 ELSE [meta EXCEPT !.since = IF ~b THEN 0 ELSE IF @ = 0 THEN meta.latest ELSE @]
  BY <1>1 DEF Cat!WriteTrust, Cat!What, Cat!Aged, Cat!Answer
<1>3. /\ b \in BOOLEAN /\ (v = 0 \/ v \in x.aged.gone \/ v \in Cat!Existing)
      /\ v = 0 => catalog = "pipeline" /\ (0 \notin x.aged.gone => meta # Cat!Absent)
  BY <1>1, <1>2 DEF CatInv, Well, Cat!Idle, Knows
<1>4. /\ meta # Cat!Absent <=> meta' # Cat!Absent
      /\ meta' # Cat!Absent => DOMAIN meta' = {"owner", "latest", "since"}
      /\ meta # Cat!Absent => meta'.owner = meta.owner /\ meta'.latest = meta.latest
  BY <1>2, <1>3 DEF CatInv, CatTyped, Cat!Absent
<1>5. /\ crow' \in [Cat!Versions -> Published \cup {Cat!Absent}]
      /\ \A w \in Cat!Versions :
           /\ crow'[w] # Cat!Absent <=> crow[w] # Cat!Absent
           /\ crow[w] # Cat!Absent =>
                crow'[w].owner = crow[w].owner /\ crow'[w].latest = crow[w].latest /\ crow'[w].file = crow[w].file
  <2>1. CASE v # 0 /\ v \notin x.aged.gone
    <3>1. v \in Cat!Versions /\ crow[v] \in Published
      BY <1>3, <2>1, NextPatchIs DEF CatInv, CatTyped
    <3>2. PICK c : c = [crow[v] EXCEPT !.trusted = b]
      OBVIOUS
    <3>3. /\ c \in Published /\ c.owner = crow[v].owner /\ c.latest = crow[v].latest /\ c.file = crow[v].file
          /\ c # Cat!Absent
      BY <1>3, <3>1, <3>2, PublishedIs DEF Published
    <3>4. crow' = [crow EXCEPT ![v] = c]
      BY <1>2, <2>1, <3>2
    <3> QED  BY <3>1, <3>3, <3>4, PublishedIs DEF CatInv, CatTyped
  <2>2. CASE ~(v # 0 /\ v \notin x.aged.gone)
    BY <1>2, <2>2 DEF CatInv, CatTyped
  <2> QED  BY <2>1, <2>2
<1>6. Cat!Existing' = Cat!Existing
  BY <1>2, <1>4, <1>5 DEF Cat!Existing, Cat!Versions
<1>7. Cat!Owners' = Cat!Owners
  <2>1. \A w \in Cat!Existing : crow'[w].owner = crow[w].owner
    BY <1>5, NextPatchIs
  <2>2. CASE catalog = "pipeline"
    BY <1>2, <1>4, <2>2 DEF Cat!Owners
  <2>3. CASE catalog # "pipeline"
    <3>1. \A o : o \in Cat!Owners' <=> \E w \in Cat!Existing : o = crow'[w].owner
      BY <1>2, <1>6, <2>3 DEF Cat!Owners
    <3>2. \A o : o \in Cat!Owners <=> \E w \in Cat!Existing : o = crow[w].owner
      BY <2>3 DEF Cat!Owners
    <3> QED  BY <2>1, <3>1, <3>2
  <2> QED  BY <2>2, <2>3
<1>8. \A w \in Cat!Existing : Called(w)' <=> Called(w)
  BY <1>2, <1>4, <1>5, NextPatchIs DEF Called, Cat!Existing
<1>9. CatTyped'
  BY <1>2, <1>4, <1>5 DEF CatInv, CatTyped, Published, Cat!Absent, Cat!Versions, Cat!NoFile
<1>10. Well(Cat!Idle)' /\ Cat!Fresh.by = {} /\ Cat!Fresh.gone = {} /\ creq[r].pc \notin Seek
  BY <1>1, <1>2 DEF Well, Cat!Idle, Cat!Fresh, Seek
<1>11. DOMAIN creq' = Requests /\ (\A o \in Requests : Well(creq[o])') /\ OwnersOk' /\ LatestOk'
  BY <1>2, <1>4, <1>6, <1>7, <1>8, <1>10, RowsKept
<1>12. TagsOk'
  BY <1>2, <1>6 DEF CatInv, TagsOk, Cat!Resolves
<1>13. FilesOk'
  BY <1>2, <1>5, <1>6, NextPatchIs DEF CatInv, FilesOk, Cat!HasFile
<1> QED  BY <1>9, <1>11, <1>12, <1>13 DEF CatInv

LEMMA CatCreate ==
    ASSUME NEW r \in Requests, CatInv, Cat!Create(r)
    PROVE  CatInv'
<1>1. PICK x : x = creq[r]
  OBVIOUS
<1>2. PICK n : n = Cat!NextPatch
  OBVIOUS
<1> DEFINE by   == x.what.by
           torn == x.aged.by # {} \/ x.aged.gone # {} \/ x.what.v \in x.aged.files
           fill == [owner |-> by, latest |-> TRUE, trusted |-> FALSE, file |-> x.what.file]
           change == [Cat!Fresh EXCEPT !.by = {by}]
<1>3. /\ x.pc = "create" /\ n <= MaxVersions /\ UNCHANGED <<catalog, tag, store>>
      /\ crow' = [w \in Cat!Versions |-> IF w = n THEN fill
                    ELSE IF w \in Cat!Existing THEN [crow[w] EXCEPT !.latest = FALSE] ELSE Cat!Absent]
      /\ meta' = IF catalog # "pipeline" THEN meta
                 ELSE IF meta = Cat!Absent THEN [owner |-> by, latest |-> n, since |-> 0]
                 ELSE [meta EXCEPT !.latest = n]
      /\ marred' = [marred EXCEPT !.owners = Cat!Existing # {} /\ (@ \/ x.aged.by \ {by} # {}),
                                  !.latest = FALSE,
                                  !.files = IF torn THEN @ \cup {n} ELSE @ \ {n}]
      /\ creq' = Cat!After(r, Cat!Idle, change)
  BY <1>1, <1>2 DEF Cat!Create, Cat!What, Cat!Aged, Cat!Renumbered, Cat!Answer
<1>4. Knows(x)
  BY <1>1, <1>3 DEF CatInv, Well, Cat!Idle
<1>5. n \in Cat!Versions /\ n \notin Cat!Existing /\ n \in Nat /\ \A w \in Cat!Existing : w < n
  BY <1>2, <1>3, NextPatchIs, CatalogAssumed DEF Cat!Versions, Cat!CatalogAssumption
<1>6. fill \in Published /\ fill # Cat!Absent
  BY <1>3, <1>4, PublishedIs DEF Knows, Published
<1>7. \A w \in Cat!Existing : /\ crow'[w] \in Published /\ crow'[w].latest = FALSE
                              /\ crow'[w].owner = crow[w].owner /\ crow'[w].file = crow[w].file
  <2>1. ASSUME NEW w \in Cat!Existing
        PROVE  /\ crow'[w] \in Published /\ crow'[w].latest = FALSE
               /\ crow'[w].owner = crow[w].owner /\ crow'[w].file = crow[w].file
    <3>1. w \in Cat!Versions /\ w # n /\ crow[w] \in Published
      BY <1>5, NextPatchIs DEF CatInv, CatTyped
    <3>2. crow'[w] = [crow[w] EXCEPT !.latest = FALSE]
      BY <1>3, <3>1
    <3> QED  BY <3>1, <3>2 DEF Published
  <2> QED  BY <2>1
<1>8. crow'[n] = fill /\ \A w \in Cat!Versions : w # n /\ w \notin Cat!Existing => crow'[w] = Cat!Absent
  BY <1>3, <1>5
<1> HIDE DEF fill
<1>9. /\ catalog = "pipeline" => meta' # Cat!Absent /\ meta'.latest = n
      /\ meta' # Cat!Absent => DOMAIN meta' = {"owner", "latest", "since"}
      /\ meta # Cat!Absent => meta' # Cat!Absent /\ meta'.owner = meta.owner
      /\ catalog = "pipeline" /\ meta = Cat!Absent => meta'.owner = by
  BY <1>3 DEF CatInv, CatTyped, Cat!Absent
<1>10. /\ marred'.owners = (Cat!Existing # {} /\ (marred.owners \/ x.aged.by \ {by} # {})) /\ ~marred'.latest
       /\ marred'.files = (IF torn THEN marred.files \cup {n} ELSE marred.files \ {n}) /\ marred'.tags = marred.tags
       /\ DOMAIN marred' = {"owners", "latest", "tags", "files"}
       /\ marred'.latest \in BOOLEAN /\ marred'.owners \in BOOLEAN
  BY <1>3 DEF CatInv, CatTyped
<1>11. CatTyped'
  <2>1. crow' \in [Cat!Versions -> Published \cup {Cat!Absent}]
    BY <1>3, <1>5, <1>6, <1>7, <1>8
  <2> QED  BY <1>3, <1>9, <1>10, <2>1 DEF CatInv, CatTyped, Published, Cat!Absent, Cat!Versions, Cat!NoFile
<1>12. Cat!Existing' = Cat!Existing \cup {n}
  <2>1. ASSUME NEW w \in Cat!Versions PROVE w \in Cat!Existing' <=> w \in Cat!Existing \cup {n}
    BY <1>3, <1>5, <1>6, <1>7, <1>8, <1>9, PublishedIs DEF Cat!Existing, Cat!Versions, Cat!Absent
  <2> QED  BY <1>5, <2>1 DEF Cat!Existing, Cat!Versions
<1>13. /\ Cat!Owners' \subseteq Cat!Owners \cup {by}
       /\ catalog # "pipeline" /\ Cat!Existing = {} => Cat!Owners' \subseteq {by}
  <2>1. CASE catalog = "pipeline"
    BY <1>3, <1>9, <2>1 DEF Cat!Owners
  <2>2. CASE catalog # "pipeline"
    <3>1. \A o : o \in Cat!Owners' <=> \E w \in Cat!Existing \cup {n} : o = crow'[w].owner
      BY <1>3, <1>12, <2>2 DEF Cat!Owners
    <3>2. \A o : o \in Cat!Owners <=> \E w \in Cat!Existing : o = crow[w].owner
      BY <2>2 DEF Cat!Owners
    <3>3. crow'[n].owner = by
      BY <1>8 DEF fill
    <3> QED  BY <1>7, <2>2, <3>1, <3>2, <3>3
  <2> QED  BY <2>1, <2>2
<1>14. \A w \in Cat!Existing' : Called(w)' <=> w = n
  <2>1. CASE catalog = "pipeline"
    BY <1>3, <1>9, <2>1 DEF Called
  <2>2. CASE catalog # "pipeline"
    <3>1. \A w : Called(w)' <=> crow'[w].latest
      BY <1>3, <2>2 DEF Called
    <3>2. crow'[n].latest = TRUE
      BY <1>8 DEF fill
    <3> QED  BY <1>5, <1>7, <1>12, <3>1, <3>2
  <2> QED  BY <2>1, <2>2
<1>15. PICK c : c = change
  OBVIOUS
<1>16. DOMAIN creq' = Requests /\ (\A o \in Requests : Well(creq[o])')
  <2>1. c.by = {by} /\ c.gone = {} /\ c.lifted = {} /\ c.tags = {} /\ c.files = {}
    BY <1>15 DEF Cat!Fresh
  <2>2. marred.owners /\ ~marred'.owners => Cat!Existing = {}
    BY <1>10
  <2>3. catalog' = catalog /\ tag' = tag /\ store' = store
    BY <1>3
  <2>4. \A w \in Cat!Existing : ~Called(w)'
    BY <1>5, <1>12, <1>14
  <2>5. Described(c)
    BY <1>5, <1>9, <1>12, <1>13, <2>1, <2>2, <2>3, <2>4 DEF Described
  <2>6. Well(Cat!Idle)' /\ creq' = Cat!After(r, Cat!Idle, c)
    BY <1>3, <1>15 DEF Well, Cat!Idle
  <2> QED  BY <2>5, <2>6, AllWell DEF CatInv
<1>17. OwnersOk'
  <2>1. CASE catalog = "pipeline"
    BY <1>3, <2>1 DEF OwnersOk, Cat!OneOwner, Cat!Owners
  <2>2. CASE catalog # "pipeline" /\ ~marred'.owners
    <3>1. Cat!Owners' \subseteq {by}
      BY <1>3, <1>4, <1>10, <1>13, <2>2 DEF Knows
    <3> QED  BY <3>1 DEF OwnersOk, Cat!OneOwner
  <2> QED  BY <2>1, <2>2 DEF OwnersOk
<1>18. TagsOk'
  BY <1>3, <1>10, <1>12 DEF CatInv, TagsOk, Cat!Resolves
<1>19. LatestOk'
  BY <1>5, <1>12, <1>14, NextPatchIs DEF LatestOk
<1>20. FilesOk'
  <2> SUFFICES ASSUME NEW w \in Cat!Existing', w \notin marred'.files, catalog = "command" PROVE Cat!HasFile(w)'
    BY <1>3 DEF FilesOk
  <2>1. CASE w \in Cat!Existing
    BY <1>3, <1>5, <1>7, <1>10, <2>1 DEF CatInv, FilesOk, Cat!HasFile
  <2>2. CASE w = n
    <3>1. x.what.v = n /\ n \notin x.aged.files
      BY <1>2, <1>3, <1>4, <1>10, <2>2 DEF Knows
    <3> QED  BY <1>3, <1>4, <1>8, <2>2, <3>1 DEF Knows, Cat!HasFile, fill
  <2> QED  BY <1>12, <2>1, <2>2
<1> QED  BY <1>11, <1>16, <1>17, <1>18, <1>19, <1>20 DEF CatInv

LEMMA CatPromote ==
    ASSUME NEW r \in Requests, CatInv, Cat!Promote(r)
    PROVE  CatInv'
<1>1. PICK x : x = creq[r]
  OBVIOUS
<1> DEFINE v == x.what.v
<1>2. PICK c : c = [Cat!Fresh EXCEPT !.lifted = {v}]
  OBVIOUS
<1>3. /\ x.pc = "promote" /\ UNCHANGED <<catalog, tag, store>>
      /\ crow' = IF catalog = "template" /\ v \notin x.aged.gone THEN [crow EXCEPT ![v].latest = TRUE] ELSE crow
      /\ meta' = IF catalog = "pipeline" /\ 0 \notin x.aged.gone THEN [meta EXCEPT !.latest = v] ELSE meta
      /\ marred' = [marred EXCEPT !.latest = @ \/ x.aged.by # {} \/ x.aged.gone # {}]
      /\ creq' = Cat!After(r, Cat!Idle, c)
  BY <1>1, <1>2 DEF Cat!Promote, Cat!What, Cat!Aged, Cat!Renumbered, Cat!Answer
<1>4. /\ v \in Cat!Versions /\ (v \in x.aged.gone \/ v \in Cat!Existing)
      /\ x.aged.by = {} /\ x.aged.gone = {} => \A w \in Cat!Existing : w <= v
      /\ catalog = "pipeline" /\ 0 \notin x.aged.gone => meta # Cat!Absent
  BY <1>1, <1>3 DEF CatInv, Well, Cat!Idle, Knows
<1>5. /\ meta # Cat!Absent <=> meta' # Cat!Absent
      /\ meta' # Cat!Absent => DOMAIN meta' = {"owner", "latest", "since"}
      /\ meta # Cat!Absent => meta'.owner = meta.owner
      /\ catalog = "pipeline" /\ 0 \notin x.aged.gone => meta'.latest = v
  BY <1>3, <1>4 DEF CatInv, CatTyped, Cat!Absent
<1>6. /\ crow' \in [Cat!Versions -> Published \cup {Cat!Absent}]
      /\ \A w \in Cat!Versions :
           /\ crow'[w] # Cat!Absent <=> crow[w] # Cat!Absent
           /\ crow[w] # Cat!Absent => crow'[w].owner = crow[w].owner /\ crow'[w].file = crow[w].file
      /\ \A w \in Cat!Versions \ {v} : crow'[w] = crow[w]
      /\ catalog = "template" /\ v \notin x.aged.gone => crow'[v].latest = TRUE
  <2>1. CASE catalog = "template" /\ v \notin x.aged.gone
    <3>1. crow[v] \in Published
      BY <1>4, <2>1, NextPatchIs DEF CatInv, CatTyped
    <3>2. PICK n : n = [crow[v] EXCEPT !.latest = TRUE]
      OBVIOUS
    <3>3. /\ n \in Published /\ n.owner = crow[v].owner /\ n.file = crow[v].file /\ n.latest = TRUE
          /\ n # Cat!Absent
      BY <3>1, <3>2, PublishedIs DEF Published
    <3>4. crow' = [crow EXCEPT ![v] = n]
      BY <1>3, <2>1, <3>2
    <3> QED  BY <1>4, <3>1, <3>3, <3>4, PublishedIs DEF CatInv, CatTyped
  <2>2. CASE ~(catalog = "template" /\ v \notin x.aged.gone)
    BY <1>3, <2>2 DEF CatInv, CatTyped
  <2> QED  BY <2>1, <2>2
<1>7. Cat!Existing' = Cat!Existing
  BY <1>3, <1>5, <1>6 DEF Cat!Existing, Cat!Versions
<1>8. Cat!Owners' = Cat!Owners
  <2>1. CASE catalog = "pipeline"
    BY <1>3, <1>5, <2>1 DEF Cat!Owners
  <2>2. CASE catalog # "pipeline"
    <3>1. \A o : o \in Cat!Owners' <=> \E w \in Cat!Existing : o = crow'[w].owner
      BY <1>3, <1>7, <2>2 DEF Cat!Owners
    <3>2. \A o : o \in Cat!Owners <=> \E w \in Cat!Existing : o = crow[w].owner
      BY <2>2 DEF Cat!Owners
    <3>3. \A w \in Cat!Existing : crow'[w].owner = crow[w].owner
      BY <1>6, NextPatchIs
    <3> QED  BY <3>1, <3>2, <3>3
  <2> QED  BY <2>1, <2>2
<1>9. /\ \A w \in Cat!Existing \ {v} : Called(w)' => Called(w)
      /\ catalog # "command" /\ x.aged.gone = {} => Called(v)'
      /\ catalog = "command" /\ Called(v)' => Called(v)
  BY <1>3, <1>5, <1>6, NextPatchIs, CatalogAssumed
  DEF Called, CatInv, CatTyped, Cat!CatalogAssumption
<1>10. /\ marred'.owners = marred.owners /\ marred'.tags = marred.tags /\ marred'.files = marred.files
       /\ ~marred'.latest => ~marred.latest /\ x.aged.by = {} /\ x.aged.gone = {}
  BY <1>3 DEF CatInv, CatTyped
<1>11. CatTyped'
  BY <1>3, <1>5, <1>6 DEF CatInv, CatTyped, Published, Cat!Absent, Cat!Versions, Cat!NoFile
<1>12. DOMAIN creq' = Requests /\ (\A o \in Requests : Well(creq[o])')
  <2>1. c.by = {} /\ c.gone = {} /\ c.lifted = {v} /\ c.tags = {} /\ c.files = {}
    BY <1>2 DEF Cat!Fresh
  <2>2. Described(c)
    BY <1>3, <1>5, <1>7, <1>8, <1>9, <1>10, <2>1 DEF Described, Cat!NextPatch
  <2>3. Well(Cat!Idle)'
    BY DEF Well
  <2> QED  BY <1>3, <2>2, <2>3, AllWell DEF CatInv
<1>13. OwnersOk' /\ TagsOk'
  BY <1>3, <1>7, <1>8, <1>10 DEF CatInv, OwnersOk, Cat!OneOwner, TagsOk, Cat!Resolves
<1>14. LatestOk'
  <2> SUFFICES ASSUME ~marred'.latest
               PROVE  /\ \A u, w \in Cat!Existing : Called(u)' => w <= u
                      /\ catalog # "command" => \E u \in Cat!Existing : Called(u)'
    BY <1>3, <1>7 DEF LatestOk
  <2>1. v \in Cat!Existing /\ (\A w \in Cat!Existing : w <= v) /\ ~marred.latest /\ x.aged.gone = {}
    BY <1>4, <1>10
  <2> QED  BY <1>9, <2>1 DEF CatInv, LatestOk
<1>15. FilesOk'
  BY <1>3, <1>6, <1>7, <1>10, NextPatchIs DEF CatInv, FilesOk, Cat!HasFile
<1> QED  BY <1>11, <1>12, <1>13, <1>14, <1>15 DEF CatInv

LEMMA CatRemoveRow ==
    ASSUME NEW r \in Requests, CatInv, Cat!RemoveRow(r)
    PROVE  CatInv'
<1>1. PICK bad :
        LET v     == creq[r].what.v
            tags  == creq[r].what.tags
            hit   == <<"row", v>> \notin bad /\ v \notin creq[r].aged.gone
            freed == {t \in tags \ creq[r].aged.freed : <<"tag", t>> \notin bad}
            gone  == IF hit THEN {v} ELSE {}
            left  == {t \in creq[r].aged.tags \cup tags : tag[t] = v} \ freed
            on    == bad = {} /\ creq[r].what.latest
            change == [Cat!Fresh EXCEPT !.gone = gone, !.tags = freed, !.freed = freed]
        IN  /\ crow' = IF hit THEN [crow EXCEPT ![v] = Cat!Absent] ELSE crow
            /\ tag' = [t \in Tags |-> IF t \in freed THEN 0 ELSE tag[t]]
            /\ marred' = IF ~hit THEN marred
                         ELSE [marred EXCEPT !.tags = @ \cup left,
                                 !.latest = @ \/ (~on /\ (creq[r].what.latest \/ v \in creq[r].aged.lifted))]
            /\ creq' = Cat!After(r, IF on THEN [pc |-> "list", aged |-> Cat!Fresh, what |-> 0] ELSE Cat!Idle, change)
  BY DEF Cat!RemoveRow, Cat!What, Cat!Aged
<1>2. PICK x : x = creq[r]
  OBVIOUS
<1> DEFINE v    == x.what.v
           tags == x.what.tags
           on   == bad = {} /\ x.what.latest
<1> DEFINE hit == <<"row", v>> \notin bad /\ v \notin x.aged.gone
<1>3. PICK freed : freed = {t \in tags \ x.aged.freed : <<"tag", t>> \notin bad}
  OBVIOUS
<1>4. PICK gone : gone = IF hit THEN {v} ELSE {}
  OBVIOUS
<1>5. PICK c : c = [Cat!Fresh EXCEPT !.gone = gone, !.tags = freed, !.freed = freed]
  OBVIOUS
<1>6. PICK new : new = IF on THEN [pc |-> "list", aged |-> Cat!Fresh, what |-> 0] ELSE Cat!Idle
  OBVIOUS
<1>7. PICK left : left = {t \in x.aged.tags \cup tags : tag[t] = v} \ freed
  OBVIOUS
<1>8. /\ crow' = IF hit THEN [crow EXCEPT ![v] = Cat!Absent] ELSE crow
      /\ tag' = [t \in Tags |-> IF t \in freed THEN 0 ELSE tag[t]]
      /\ marred' = IF ~hit THEN marred
                   ELSE [marred EXCEPT !.tags = @ \cup left,
                                       !.latest = @ \/ (~on /\ (x.what.latest \/ v \in x.aged.lifted))]
      /\ creq' = Cat!After(r, new, c)
  BY <1>1, <1>2, <1>3, <1>4, <1>5, <1>6, <1>7
<1>9. x.pc = "remove" /\ UNCHANGED <<catalog, meta, store>>
  BY <1>2 DEF Cat!RemoveRow
<1>10. /\ v \in Cat!Versions /\ (v \in x.aged.gone \/ v \in Cat!Existing)
       /\ \A t \in Tags \ x.aged.tags : t \in tags <=> tag[t] = v
       /\ v \notin x.aged.gone \cup x.aged.lifted /\ ~x.what.latest /\ catalog # "command" => ~Called(v)
  BY <1>2, <1>9 DEF CatInv, Well, Cat!Idle, Knows
<1>11. hit => v \in Cat!Existing
  BY <1>10
<1> HIDE DEF hit, on
<1>12. /\ crow' \in [Cat!Versions -> Published \cup {Cat!Absent}]
       /\ hit => crow'[v] = Cat!Absent
       /\ \A w \in Cat!Versions \ gone : crow'[w] = crow[w]
  BY <1>4, <1>8, <1>10 DEF CatInv, CatTyped
<1>13. Cat!Existing' = Cat!Existing \ gone
  BY <1>4, <1>9, <1>12 DEF Cat!Existing, Cat!Versions
<1>14. Cat!Owners' \subseteq Cat!Owners
  <2>1. CASE catalog = "pipeline"
    BY <1>9, <2>1 DEF Cat!Owners
  <2>2. CASE catalog # "pipeline"
    <3>1. \A o : o \in Cat!Owners' <=> \E w \in Cat!Existing \ gone : o = crow'[w].owner
      BY <1>9, <1>13, <2>2 DEF Cat!Owners
    <3>2. \A o : o \in Cat!Owners <=> \E w \in Cat!Existing : o = crow[w].owner
      BY <2>2 DEF Cat!Owners
    <3> QED  BY <1>12, <3>1, <3>2, NextPatchIs
  <2> QED  BY <2>1, <2>2
<1>15. \A w \in Cat!Existing \ gone : Called(w)' <=> Called(w)
  BY <1>9, <1>12, NextPatchIs DEF Called
<1>16. /\ marred'.owners = marred.owners /\ marred'.files = marred.files
       /\ marred'.tags = IF hit THEN marred.tags \cup left ELSE marred.tags
       /\ ~marred'.latest => ~marred.latest /\ (hit => on \/ (~x.what.latest /\ v \notin x.aged.lifted))
       /\ DOMAIN marred' = {"owners", "latest", "tags", "files"}
       /\ marred'.owners \in BOOLEAN /\ marred'.latest \in BOOLEAN
  <2>1. CASE hit
    <3>1. PICK lost \in BOOLEAN : lost <=> ~on /\ (x.what.latest \/ v \in x.aged.lifted)
      OBVIOUS
    <3>2. marred' = [marred EXCEPT !.tags = @ \cup left, !.latest = @ \/ lost]
      BY <1>8, <2>1, <3>1
    <3>3. /\ marred'.tags = marred.tags \cup left /\ marred'.latest = (marred.latest \/ lost)
          /\ marred'.owners = marred.owners /\ marred'.files = marred.files
          /\ DOMAIN marred' = {"owners", "latest", "tags", "files"}
      BY <3>2 DEF CatInv, CatTyped
    <3>4. ~marred'.latest => ~marred.latest /\ ~lost
      BY <3>3
    <3>5. marred'.owners \in BOOLEAN /\ marred'.latest \in BOOLEAN
      BY <3>3 DEF CatInv, CatTyped
    <3>6. ~lost => on \/ (~x.what.latest /\ v \notin x.aged.lifted)
      BY <3>1
    <3>7. marred'.tags = IF hit THEN marred.tags \cup left ELSE marred.tags
      BY <2>1, <3>3
    <3>8. ~marred'.latest => ~marred.latest /\ (hit => on \/ (~x.what.latest /\ v \notin x.aged.lifted))
      BY <3>4, <3>6
    <3> QED  BY <3>3, <3>5, <3>7, <3>8
  <2>2. CASE ~hit
    BY <1>8, <2>2 DEF CatInv, CatTyped
  <2> QED  BY <2>1, <2>2
<1>17. CatTyped'
  BY <1>8, <1>9, <1>12, <1>16 DEF CatInv, CatTyped, Published, Cat!Absent, Cat!Versions, Cat!NoFile
<1>18. /\ DOMAIN creq' = Requests /\ (\A o \in Requests : Well(creq[o])')
       /\ Cat!Seeking => Cat!Seeking'
       /\ on => Cat!Seeking'
  <2>1. c.by = {} /\ c.gone = gone /\ c.tags = freed
    BY <1>5 DEF Cat!Fresh
  <2>2. Described(c)
    BY <1>8, <1>9, <1>13, <1>14, <1>15, <1>16, <2>1 DEF Described, Cat!NextPatch
  <2>3. Well(new)' /\ (on => new.pc \in Seek) /\ creq[r].pc \notin Seek
    BY <1>2, <1>6, <1>9 DEF Well, Knows, Seek, Cat!Fresh
  <2> QED  BY <1>8, <2>2, <2>3, AllWell DEF CatInv
<1>19. OwnersOk'
  BY <1>14, <1>16 DEF CatInv, OwnersOk, Cat!OneOwner
<1>20. TagsOk'
  <2> SUFFICES ASSUME NEW t \in Tags, t \notin marred'.tags, tag'[t] # 0 PROVE tag'[t] \in Cat!Existing \ gone
    BY <1>13 DEF TagsOk, Cat!Resolves
  <2>1. t \notin freed /\ tag'[t] = tag[t] /\ tag[t] # 0
    BY <1>8
  <2>2. tag[t] \in Cat!Existing
    BY <1>16, <2>1 DEF CatInv, TagsOk, Cat!Resolves
  <2>3. hit => tag[t] # v
    BY <1>7, <1>10, <1>16, <2>1
  <2> QED  BY <1>4, <2>1, <2>2, <2>3
<1>21. LatestOk'
  <2> SUFFICES ASSUME ~marred'.latest
               PROVE  /\ \A u, w \in Cat!Existing \ gone : Called(u) => w <= u
                      /\ catalog # "command" /\ Cat!Existing \ gone # {} /\ ~Cat!Seeking' =>
                           \E u \in Cat!Existing \ gone : Called(u)
    BY <1>9, <1>13, <1>15 DEF LatestOk
  <2>1. ~marred.latest /\ (hit => on \/ (~x.what.latest /\ v \notin x.aged.lifted))
    BY <1>16
  <2>2. \A u, w \in Cat!Existing \ gone : Called(u) => w <= u
    BY <2>1 DEF CatInv, LatestOk
  <2>3. ASSUME catalog # "command", Cat!Existing \ gone # {}, ~Cat!Seeking'
        PROVE  \E u \in Cat!Existing \ gone : Called(u)
    <3>1. ~on /\ ~Cat!Seeking
      BY <1>18, <2>3
    <3>2. PICK u \in Cat!Existing : Called(u)
      BY <2>1, <2>3, <3>1 DEF CatInv, LatestOk
    <3>3. hit => u # v
      BY <1>10, <2>1, <2>3, <3>1, <3>2 DEF hit
    <3> QED  BY <1>4, <3>2, <3>3
  <2> QED  BY <2>2, <2>3
<1>22. FilesOk'
  BY <1>9, <1>12, <1>13, <1>16, NextPatchIs DEF CatInv, FilesOk, Cat!HasFile
<1> QED  BY <1>17, <1>18, <1>19, <1>20, <1>21, <1>22 DEF CatInv

LEMMA CatRemoveRows ==
    ASSUME NEW r \in Requests, CatInv, Cat!RemoveRows(r)
    PROVE  CatInv'
<1>1. PICK bad :
        LET vs    == creq[r].what.vs
            tags  == creq[r].what.tags
            files == {v \in vs : catalog = "command" /\ <<"file", v>> \notin bad}
            stay  == {v \in vs : <<"row", v>> \in bad \/ (catalog = "command" /\ <<"file", v>> \in bad)}
            rows  == (vs \ stay) \ creq[r].aged.gone
            top   == catalog = "pipeline" /\ <<"meta", 0>> \notin bad /\ 0 \notin creq[r].aged.gone
            freed == {t \in tags \ creq[r].aged.freed : <<"tag", t>> \notin bad}
            left  == {t \in creq[r].aged.tags \cup tags : tag[t] # 0} \ freed
            gone  == IF top THEN Cat!Existing \cup {0} ELSE rows
            change == [Cat!Fresh EXCEPT !.gone = gone, !.tags = freed, !.freed = freed, !.files = files]
        IN  /\ store' = [v \in Cat!Versions |-> IF v \in files THEN Cat!NoFile ELSE store[v]]
            /\ crow' = [v \in Cat!Versions |-> IF v \in rows THEN Cat!Absent ELSE crow[v]]
            /\ tag' = [t \in Tags |-> IF t \in freed THEN 0 ELSE tag[t]]
            /\ meta' = IF top THEN Cat!Absent ELSE meta
            /\ marred' = [marred EXCEPT !.tags = @ \cup left, !.latest = @ \/ stay # {},
                                        !.files = @ \cup (files \ rows)]
            /\ creq' = Cat!After(r, Cat!Idle, change)
  BY ZenonT(100) DEF Cat!RemoveRows, Cat!What, Cat!Aged, Cat!Answer
<1>2. PICK x : x = creq[r]
  OBVIOUS
<1> DEFINE vs   == x.what.vs
           tags == x.what.tags
           top  == catalog = "pipeline" /\ <<"meta", 0>> \notin bad /\ 0 \notin x.aged.gone
<1>3. PICK files : files = {v \in vs : catalog = "command" /\ <<"file", v>> \notin bad}
  OBVIOUS
<1>4. PICK stay : stay = {v \in vs : <<"row", v>> \in bad \/ (catalog = "command" /\ <<"file", v>> \in bad)}
  OBVIOUS
<1>5. PICK rows : rows = (vs \ stay) \ x.aged.gone
  OBVIOUS
<1>6. PICK freed : freed = {t \in tags \ x.aged.freed : <<"tag", t>> \notin bad}
  OBVIOUS
<1>7. PICK left : left = {t \in x.aged.tags \cup tags : tag[t] # 0} \ freed
  OBVIOUS
<1>8. PICK gone : gone = IF top THEN Cat!Existing \cup {0} ELSE rows
  OBVIOUS
<1>9. PICK c : c = [Cat!Fresh EXCEPT !.gone = gone, !.tags = freed, !.freed = freed, !.files = files]
  OBVIOUS
<1>10. /\ store' = [v \in Cat!Versions |-> IF v \in files THEN Cat!NoFile ELSE store[v]]
       /\ crow' = [v \in Cat!Versions |-> IF v \in rows THEN Cat!Absent ELSE crow[v]]
       /\ tag' = [t \in Tags |-> IF t \in freed THEN 0 ELSE tag[t]]
       /\ meta' = IF top THEN Cat!Absent ELSE meta
       /\ marred' = [marred EXCEPT !.tags = @ \cup left, !.latest = @ \/ stay # {},
                                   !.files = @ \cup (files \ rows)]
       /\ creq' = Cat!After(r, Cat!Idle, c)
  BY <1>1, <1>2, <1>3, <1>4, <1>5, <1>6, <1>7, <1>8, <1>9
<1>11. x.pc = "removeAll" /\ catalog' = catalog
  BY <1>2 DEF Cat!RemoveRows
<1>12. /\ vs \subseteq Cat!Versions /\ vs \ x.aged.gone \subseteq Cat!Existing
       /\ \A v \in vs \ x.aged.gone, w \in Cat!Existing \ (vs \ x.aged.gone) : v < w
       /\ \A t \in Tags \ x.aged.tags : t \in tags <=> tag[t] # 0
  BY <1>2, <1>11 DEF CatInv, Well, Cat!Idle, Knows
<1>13. rows \subseteq Cat!Existing /\ 0 \notin Cat!Existing
  BY <1>5, <1>12, NextPatchIs
<1>14. top => catalog = "pipeline"
  OBVIOUS
<1> HIDE DEF top
<1>15. /\ crow' \in [Cat!Versions -> Published \cup {Cat!Absent}]
       /\ \A w \in rows : crow'[w] = Cat!Absent
       /\ \A w \in Cat!Versions \ rows : crow'[w] = crow[w]
  BY <1>10, <1>13, NextPatchIs DEF CatInv, CatTyped
<1>16. Cat!Existing' = IF top THEN {} ELSE Cat!Existing \ rows
  <2>1. CASE top
    BY <1>10, <1>11, <1>14, <2>1 DEF Cat!Existing
  <2>2. CASE ~top
    BY <1>10, <1>11, <1>13, <1>15, <2>2 DEF Cat!Existing, Cat!Versions
  <2> QED  BY <2>1, <2>2
<1>17. Cat!Existing' = Cat!Existing \ gone /\ (gone = {} => rows = {})
  BY <1>8, <1>16
<1>18. Cat!Owners' \subseteq Cat!Owners
  <2>1. CASE catalog = "pipeline"
    BY <1>10, <1>11, <2>1 DEF Cat!Owners
  <2>2. CASE catalog # "pipeline"
    <3>1. \A o : o \in Cat!Owners' <=> \E w \in Cat!Existing \ rows : o = crow'[w].owner
      BY <1>11, <1>14, <1>16, <2>2 DEF Cat!Owners
    <3>2. \A o : o \in Cat!Owners <=> \E w \in Cat!Existing : o = crow[w].owner
      BY <2>2 DEF Cat!Owners
    <3> QED  BY <1>15, <3>1, <3>2, NextPatchIs
  <2> QED  BY <2>1, <2>2
<1>19. \A w \in Cat!Existing' : w \in Cat!Existing /\ w \notin rows /\ ~top /\ (Called(w)' <=> Called(w))
  BY <1>10, <1>11, <1>15, <1>16, NextPatchIs DEF Called
<1>20. /\ marred'.owners = marred.owners /\ marred'.tags = marred.tags \cup left
       /\ marred'.files = marred.files \cup (files \ rows)
       /\ ~marred'.latest => ~marred.latest /\ stay = {}
       /\ DOMAIN marred' = {"owners", "latest", "tags", "files"}
       /\ marred'.owners \in BOOLEAN /\ marred'.latest \in BOOLEAN
  BY <1>10 DEF CatInv, CatTyped
<1>21. CatTyped'
  BY <1>10, <1>11, <1>15, <1>20 DEF CatInv, CatTyped, Published, Cat!Absent, Cat!Versions, Cat!NoFile
<1>22. /\ DOMAIN creq' = Requests /\ (\A o \in Requests : Well(creq[o])')
       /\ Cat!Seeking => Cat!Seeking'
  <2>1. c.by = {} /\ c.gone = gone /\ c.tags = freed /\ c.files = files
    BY <1>9 DEF Cat!Fresh
  <2>2. catalog = "pipeline" /\ meta # Cat!Absent /\ 0 \notin gone => meta' # Cat!Absent
    BY <1>8, <1>10
  <2>3. \A v \in Cat!Versions \ files : store'[v] = store[v]
    BY <1>10
  <2>4. \A t \in Tags \ freed : tag'[t] = tag[t]
    BY <1>10
  <2>5. gone = {} => Cat!Existing' = Cat!Existing
    BY <1>17
  <2>6. gone = {} => Cat!NextPatch' = Cat!NextPatch
    BY <2>5 DEF Cat!NextPatch
  <2>7. Described(c)
    BY <1>11, <1>17, <1>18, <1>19, <1>20, <2>1, <2>2, <2>3, <2>4, <2>6 DEF Described
  <2>8. Well(Cat!Idle)' /\ creq[r].pc \notin Seek
    BY <1>2, <1>11 DEF Well, Seek
  <2> QED  BY <1>10, <2>7, <2>8, AllWell DEF CatInv
<1>23. OwnersOk'
  BY <1>18, <1>20 DEF CatInv, OwnersOk, Cat!OneOwner
<1>24. TagsOk'
  <2> SUFFICES ASSUME NEW t \in Tags, t \notin marred'.tags, tag'[t] # 0 PROVE FALSE
    BY DEF TagsOk, Cat!Resolves
  <2>1. t \notin freed /\ tag[t] # 0
    BY <1>10
  <2> QED  BY <1>7, <1>12, <1>20, <2>1
<1>25. LatestOk'
  <2>1. ~marred'.latest => \A u, w \in Cat!Existing' : Called(u)' => w <= u
    BY <1>19, <1>20 DEF CatInv, LatestOk
  <2>2. ASSUME ~marred'.latest, catalog # "command", Cat!Existing' # {}, ~Cat!Seeking'
        PROVE  \E u \in Cat!Existing' : Called(u)'
    <3>1. PICK w : w \in Cat!Existing'
      BY <2>2
    <3>2. w \in Cat!Existing /\ w \notin rows /\ ~top /\ rows = vs \ x.aged.gone /\ ~marred.latest /\ ~Cat!Seeking
      BY <1>5, <1>19, <1>20, <1>22, <2>2, <3>1
    <3>3. PICK u \in Cat!Existing : Called(u) /\ w <= u
      BY <2>2, <3>2 DEF CatInv, LatestOk
    <3>4. u \notin rows
      BY <1>12, <3>2, <3>3, NextPatchIs
    <3> QED  BY <1>16, <1>19, <3>2, <3>3, <3>4
  <2> QED  BY <1>11, <2>1, <2>2 DEF LatestOk
<1>26. FilesOk'
  BY <1>10, <1>11, <1>15, <1>19, <1>20, NextPatchIs DEF CatInv, FilesOk, Cat!HasFile
<1> QED  BY <1>21, <1>22, <1>23, <1>24, <1>25, <1>26 DEF CatInv

LEMMA CatStep ==
    ASSUME CatInv, [Cat!Next]_cvars
    PROVE  CatInv'
<1>1. ASSUME NEW r \in Requests, NEW by \in Creds, Cat!Receive(r, by) PROVE CatInv'
  BY <1>1, CatReceive
<1>2. ASSUME NEW r \in Requests, Cat!Proceed(r) PROVE CatInv'
  BY <1>2, CatFail, CatPostFile, CatCreate, CatWriteTag, CatWriteRemoveTag, CatRemoveRow,
     CatListNewest, CatPromote, CatRemoveRows, CatWriteTrust DEF Cat!Proceed
<1>3. ASSUME UNCHANGED cvars PROVE CatInv'
  <2>1. UNCHANGED <<catalog, crow, tag, meta, store, creq, marred>>
    BY <1>3 DEF cvars
  <2>2. /\ Cat!Existing' = Cat!Existing /\ Cat!Owners' = Cat!Owners /\ Cat!NextPatch' = Cat!NextPatch
        /\ \A v : Called(v)' <=> Called(v)
    BY <2>1, Untouched
  <2>3. ASSUME NEW o \in Requests PROVE Well(creq[o])'
    BY <2>1, <2>2 DEF CatInv, Well, Knows, Cat!Fresh, Cat!Idle, Cat!Versions, Cat!NoFile, Cat!Absent, PipelinesOf
  <2> QED  BY <2>1, <2>2, <2>3 DEF CatInv, CatTyped, OwnersOk, Cat!OneOwner, TagsOk, Cat!Resolves, FilesOk,
              Cat!HasFile, LatestOk, Cat!Seeking, Published, Cat!Absent, Cat!Versions, Cat!NoFile
<1> QED  BY <1>1, <1>2, <1>3 DEF Cat!Next

LEMMA CatBegins ==
    ASSUME Cat!Init
    PROVE  CatInv
<1>1. Cat!Existing = {} /\ Cat!Owners = {}
  BY DEF Cat!Init, Cat!Existing, Cat!Owners, Cat!Versions
<1>2. CatTyped /\ DOMAIN creq = Requests /\ \A r \in Requests : Well(creq[r])
  BY DEF Cat!Init, CatTyped, Well
<1> QED  BY <1>1, <1>2 DEF CatInv, OwnersOk, Cat!OneOwner, TagsOk, Cat!Resolves, FilesOk, LatestOk, Cat!Init

LEMMA CatSuffices ==
    ASSUME CatInv
    PROVE  CatalogSound
<1>1. ~marred.owners => Cat!OneOwner
  BY DEF CatInv, OwnersOk
<1>2. ~marred.latest /\ ~Cat!Seeking => Cat!LatestIsNewest
  <2> SUFFICES ASSUME ~marred.latest, ~Cat!Seeking, Cat!Existing # {} PROVE Cat!LatestIsNewest
    BY DEF Cat!LatestIsNewest
  <2> DEFINE N == Cat!Newest(Cat!Existing)
  <2>1. N \in Cat!Existing /\ (\A w \in Cat!Existing : w <= N) /\ (\A w \in Cat!Existing : w \in Nat)
    BY NextPatchIs
  <2> HIDE DEF N
  <2>2. \A v \in Cat!Existing : Called(v) => v = N
    BY <2>1 DEF CatInv, LatestOk
  <2>3. catalog # "command" => Called(N)
    BY <2>2 DEF CatInv, LatestOk
  <2>4. CASE catalog = "template"
    <3>1. {v \in Cat!Existing : crow[v].latest} = {N}
      BY <2>1, <2>2, <2>3, <2>4 DEF Called
    <3> QED  BY <2>4, <3>1 DEF Cat!LatestIsNewest, N
  <2>5. CASE catalog = "pipeline"
    BY <2>3, <2>5 DEF Called, Cat!LatestIsNewest, N
  <2>6. CASE catalog = "command"
    BY <2>2, <2>6 DEF Called, Cat!LatestIsNewest, Cat!OneLatest
  <2> QED  BY <2>4, <2>5, <2>6, CatalogAssumed DEF CatInv, CatTyped, Cat!CatalogAssumption
<1> QED  BY <1>1, <1>2 DEF CatInv, TagsOk, FilesOk, CatalogSound, Cat!CatalogSound

\* However requests on one name of a catalog overlap and fail, the name keeps
\* one owner, tags can be resolved, the latest version is the newest and
\* commands have the files they were published with, but for the harm that
\* marred tells (templates/removeVersion.js:40, commands/create.js:24).
THEOREM SoundCatalog == Cat!Spec => []CatalogSound
<1>1. Cat!Init => CatInv
  BY CatBegins
<1>2. CatInv /\ [Cat!Next]_cvars => CatInv'
  BY CatStep
<1>3. CatInv => CatalogSound
  BY CatSuffices
<1> QED  BY <1>1, <1>2, <1>3, PTL DEF Cat!Spec, Cat!vars, cvars
=============================================================================
