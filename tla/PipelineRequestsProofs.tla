------------------------ MODULE PipelineRequestsProofs ------------------------
(***************************************************************************)
(* Theorems about the requests on one pipeline, for any number of users    *)
(* and requests of the sixteen kinds.                                      *)
(*                                                                         *)
(* Each step belongs to one request.  What it does to its own copy, to the *)
(* row and to its answer is collected per handler (Well); the invariants   *)
(* follow from that: the copies agree with themselves (PairInv), somebody  *)
(* answers for a pipeline without webhooks (HalfInv), and how far a        *)
(* request has come tells what it has seen (JustInv).                      *)
(***************************************************************************)
EXTENDS PipelineRequests, FiniteSetTheorems, TLAPS

Codes == {0, 200, 201, 204, 400, 403, 404, 409, 500}

(* The types without those of the history. *)
DataOK ==
    /\ row \in Rows /\ perm \in [Users -> Levels]
    /\ op \in [Reqs -> Ops \cup {"none"}] /\ who \in [Reqs -> Users]
    /\ pc \in [Reqs -> Labels] /\ code \in [Reqs -> Codes]
    /\ copy \in [Reqs -> Rows] /\ seen \in [Reqs -> Levels]
    /\ events \in [Reqs -> {"none", "made", "built"}]
    /\ changes \in 0 .. MaxChanges /\ fails \in 0 .. MaxFails

LEMMA NoRowType == NoRow \in Rows
BY Zenon DEF NoRow, Rows

-----------------------------------------------------------------------------
(* The steps all handlers are made of. *)

LEMMA GoFacts ==
  ASSUME DataOK, NEW r \in Reqs, NEW p \in Labels, Go(r, p)
  PROVE  /\ pc' \in [Reqs -> Labels] /\ pc'[r] = p /\ code' = code
         /\ \A q \in Reqs \ {r} : pc'[q] = pc[q]
BY DEF Go, DataOK

LEMMA AnswerFacts ==
  ASSUME DataOK, NEW r \in Reqs, NEW c \in Codes, Answer(r, c)
  PROVE  /\ code' \in [Reqs -> Codes] /\ code'[r] = c /\ pc' = pc
         /\ \A q \in Reqs \ {r} : code'[q] = code[q]
BY DEF Answer, DataOK

LEMMA FailsFacts ==
  ASSUME DataOK, NEW r \in Reqs, Fails(r)
  PROVE  /\ fails' \in 0 .. MaxFails
         /\ code' \in [Reqs -> Codes] /\ code'[r] = 500 /\ pc' = pc
         /\ \A q \in Reqs \ {r} : code'[q] = code[q]
BY PipelineAssumption DEF Fails, Answer, DataOK, Codes

LEMMA MadeFacts ==
  ASSUME DataOK, NEW r \in Reqs, NEW k \in {"made", "built"}, Made(r, k)
  PROVE  /\ events' \in [Reqs -> {"none", "made", "built"}] /\ events'[r] = k
         /\ \A q \in Reqs \ {r} : events'[q] = events[q]
BY DEF Made, DataOK

(* Writing the row keeps its identity, its state and its webhooks. *)
LEMMA SaveFacts ==
  ASSUME DataOK, NEW r \in Reqs, NEW A \in SUBSET Users, NEW I \in SUBSET Users, Save(r, A, I)
  PROVE  /\ row' \in Rows /\ row'.id = row.id /\ row'.state = row.state
         /\ row'.hooked = row.hooked
         /\ row.id = copy[r].id => row'.admins = A /\ row'.ids = I
         /\ row.id # copy[r].id => row' = row
         /\ UNCHANGED <<perm, op, who, copy, seen, changes>>
BY DEF Save, DataOK, Rows

(* The row is read, or the answer is given at once. *)
Fetched(r, c, next) ==
    /\ \/ (Answer(r, 404) \/ Answer(r, c)) /\ UNCHANGED copy
       \/ Go(r, next) /\ copy' = [copy EXCEPT ![r] = row]
    /\ UNCHANGED <<row, perm, op, who, seen, events, changes, fails>>

LEMMA FetchFacts ==
  ASSUME DataOK, NEW r \in Reqs, NEW c \in Codes \ {0}, NEW next \in Labels, Fetched(r, c, next)
  PROVE  /\ pc' \in [Reqs -> Labels] /\ code' \in [Reqs -> Codes] /\ copy' \in [Reqs -> Rows]
         /\ \/ code'[r] \in {404, c} /\ pc' = pc /\ copy' = copy
            \/ pc'[r] = next /\ code' = code /\ copy'[r] = row
         /\ \A q \in Reqs \ {r} : pc'[q] = pc[q] /\ code'[q] = code[q] /\ copy'[q] = copy[q]
         /\ UNCHANGED <<row, perm, op, who, seen, events, changes, fails>>
<1>1. CASE (Answer(r, 404) \/ Answer(r, c)) /\ UNCHANGED copy
  BY <1>1, AnswerFacts DEF Fetched, DataOK, Codes
<1>2. CASE Go(r, next) /\ copy' = [copy EXCEPT ![r] = row]
  <2>1. copy' \in [Reqs -> Rows] /\ copy'[r] = row /\ \A q \in Reqs \ {r} : copy'[q] = copy[q]
    BY <1>2 DEF DataOK
  <2>2. QED
    BY <1>2, <2>1, GoFacts DEF Fetched, DataOK
<1>3. QED
  BY <1>1, <1>2 DEF Fetched

LEMMA AskFacts ==
  ASSUME DataOK, NEW r \in Reqs, NEW next \in Labels, Ask(r, next)
  PROVE  /\ pc' \in [Reqs -> Labels] /\ code' \in [Reqs -> Codes] /\ seen' \in [Reqs -> Levels]
         /\ fails' \in 0 .. MaxFails
         /\ \/ code'[r] = 500 /\ pc' = pc /\ seen' = seen
            \/ pc'[r] = next /\ code' = code /\ seen'[r] = perm[Me(r)]
         /\ \A q \in Reqs \ {r} : pc'[q] = pc[q] /\ code'[q] = code[q] /\ seen'[q] = seen[q]
         /\ UNCHANGED <<row, perm, op, who, copy, events, changes>>
<1>1. CASE Fails(r) /\ UNCHANGED seen
  BY <1>1, FailsFacts DEF Ask, DataOK
<1>2. CASE seen' = [seen EXCEPT ![r] = perm[Me(r)]] /\ Go(r, next) /\ UNCHANGED fails
  BY <1>2, GoFacts DEF Ask, DataOK, Me
<1>3. QED
  BY <1>1, <1>2 DEF Ask

-----------------------------------------------------------------------------
(* What a step of r is to keep. *)

\* The other requests stay where they are, and the SCM what it is.
Keeps(r) ==
    /\ DataOK' /\ perm' = perm
    /\ \A q \in Reqs \ {r} :
        /\ op'[q] = op[q] /\ who'[q] = who[q] /\ pc'[q] = pc[q] /\ code'[q] = code[q]
        /\ copy'[q] = copy[q] /\ seen'[q] = seen[q] /\ events'[q] = events[q]

\* Every copy of the row has the same admins by name and by id.
Paired == row.admins = row.ids /\ \A q \in Reqs : copy[q].admins = copy[q].ids

PairStep(r) ==
    Paired /\ ~WritesOne(r) => row'.admins = row'.ids /\ copy'[r].admins = copy'[r].ids

\* A request whose pipeline has no webhooks yet, or will not get any.
Creates(r) == op[r] = "create" /\ (code[r] = 500 \/ (code[r] = 0 /\ pc[r] \in {"setup", "hooks"}))

HalfStep(r) ==
    \/ row'.id = 0
    \/ Creates(r)' /\ copy'[r].id = row'.id
    \/ /\ row'.id = row.id /\ (row.hooked => row'.hooked)
       /\ Creates(r) /\ copy[r].id = row.id /\ ~row'.hooked => Creates(r)' /\ copy'[r].id = copy[r].id

Well(r) == Keeps(r) /\ PairStep(r) /\ HalfStep(r)

LEMMA RowWell ==
  ASSUME DataOK, NEW r \in Reqs
  PROVE  /\ row \in Rows /\ copy[r] \in Rows /\ Me(r) \in Users
         /\ row.admins \in SUBSET Users /\ row.ids \in SUBSET Users
         /\ With(r) \in SUBSET Users /\ Without(r) \in SUBSET Users /\ Others(r) \in SUBSET Users
         /\ copy[r].ids \cup {Me(r)} \in SUBSET Users
         /\ NamesOf(r) \in SUBSET Users /\ IdsOf(r) \in SUBSET Users
BY DEF DataOK, Rows, Me, With, Without, Others, NamesOf, IdsOf

(* A step that does not write the row. *)
LEMMA ReadWell ==
  ASSUME DataOK, NEW r \in Reqs, Keeps(r), row' = row, copy'[r] \in {copy[r], row},
         Creates(r) => Creates(r)' /\ copy'[r] = copy[r]
  PROVE  Well(r)
BY DEF Well, PairStep, HalfStep, Paired

(* A step that writes the admins. *)
LEMMA SaveWell ==
  ASSUME DataOK, NEW r \in Reqs, NEW A \in SUBSET Users, NEW I \in SUBSET Users,
         Save(r, A, I), Keeps(r), ~Creates(r), Paired => A = I
  PROVE  Well(r)
<1>1. /\ row'.id = row.id /\ row'.hooked = row.hooked /\ copy' = copy
      /\ (row'.admins = A /\ row'.ids = I) \/ row' = row
  BY SaveFacts
<1>2. PairStep(r)
  BY <1>1 DEF PairStep, Paired
<1>3. HalfStep(r)
  BY <1>1 DEF HalfStep
<1>4. QED
  BY <1>2, <1>3 DEF Well

(* A step that reads the row. *)
LEMMA FetchWell ==
  ASSUME DataOK, NEW r \in Reqs, NEW c \in Codes \ {0}, NEW next \in Labels,
         Fetched(r, c, next), ~Creates(r)
  PROVE  Well(r)
<1>1. Keeps(r) /\ row' = row /\ copy'[r] \in {copy[r], row}
  BY FetchFacts DEF Keeps, DataOK
<1>2. QED
  BY <1>1, ReadWell

LEMMA AskWell ==
  ASSUME DataOK, NEW r \in Reqs, NEW next \in Labels, Ask(r, next), ~Creates(r)
  PROVE  Well(r)
<1>1. Keeps(r) /\ row' = row /\ copy' = copy
  BY AskFacts DEF Keeps, DataOK
<1>2. QED
  BY <1>1, ReadWell

(* Refused by the row as it was: the user is removed. *)
LEMMA RefusedWell ==
  ASSUME DataOK, NEW r \in Reqs, ~Creates(r), UNCHANGED <<events, fails>>,
         Answer(r, 403), Save(r, Without(r), Others(r))
  PROVE  Well(r)
<1>1. Keeps(r)
  BY AnswerFacts, SaveFacts, RowWell DEF Keeps, DataOK, Codes
<1>2. Paired => Without(r) = Others(r)
  BY DEF Paired, Without, Others
<1>3. QED
  BY <1>1, <1>2, SaveWell, RowWell

LEMMA EventWell ==
  ASSUME DataOK, NEW r \in Reqs, EventFetch(r) \/ EventAsk(r) \/ EventSave(r) \/ EventStart(r)
  PROVE  Well(r)
<1>1. ~Creates(r)
  BY DEF EventFetch, EventAsk, EventSave, EventStart, At, EventOps, Creates
<1>2. CASE EventFetch(r)
  <2>1. Fetched(r, 400, "ask")
    BY <1>2 DEF EventFetch, Fetch, Fetched
  <2>2. QED
    BY <1>1, <2>1, FetchWell DEF Codes, Labels
<1>3. CASE EventAsk(r)
  <2>1. PICK next \in {"start", "save"} : Ask(r, next)
    BY <1>3 DEF EventAsk
  <2>2. QED
    BY <1>1, <2>1, AskWell DEF Labels
<1>4. CASE EventSave(r)
  <2>1. CASE UpdateAdmins(r) /\ UNCHANGED <<fails, events>>
    <3>1. CASE Pushes(r)
      <4>1. Go(r, "start") /\ Save(r, With(r), copy[r].ids \cup {Me(r)})
        BY <2>1, <3>1 DEF UpdateAdmins
      <4>2. Keeps(r)
        BY <2>1, <4>1, GoFacts, SaveFacts, RowWell DEF Keeps, DataOK, Labels
      <4>3. Paired => With(r) = copy[r].ids \cup {Me(r)}
        BY DEF Paired, With
      <4>4. QED
        BY <1>1, <4>1, <4>2, <4>3, SaveWell, RowWell
    <3>2. CASE ~Pushes(r)
      BY <1>1, <2>1, <3>2, RefusedWell DEF UpdateAdmins
    <3>3. QED BY <3>1, <3>2
  <2>2. CASE Fails(r) /\ UNCHANGED <<row, perm, op, who, copy, seen, changes, events>>
    <3>1. Keeps(r)
      BY <2>2, FailsFacts DEF Keeps, DataOK
    <3>2. QED
      BY <1>1, <2>2, <3>1, ReadWell
  <2>3. QED
    BY <1>4, <2>1, <2>2 DEF EventSave
<1>5. CASE EventStart(r)
  <2>1. Keeps(r) /\ row' = row /\ copy' = copy
    BY <1>5, AnswerFacts, MadeFacts, FailsFacts DEF EventStart, Keeps, DataOK, Codes
  <2>2. QED
    BY <1>1, <2>1, ReadWell
<1>6. QED
  BY <1>2, <1>3, <1>4, <1>5

(* A step that answers or goes on, with the row and the copies as they are. *)
LEMMA AnswerWell ==
  ASSUME DataOK, NEW r \in Reqs, ~Creates(r),
         \/ \E c \in Codes : Answer(r, c) /\ UNCHANGED <<fails, seen>>
         \/ \E p \in Labels : Go(r, p) /\ UNCHANGED <<fails, seen>>
         \/ Fails(r) /\ UNCHANGED seen,
         UNCHANGED events \/ \E k \in {"made", "built"} : Made(r, k),
         UNCHANGED <<row, perm, op, who, copy, changes>>
  PROVE  Well(r)
<1>1. /\ pc' \in [Reqs -> Labels] /\ code' \in [Reqs -> Codes] /\ seen' = seen
      /\ fails' \in 0 .. MaxFails
      /\ \A q \in Reqs \ {r} : pc'[q] = pc[q] /\ code'[q] = code[q]
  BY AnswerFacts, GoFacts, FailsFacts DEF DataOK
<1>2. /\ events' \in [Reqs -> {"none", "made", "built"}]
      /\ \A q \in Reqs \ {r} : events'[q] = events[q]
  BY MadeFacts DEF DataOK
<1>3. Keeps(r)
  BY <1>1, <1>2 DEF Keeps, DataOK
<1>4. QED
  BY <1>3, ReadWell

LEMMA BuildWell ==
  ASSUME DataOK, NEW r \in Reqs,
         BuildFetch(r) \/ BuildAsk(r) \/ BuildSave(r) \/ BuildEvent(r) \/ BuildCreate(r)
  PROVE  Well(r)
<1>1. ~Creates(r)
  BY DEF BuildFetch, BuildAsk, BuildSave, BuildEvent, BuildCreate, At, Creates
<1>2. CASE BuildFetch(r)
  <2>1. Fetched(r, 400, "ask")
    BY <1>2 DEF BuildFetch, Fetch, Fetched
  <2>2. QED
    BY <1>1, <2>1, FetchWell DEF Codes, Labels
<1>3. CASE BuildAsk(r)
  BY <1>1, <1>3, AskWell DEF BuildAsk, Labels
<1>4. CASE BuildSave(r)
  <2>1. CASE Pushes(r)
    <3>1. Go(r, "sync") /\ Save(r, NamesOf(r), IdsOf(r)) /\ UNCHANGED <<events, fails>>
      BY <1>4, <2>1 DEF BuildSave
    <3>2. Keeps(r)
      BY <3>1, GoFacts, SaveFacts, RowWell DEF Keeps, DataOK, Labels
    <3>3. Paired => NamesOf(r) = IdsOf(r)
      BY DEF Paired, NamesOf, IdsOf, With
    <3>4. QED
      BY <1>1, <3>1, <3>2, <3>3, SaveWell, RowWell
  <2>2. CASE ~Pushes(r)
    BY <1>1, <1>4, <2>2, RefusedWell DEF BuildSave
  <2>3. QED
    BY <2>1, <2>2
<1>5. CASE BuildEvent(r) \/ BuildCreate(r)
  BY <1>1, <1>5, AnswerWell DEF BuildEvent, BuildCreate, Codes, Labels
<1>6. QED
  BY <1>2, <1>3, <1>4, <1>5

LEMMA SyncWell ==
  ASSUME DataOK, NEW r \in Reqs, SyncFetch(r) \/ SyncAsk(r) \/ SyncSave(r)
  PROVE  Well(r)
<1>1. ~Creates(r)
  BY DEF SyncFetch, SyncAsk, SyncSave, At, Creates
<1>2. CASE SyncFetch(r)
  <2>1. Fetched(r, 409, "ask")
    BY <1>2 DEF SyncFetch, Fetch, Fetched
  <2>2. QED
    BY <1>1, <2>1, FetchWell DEF Codes, Labels
<1>3. CASE SyncAsk(r)
  BY <1>1, <1>3, AskWell DEF SyncAsk, Labels
<1>4. CASE SyncSave(r)
  <2>1. CASE Fails(r) /\ UNCHANGED <<row, perm, op, who, copy, seen, changes, events>>
    BY <1>1, <2>1, AnswerWell
  <2>2. CASE SyncAdmins(r) /\ UNCHANGED <<fails, events>> /\ \E c \in {204, 403} : Answer(r, c)
    <3>1. UNCHANGED <<perm, op, who, copy, seen, changes>>
      BY <2>2, SaveFacts, RowWell DEF SyncAdmins
    <3>2. /\ code' \in [Reqs -> Codes] /\ pc' = pc
          /\ \A q \in Reqs \ {r} : code'[q] = code[q]
      BY <2>2, AnswerFacts DEF Codes
    <3>3. row' \in Rows
      BY <2>2, SaveFacts, RowWell DEF SyncAdmins
    <3>4. Keeps(r)
      BY <2>2, <3>1, <3>2, <3>3 DEF Keeps, DataOK
    <3>5. CASE row' = row
      BY <1>1, <3>1, <3>4, <3>5, ReadWell
    <3>6. CASE Save(r, Without(r), Others(r))
      <4>1. Paired => Without(r) = Others(r)
        BY DEF Paired, Without, Others
      <4>2. QED
        BY <1>1, <3>4, <3>6, <4>1, SaveWell, RowWell
    <3>7. CASE Save(r, With(r), copy[r].ids \cup {Me(r)})
      <4>1. Paired => With(r) = copy[r].ids \cup {Me(r)}
        BY DEF Paired, With
      <4>2. QED
        BY <1>1, <3>4, <3>7, <4>1, SaveWell, RowWell
    <3>8. QED
      BY <2>2, <3>5, <3>6, <3>7 DEF SyncAdmins
  <2>3. QED
    BY <1>4, <2>1, <2>2 DEF SyncSave
<1>5. QED
  BY <1>2, <1>3, <1>4

(* Writing that the row has its webhooks. *)
LEMMA HookedFacts ==
  ASSUME DataOK, NEW r \in Reqs, NEW c \in Codes, AddWebhooks(r, c)
  PROVE  /\ Keeps(r) /\ copy' = copy
         /\ row'.admins = row.admins /\ row'.ids = row.ids /\ row'.id = row.id
         /\ row.hooked => row'.hooked
         /\ op[r] = "create" => \/ row' = row /\ code'[r] = 500
                                \/ row.id = copy[r].id => row'.hooked
<1>1. /\ row' \in Rows /\ row'.admins = row.admins /\ row'.ids = row.ids /\ row'.id = row.id
      /\ row.hooked => row'.hooked
  BY DEF AddWebhooks, DataOK, Rows
<1>2. /\ fails' \in 0 .. MaxFails /\ code' \in [Reqs -> Codes] /\ pc' = pc
      /\ \A q \in Reqs \ {r} : code'[q] = code[q]
  BY AnswerFacts, FailsFacts DEF AddWebhooks, DataOK
<1>3. UNCHANGED <<perm, op, who, copy, seen, events, changes>>
  BY DEF AddWebhooks
<1>4. Keeps(r)
  BY <1>1, <1>2, <1>3 DEF Keeps, DataOK
<1>5. op[r] = "create" => \/ row' = row /\ code'[r] = 500
                          \/ row.id = copy[r].id => row'.hooked
  BY FailsFacts DEF AddWebhooks, DataOK, Rows
<1>6. QED
  BY <1>1, <1>3, <1>4, <1>5

LEMMA HooksWell ==
  ASSUME DataOK, NEW r \in Reqs, HooksFetch(r) \/ HooksAsk(r) \/ HooksAdd(r) \/ PrsSync(r)
  PROVE  Well(r)
<1>1. ~Creates(r)
  BY DEF HooksFetch, HooksAsk, HooksAdd, PrsSync, At, Creates
<1>2. CASE HooksFetch(r)
  <2>1. PICK next \in {"hooks", "ask"} : Fetched(r, 409, next)
    BY <1>2 DEF HooksFetch, Fetch, Fetched
  <2>2. QED
    BY <1>1, <2>1, FetchWell DEF Codes, Labels
<1>3. CASE HooksAsk(r)
  <2>1. /\ seen' \in [Reqs -> Levels] /\ \A q \in Reqs \ {r} : seen'[q] = seen[q]
        /\ fails' \in 0 .. MaxFails
    BY <1>3, PipelineAssumption DEF HooksAsk, DataOK, Me
  <2>2. Go(r, "hooks") \/ Answer(r, 403)
    BY <1>3 DEF HooksAsk
  <2>3. Keeps(r)
    BY <1>3, <2>1, <2>2, GoFacts, AnswerFacts DEF HooksAsk, Keeps, DataOK, Codes, Labels
  <2>4. QED
    BY <1>1, <1>3, <2>3, ReadWell DEF HooksAsk
<1>4. CASE HooksAdd(r)
  <2>1. AddWebhooks(r, 204)
    BY <1>4 DEF HooksAdd
  <2>2. QED
    BY <1>1, <2>1, HookedFacts DEF Well, PairStep, HalfStep, Paired, Codes
<1>5. CASE PrsSync(r)
  BY <1>1, <1>5, AnswerWell DEF PrsSync, Codes
<1>6. QED
  BY <1>2, <1>3, <1>4, <1>5

(* Writing the ids alone. *)
LEMMA AddIdsFacts ==
  ASSUME DataOK, NEW r \in Reqs, AddIds(r)
  PROVE  /\ row' \in Rows /\ row'.id = row.id /\ row'.hooked = row.hooked
         /\ ~MayAdd(r) => row' = row
<1>1. CASE row' = row
  BY <1>1 DEF DataOK
<1>2. CASE row' # row
  <2>1. PICK u \in Users : row' = [row EXCEPT !.ids = copy[r].ids \cup {u}]
    BY <1>2 DEF AddIds
  <2>2. MayAdd(r)
    BY <1>2 DEF AddIds
  <2>3. QED
    BY <2>1, <2>2 DEF DataOK, Rows
<1>3. QED
  BY <1>1, <1>2

LEMMA AdminsWell ==
  ASSUME DataOK, NEW r \in Reqs,
         \/ AdminsFetch(r) \/ AdminsAsk(r) \/ AdminsSave(r)
         \/ BatchSave(r) \/ BatchAnswer(r) \/ BatchFails(r) \/ BatchLate(r)
  PROVE  Well(r)
<1>1. ~Creates(r) /\ op[r] \in AdminOps
  BY DEF AdminsFetch, AdminsAsk, AdminsSave, BatchSave, BatchAnswer, BatchFails, BatchLate,
         At, AdminOps, Creates
<1>2. CASE AdminsFetch(r)
  <2>1. PICK next \in {"save", "ask"} : Fetched(r, 400, next)
    BY <1>2 DEF AdminsFetch, Fetch, Fetched
  <2>2. QED
    BY <1>1, <2>1, FetchWell DEF Codes, Labels
<1>3. CASE AdminsAsk(r)
  BY <1>1, <1>3, AskWell DEF AdminsAsk, Labels
<1>4. CASE AdminsSave(r) \/ BatchSave(r) \/ BatchLate(r)
  <2>1. AddIds(r) /\ UNCHANGED <<perm, op, who, copy, seen, events, changes, fails>>
    BY <1>4 DEF AdminsSave, BatchSave, BatchLate
  <2>2. Go(r, "others") \/ \E c \in {200, 403, 409} : Answer(r, c)
    BY <1>4 DEF AdminsSave, BatchSave, BatchLate, Refusal
  <2>3. /\ pc' \in [Reqs -> Labels] /\ code' \in [Reqs -> Codes]
        /\ \A q \in Reqs \ {r} : pc'[q] = pc[q] /\ code'[q] = code[q]
    BY <2>2, GoFacts, AnswerFacts DEF DataOK, Codes, Labels
  <2>4. Keeps(r)
    BY <2>1, <2>3, AddIdsFacts DEF Keeps, DataOK
  <2>5. MayAdd(r) => WritesOne(r)
    <3>1. CASE AdminsSave(r)
      BY <1>1, <3>1, AnswerFacts DEF AdminsSave, At, WritesOne, Codes
    <3>2. CASE BatchSave(r)
      BY <1>1, <3>2, GoFacts DEF BatchSave, At, WritesOne, Labels
    <3>3. CASE BatchLate(r)
      BY <1>1, <3>3, GoFacts DEF BatchLate, WritesOne, Labels
    <3>4. QED
      BY <1>4, <3>1, <3>2, <3>3
  <2>6. PairStep(r)
    BY <2>1, <2>5, AddIdsFacts DEF PairStep, Paired
  <2>7. QED
    BY <1>1, <2>1, <2>4, <2>6, AddIdsFacts DEF Well, HalfStep
<1>5. CASE BatchAnswer(r)
  BY <1>1, <1>5, AnswerWell DEF BatchAnswer, Codes
<1>6. CASE BatchFails(r)
  <2>1. /\ pc' \in [Reqs -> Labels] /\ code' \in [Reqs -> Codes]
        /\ \A q \in Reqs \ {r} : pc'[q] = pc[q] /\ code'[q] = code[q]
    BY <1>6 DEF BatchFails, DataOK, Codes, Labels
  <2>2. Keeps(r)
    BY <1>6, <2>1 DEF BatchFails, Keeps, DataOK
  <2>3. QED
    BY <1>1, <1>6, <2>2, ReadWell DEF BatchFails
<1>7. QED
  BY <1>2, <1>3, <1>4, <1>5, <1>6

(* Writing the state, and perhaps the names. *)
LEMMA RestateFacts ==
  ASSUME DataOK, NEW r \in Reqs, NEW A \in SUBSET Users, Restate(r, A)
  PROVE  /\ row' \in Rows /\ row'.id = row.id /\ row'.hooked = row.hooked /\ row'.ids = row.ids
         /\ A = row.admins => row'.admins = row.admins
<1>1. NewState(r) \in {"none", "ACTIVE", "DISABLED", "DELETING"}
  BY DEF NewState, Flipped, DataOK, Rows
<1>2. QED
  BY <1>1 DEF Restate, DataOK, Rows

LEMMA PutWell ==
  ASSUME DataOK, NEW r \in Reqs,
         \/ PutFetch(r) \/ PutAsk(r) \/ PutChild(r) \/ PutState(r) \/ PutSave(r) \/ PutFinish(r)
  PROVE  Well(r)
<1>1. ~Creates(r) /\ op[r] \in PutOps
  BY DEF PutFetch, PutAsk, PutChild, PutState, PutSave, PutFinish, At, PutOps, Creates
<1>2. CASE PutFetch(r)
  <2>1. Fetched(r, 409, "ask")
    BY <1>2 DEF PutFetch, Fetch, Fetched
  <2>2. QED
    BY <1>1, <2>1, FetchWell DEF Codes, Labels
<1>3. CASE PutAsk(r)
  <2>1. /\ seen' \in [Reqs -> Levels] /\ \A q \in Reqs \ {r} : seen'[q] = seen[q]
        /\ fails' \in 0 .. MaxFails
    BY <1>3, PipelineAssumption DEF PutAsk, DataOK, Me
  <2>2. Go(r, "save") \/ Answer(r, 403)
    BY <1>3 DEF PutAsk
  <2>3. Keeps(r)
    BY <1>3, <2>1, <2>2, GoFacts, AnswerFacts DEF PutAsk, Keeps, DataOK, Codes, Labels
  <2>4. QED
    BY <1>1, <1>3, <2>3, ReadWell DEF PutAsk
<1>4. CASE PutChild(r) \/ PutState(r) \/ PutSave(r)
  <2>1. UNCHANGED <<perm, op, who, copy, seen, events, changes, fails>>
    BY <1>4 DEF PutChild, PutState, PutSave
  <2>2. \/ UNCHANGED row
        \/ Restate(r, row.admins)
        \/ Restate(r, {Me(r)}) /\ Go(r, "hooks") /\ pc[r] = "save"
    BY <1>4 DEF PutChild, PutState, PutSave, At
  <2>3. /\ row' \in Rows /\ row'.id = row.id /\ row'.hooked = row.hooked /\ row'.ids = row.ids
    BY <2>2, RestateFacts, RowWell
  <2>4. Go(r, "hooks") \/ \E c \in {200, 403, 409} : Answer(r, c)
    BY <1>4 DEF PutChild, PutState, PutSave
  <2>5. /\ pc' \in [Reqs -> Labels] /\ code' \in [Reqs -> Codes]
        /\ \A q \in Reqs \ {r} : pc'[q] = pc[q] /\ code'[q] = code[q]
    BY <2>4, GoFacts, AnswerFacts DEF DataOK, Codes, Labels
  <2>6. Keeps(r)
    BY <2>1, <2>3, <2>5 DEF Keeps, DataOK
  <2>7. ~WritesOne(r) => row'.admins = row.admins
    <3>1. CASE Go(r, "hooks") /\ pc[r] = "save"
      BY <1>1, <3>1, GoFacts DEF WritesOne, Labels
    <3>2. CASE UNCHANGED row \/ Restate(r, row.admins)
      BY <3>2, RestateFacts, RowWell
    <3>3. QED
      BY <2>2, <3>1, <3>2
  <2>8. PairStep(r)
    BY <2>1, <2>3, <2>7 DEF PairStep, Paired
  <2>9. QED
    BY <1>1, <2>3, <2>6, <2>8 DEF Well, HalfStep
<1>5. CASE PutFinish(r)
  <2>1. AddWebhooks(r, 200)
    BY <1>5 DEF PutFinish
  <2>2. QED
    BY <1>1, <2>1, HookedFacts DEF Well, PairStep, HalfStep, Paired, Codes
<1>6. QED
  BY <1>2, <1>3, <1>4, <1>5

LEMMA RemoveWell ==
  ASSUME DataOK, NEW r \in Reqs,
         RemoveFetch(r) \/ RemoveAsk(r) \/ RemoveStart(r) \/ RemoveEnd(r)
  PROVE  Well(r)
<1>1. ~Creates(r)
  BY DEF RemoveFetch, RemoveAsk, RemoveStart, RemoveEnd, At, Creates
<1>2. CASE RemoveFetch(r)
  <2>1. PICK c \in {403, 409} : Fetched(r, c, "ask")
    BY <1>2 DEF RemoveFetch, Fetch, Fetched
  <2>2. QED
    BY <1>1, <2>1, FetchWell DEF Codes, Labels
<1>3. CASE RemoveAsk(r)
  <2>1. /\ seen' \in [Reqs -> Levels] /\ \A q \in Reqs \ {r} : seen'[q] = seen[q]
        /\ fails' \in 0 .. MaxFails
    BY <1>3, PipelineAssumption DEF RemoveAsk, DataOK, Me
  <2>2. Go(r, "remove") \/ Answer(r, 403) \/ Answer(r, 500)
    BY <1>3 DEF RemoveAsk
  <2>3. Keeps(r)
    BY <1>3, <2>1, <2>2, GoFacts, AnswerFacts DEF RemoveAsk, Keeps, DataOK, Codes, Labels
  <2>4. QED
    BY <1>1, <1>3, <2>3, ReadWell DEF RemoveAsk
<1>4. CASE RemoveStart(r)
  <2>1. /\ row' \in Rows /\ row'.id = row.id /\ row'.hooked = row.hooked
        /\ row'.admins = row.admins /\ row'.ids = row.ids
    BY <1>4 DEF RemoveStart, DataOK, Rows
  <2>2. UNCHANGED <<perm, op, who, copy, seen, events, changes, fails>> /\ Go(r, "gone")
    BY <1>4 DEF RemoveStart
  <2>3. Keeps(r)
    BY <2>1, <2>2, GoFacts DEF Keeps, DataOK, Labels
  <2>4. QED
    BY <1>1, <2>1, <2>2, <2>3 DEF Well, PairStep, HalfStep, Paired
<1>5. CASE RemoveEnd(r)
  <2>1. row' = row \/ row' = NoRow
    BY <1>5 DEF RemoveEnd
  <2>2. row' \in Rows
    BY <2>1, NoRowType DEF DataOK
  <2>3. /\ code' \in [Reqs -> Codes] /\ pc' = pc /\ fails' \in 0 .. MaxFails
        /\ \A q \in Reqs \ {r} : code'[q] = code[q]
    BY <1>5, AnswerFacts, FailsFacts DEF RemoveEnd, DataOK, Codes
  <2>4. UNCHANGED <<perm, op, who, copy, seen, events, changes>>
    BY <1>5 DEF RemoveEnd
  <2>5. Keeps(r)
    BY <2>2, <2>3, <2>4 DEF Keeps, DataOK
  <2>6. QED
    BY <1>1, <2>1, <2>4, <2>5 DEF Well, PairStep, HalfStep, Paired, NoRow
<1>6. QED
  BY <1>2, <1>3, <1>4, <1>5

LEMMA AllWell ==
  ASSUME DataOK, NEW r \in Reqs, AllFetch(r) \/ AllAsk(r) \/ AllStart(r)
  PROVE  Well(r)
<1>1. ~Creates(r)
  BY DEF AllFetch, AllAsk, AllStart, At, Creates
<1>2. CASE AllFetch(r)
  <2>1. \/ UNCHANGED copy
        \/ Go(r, "ask") /\ copy' = [copy EXCEPT ![r] = row]
    BY <1>2 DEF AllFetch
  <2>2. /\ copy' \in [Reqs -> Rows] /\ copy'[r] \in {copy[r], row}
        /\ \A q \in Reqs \ {r} : copy'[q] = copy[q]
    BY <2>1 DEF DataOK
  <2>3. Go(r, "ask") \/ \E c \in {201, 403, 404} : Answer(r, c)
    BY <1>2 DEF AllFetch
  <2>4. Keeps(r)
    BY <1>2, <2>2, <2>3, GoFacts, AnswerFacts DEF AllFetch, Keeps, DataOK, Codes, Labels
  <2>5. QED
    BY <1>1, <1>2, <2>2, <2>4, ReadWell DEF AllFetch
<1>3. CASE AllAsk(r)
  <2>1. /\ seen' \in [Reqs -> Levels] /\ \A q \in Reqs \ {r} : seen'[q] = seen[q]
        /\ fails' \in 0 .. MaxFails
    BY <1>3, PipelineAssumption DEF AllAsk, DataOK, Me
  <2>2. Go(r, "start") \/ Answer(r, 403)
    BY <1>3 DEF AllAsk
  <2>3. Keeps(r)
    BY <1>3, <2>1, <2>2, GoFacts, AnswerFacts DEF AllAsk, Keeps, DataOK, Codes, Labels
  <2>4. QED
    BY <1>1, <1>3, <2>3, ReadWell DEF AllAsk
<1>4. CASE AllStart(r)
  <2>1. fails' \in 0 .. MaxFails /\ \E c \in {201, 403} : Answer(r, c)
    BY <1>4, PipelineAssumption DEF AllStart, DataOK
  <2>2. /\ events' \in [Reqs -> {"none", "made", "built"}]
        /\ \A q \in Reqs \ {r} : events'[q] = events[q]
    BY <1>4, MadeFacts DEF AllStart, DataOK
  <2>3. UNCHANGED <<row, perm, op, who, copy, seen, changes>>
    BY <1>4 DEF AllStart
  <2>4. Keeps(r)
    BY <2>1, <2>2, <2>3, AnswerFacts DEF Keeps, DataOK, Codes
  <2>5. QED
    BY <1>1, <2>3, <2>4, ReadWell
<1>5. QED
  BY <1>2, <1>3, <1>4

LEMMA HookWell ==
  ASSUME DataOK, NEW r \in Reqs,
         HookFetch(r) \/ HookAsk(r) \/ HookSave(r) \/ MergedAdmins(r) \/ HookStart(r)
  PROVE  Well(r)
<1>1. ~Creates(r)
  BY DEF HookFetch, HookAsk, HookSave, MergedAdmins, HookStart, At, HookOps, Creates
<1>2. CASE HookFetch(r)
  <2>1. \/ UNCHANGED copy
        \/ Go(r, "ask") /\ copy' = [copy EXCEPT ![r] = row]
    BY <1>2 DEF HookFetch
  <2>2. /\ copy' \in [Reqs -> Rows] /\ copy'[r] \in {copy[r], row}
        /\ \A q \in Reqs \ {r} : copy'[q] = copy[q]
    BY <2>1 DEF DataOK
  <2>3. Go(r, "ask") \/ Answer(r, 204)
    BY <1>2 DEF HookFetch
  <2>4. Keeps(r)
    BY <1>2, <2>2, <2>3, GoFacts, AnswerFacts DEF HookFetch, Keeps, DataOK, Codes, Labels
  <2>5. QED
    BY <1>1, <1>2, <2>2, <2>4, ReadWell DEF HookFetch
<1>3. CASE HookAsk(r)
  <2>1. /\ seen' \in [Reqs -> Levels] /\ \A q \in Reqs \ {r} : seen'[q] = seen[q]
        /\ fails' \in 0 .. MaxFails
    BY <1>3, PipelineAssumption DEF HookAsk, DataOK, Me
  <2>2. Go(r, "save") \/ Go(r, "start")
    BY <1>3 DEF HookAsk
  <2>3. Keeps(r)
    BY <1>3, <2>1, <2>2, GoFacts DEF HookAsk, Keeps, DataOK, Labels
  <2>4. QED
    BY <1>1, <1>3, <2>3, ReadWell DEF HookAsk
<1>4. CASE HookSave(r)
  <2>1. fails' \in 0 .. MaxFails /\ UNCHANGED events /\ Go(r, "start")
    BY <1>4, PipelineAssumption DEF HookSave, DataOK
  <2>2. CASE UNCHANGED <<row, perm, op, who, copy, seen, changes>>
    <3>1. Keeps(r)
      BY <2>1, <2>2, GoFacts DEF Keeps, DataOK, Labels
    <3>2. QED
      BY <1>1, <2>2, <3>1, ReadWell
  <2>3. CASE Save(r, With(r), copy[r].ids \cup {Me(r)})
    <3>1. Keeps(r)
      <4>1. row' \in Rows /\ UNCHANGED <<perm, op, who, copy, seen, changes>>
        BY <2>3, SaveFacts, RowWell
      <4>2. QED
        BY <2>1, <4>1, GoFacts DEF Keeps, DataOK, Labels
    <3>2. Paired => With(r) = copy[r].ids \cup {Me(r)}
      BY DEF Paired, With
    <3>3. QED
      BY <1>1, <2>3, <3>1, <3>2, SaveWell, RowWell
  <2>4. CASE Save(r, Without(r), Others(r))
    <3>1. Keeps(r)
      <4>1. row' \in Rows /\ UNCHANGED <<perm, op, who, copy, seen, changes>>
        BY <2>4, SaveFacts, RowWell
      <4>2. QED
        BY <2>1, <4>1, GoFacts DEF Keeps, DataOK, Labels
    <3>2. Paired => Without(r) = Others(r)
      BY DEF Paired, Without, Others
    <3>3. QED
      BY <1>1, <2>4, <3>1, <3>2, SaveWell, RowWell
  <2>5. QED
    BY <1>4, <2>2, <2>3, <2>4 DEF HookSave
<1>5. CASE MergedAdmins(r) \/ HookStart(r)
  BY <1>1, <1>5, AnswerWell DEF MergedAdmins, HookStart, Codes, Labels
<1>6. QED
  BY <1>2, <1>3, <1>4, <1>5

(* The requests hold too few copies to use up the ids. *)
LEMMA FreshId ==
  ASSUME DataOK
  PROVE  \E i \in Ids : \A q \in Reqs : copy[q].id # i
<1> DEFINE f == [q \in Reqs |-> copy[q].id]
           Used == {f[q] : q \in Reqs}
<1>1. IsFiniteSet(Used) /\ Cardinality(Used) <= Cardinality(Reqs)
  <2>1. f \in Surjection(Reqs, Used)
    BY DEF Surjection
  <2>2. QED
    BY <2>1, PipelineAssumption, FS_Surjection
<1>2. Cardinality(Reqs) \in Nat
  BY PipelineAssumption, FS_CardinalityType
<1>3. IsFiniteSet(Ids) /\ Cardinality(Ids) = Cardinality(Reqs) + 1
  BY <1>2, FS_Interval DEF Ids
<1>4. ~(Ids \subseteq Used)
  <2> SUFFICES ASSUME Ids \subseteq Used PROVE FALSE
    OBVIOUS
  <2>1. Cardinality(Ids) <= Cardinality(Used)
    BY <1>1, FS_Subset
  <2>2. Cardinality(Used) \in Nat
    BY <1>1, FS_CardinalityType
  <2>3. QED
    BY <1>1, <1>2, <1>3, <2>1, <2>2
<1>5. QED
  BY <1>4

LEMMA CreateWell ==
  ASSUME DataOK, NEW r \in Reqs,
         CreateAsk(r) \/ CreateCheck(r) \/ CreateRow(r) \/ CreateSetUp(r) \/ CreateHooks(r)
  PROVE  Well(r)
<1>1. CASE CreateAsk(r) \/ CreateCheck(r)
  <2>1. ~Creates(r)
    BY <1>1 DEF CreateAsk, CreateCheck, At, Creates
  <2>2. /\ seen' \in [Reqs -> Levels] /\ \A q \in Reqs \ {r} : seen'[q] = seen[q]
    BY <1>1 DEF CreateAsk, CreateCheck, DataOK, Me
  <2>3. Go(r, "check") \/ Go(r, "row") \/ Answer(r, 403) \/ Answer(r, 409)
    BY <1>1 DEF CreateAsk, CreateCheck
  <2>4. UNCHANGED <<row, perm, op, who, copy, events, changes, fails>>
    BY <1>1 DEF CreateAsk, CreateCheck
  <2>5. Keeps(r)
    BY <2>2, <2>3, <2>4, GoFacts, AnswerFacts DEF Keeps, DataOK, Codes, Labels
  <2>6. QED
    BY <2>1, <2>4, <2>5, ReadWell
<1>2. CASE CreateRow(r)
  <2>1. ~Creates(r) /\ op[r] = "create" /\ code[r] = 0
    BY <1>2 DEF CreateRow, At, Creates
  <2>2. UNCHANGED <<perm, op, who, seen, events, changes, fails>>
    BY <1>2 DEF CreateRow
  <2>3. CASE There
    <3>1. Answer(r, 500) /\ UNCHANGED <<row, copy>>
      BY <1>2, <2>3 DEF CreateRow
    <3>2. QED
      BY <2>1, <2>2, <3>1, AnswerWell DEF Codes
  <2>4. CASE ~There
    <3>1. PICK i \in Ids : row' = [id |-> i, admins |-> {Me(r)}, ids |-> {Me(r)},
                                   state |-> "ACTIVE", hooked |-> FALSE, child |-> FALSE]
      BY <1>2, <2>4, FreshId DEF CreateRow
    <3>2. copy' = [copy EXCEPT ![r] = row'] /\ Go(r, "setup")
      BY <1>2, <2>4 DEF CreateRow
    <3>3. row' \in Rows
      <4>1. {Me(r)} \in SUBSET Users
        BY RowWell
      <4>2. QED
        BY <3>1, <4>1, Zenon DEF Rows
    <3>4. /\ copy' \in [Reqs -> Rows] /\ copy'[r] = row'
          /\ \A q \in Reqs \ {r} : copy'[q] = copy[q]
      BY <3>2, <3>3 DEF DataOK
    <3>5. Keeps(r)
      BY <2>2, <3>2, <3>3, <3>4, GoFacts DEF Keeps, DataOK, Labels
    <3>6. row'.admins = row'.ids
      BY <3>1
    <3>7. Creates(r)'
      BY <2>1, <2>2, <3>2, GoFacts DEF Creates, Labels
    <3>8. QED
      BY <3>4, <3>5, <3>6, <3>7 DEF Well, PairStep, HalfStep
  <2>5. QED
    BY <2>3, <2>4
<1>3. CASE CreateSetUp(r)
  <2>1. op[r] = "create" /\ code[r] = 0
    BY <1>3 DEF CreateSetUp, At
  <2>2. /\ fails' \in 0 .. MaxFails /\ pc' \in [Reqs -> Labels] /\ code' \in [Reqs -> Codes]
        /\ \A q \in Reqs \ {r} : pc'[q] = pc[q] /\ code'[q] = code[q]
        /\ code'[r] = 500 \/ (code'[r] = 0 /\ pc'[r] = "hooks")
    BY <1>3, <2>1, GoFacts, FailsFacts DEF CreateSetUp, DataOK, Labels
  <2>3. UNCHANGED <<row, perm, op, who, copy, seen, events, changes>>
    BY <1>3 DEF CreateSetUp
  <2>4. Keeps(r) /\ Creates(r)'
    BY <2>1, <2>2, <2>3 DEF Keeps, Creates, DataOK
  <2>5. QED
    BY <2>3, <2>4, ReadWell
<1>4. CASE CreateHooks(r)
  <2>1. AddWebhooks(r, 201) /\ op[r] = "create"
    BY <1>4 DEF CreateHooks, At
  <2>2. /\ Keeps(r) /\ copy' = copy /\ op' = op
        /\ row'.admins = row.admins /\ row'.ids = row.ids /\ row'.id = row.id
        /\ row.hooked => row'.hooked
        /\ \/ code'[r] = 500
           \/ row.id = copy[r].id => row'.hooked
    BY <2>1, HookedFacts DEF Codes, AddWebhooks
  <2>3. PairStep(r)
    BY <2>2 DEF PairStep, Paired
  <2>4. HalfStep(r)
    BY <2>1, <2>2 DEF HalfStep, Creates
  <2>5. QED
    BY <2>2, <2>3, <2>4 DEF Well
<1>5. QED
  BY <1>1, <1>2, <1>3, <1>4

LEMMA ReceiveWell ==
  ASSUME DataOK, NEW r \in Reqs, Receive(r)
  PROVE  Well(r)
<1>1. ~Creates(r)
  BY DEF Receive, Creates
<1>2. PICK o \in Ops, u \in Users : op' = [op EXCEPT ![r] = o] /\ who' = [who EXCEPT ![r] = u]
  BY DEF Receive
<1>3. /\ op' \in [Reqs -> Ops \cup {"none"}] /\ who' \in [Reqs -> Users]
      /\ \A q \in Reqs \ {r} : op'[q] = op[q] /\ who'[q] = who[q]
  BY <1>2 DEF DataOK
<1>4. Keeps(r)
  BY <1>3 DEF Receive, Keeps, DataOK
<1>5. QED
  BY <1>1, <1>4, ReadWell DEF Receive

LEMMA StepWell ==
  ASSUME DataOK, NEW r \in Reqs, Step(r)
  PROVE  Well(r)
BY EventWell, BuildWell, SyncWell, HooksWell, AdminsWell, PutWell, RemoveWell, AllWell, HookWell,
   CreateWell, ReceiveWell
DEF Step

-----------------------------------------------------------------------------
(* The types, the two lists of admins, and the pipelines without webhooks. *)

LEMMA ChangeKeeps ==
  ASSUME DataOK, Change
  PROVE  /\ DataOK' /\ UNCHANGED <<row, op, who, pc, copy, seen, code, events>>
<1>1. perm' \in [Users -> Levels]
  BY DEF Change, DataOK
<1>2. changes' \in 0 .. MaxChanges
  BY PipelineAssumption DEF Change, DataOK
<1>3. UNCHANGED <<row, op, who, pc, copy, seen, code, events, fails>>
  BY DEF Change, reqs
<1>4. QED
  BY <1>1, <1>2, <1>3 DEF DataOK

HistOK == mixed \in BOOLEAN /\ live \in [Reqs -> BOOLEAN] /\ could \in [Reqs -> BOOLEAN]

LEMMA TypeParts == TypeOK <=> DataOK /\ HistOK
BY DEF TypeOK, DataOK, HistOK, Codes

LEMMA ObserveType == Observe => HistOK'
BY Zenon DEF Observe, HistOK

LEMMA InitType == Init => TypeOK
<1> SUFFICES ASSUME Init PROVE TypeOK
  OBVIOUS
<1>1. Cardinality(Reqs) \in Nat
  BY PipelineAssumption, FS_CardinalityType
<1>2. row \in Rows
  <2>1. CASE row = NoRow
    BY <2>1, NoRowType
  <2>2. ASSUME NEW u \in Users, NEW child \in BOOLEAN,
               row = [id |-> 1, admins |-> {u}, ids |-> {u},
                      state |-> "ACTIVE", hooked |-> TRUE, child |-> child]
        PROVE  row \in Rows
    <3>1. 1 \in Ids /\ {u} \in SUBSET Users
      BY <1>1 DEF Ids
    <3>2. QED
      BY <2>2, <3>1, Zenon DEF Rows
  <2>3. QED
    BY <2>1, <2>2 DEF Init
<1>3. (CHOOSE u \in Users : TRUE) \in Users
  BY PipelineAssumption
<1>4. who \in [Reqs -> Users]
  BY <1>3 DEF Init
<1>5. copy \in [Reqs -> Rows]
  BY NoRowType DEF Init
<1>6. DataOK
  BY <1>2, <1>4, <1>5, PipelineAssumption DEF Init, DataOK, Codes, Labels, Levels
<1>7. HistOK
  BY Zenon DEF Init, HistOK
<1>8. QED
  BY <1>6, <1>7, TypeParts

LEMMA NextType == TypeOK /\ [Next]_vars => TypeOK'
<1> SUFFICES ASSUME TypeOK, [Next]_vars PROVE TypeOK'
  OBVIOUS
<1>1. CASE UNCHANGED vars
  BY <1>1 DEF vars, reqs, hist, TypeOK
<1>2. CASE Next
  <2>1. DataOK'
    BY <1>2, TypeParts, StepWell, ChangeKeeps DEF Next, Well, Keeps
  <2>2. HistOK'
    BY <1>2, ObserveType DEF Next
  <2>3. (DataOK /\ HistOK)' => TypeOK'
    BY TypeParts, PTL
  <2>4. QED
    BY <2>1, <2>2, <2>3
<1>3. QED
  BY <1>1, <1>2

(* The row, the copies and the answers of the requests keep their types, and *)
(* the pipeline an id of its own.                                            *)
THEOREM TypeCorrect == Spec => []TypeOK
BY InitType, NextType, PTL DEF Spec

PairInv == ~mixed => Paired

LEMMA InitPair == Init => PairInv
<1> SUFFICES ASSUME Init PROVE Paired
  BY DEF PairInv
<1>1. NoRow.admins = {} /\ NoRow.ids = {}
  BY DEF NoRow
<1>2. row.admins = row.ids
  <2>1. CASE row = NoRow
    BY <1>1, <2>1
  <2>2. ASSUME NEW u \in Users, NEW child \in BOOLEAN,
               row = [id |-> 1, admins |-> {u}, ids |-> {u},
                      state |-> "ACTIVE", hooked |-> TRUE, child |-> child]
        PROVE  row.admins = row.ids
    BY <2>2
  <2>3. QED
    BY <2>1, <2>2 DEF Init
<1>3. \A q \in Reqs : copy[q] = NoRow
  BY DEF Init
<1>4. QED
  BY <1>1, <1>2, <1>3 DEF Paired

LEMMA NextPair == TypeOK /\ PairInv /\ [Next]_vars => PairInv'
<1> SUFFICES ASSUME TypeOK, PairInv, [Next]_vars, ~mixed' PROVE Paired'
  BY DEF PairInv
<1>1. CASE UNCHANGED vars
  BY <1>1 DEF vars, reqs, hist, PairInv, Paired
<1>2. ASSUME NEW r \in Reqs, Step(r), Observe PROVE Paired'
  <2>1. ~mixed /\ ~WritesOne(r)
    BY <1>2 DEF Observe
  <2>2. Well(r)
    BY <1>2, StepWell, TypeParts
  <2>3. Paired
    BY <2>1 DEF PairInv
  <2>4. row'.admins = row'.ids /\ copy'[r].admins = copy'[r].ids
    BY <2>1, <2>2, <2>3 DEF Well, PairStep
  <2>5. \A q \in Reqs \ {r} : copy'[q] = copy[q]
    BY <2>2 DEF Well, Keeps
  <2>6. QED
    BY <2>3, <2>4, <2>5 DEF Paired
<1>3. ASSUME Change, Observe PROVE Paired'
  <2>1. ~mixed
    BY <1>3 DEF Observe
  <2>2. row' = row /\ copy' = copy
    BY <1>3, ChangeKeeps, TypeParts
  <2>3. QED
    BY <2>1, <2>2 DEF PairInv, Paired
<1>4. QED
  BY <1>1, <1>2, <1>3 DEF Next

(* As long as no PUT and no updateAdmins has written the row, its admins by   *)
(* name and by id are the same users - for any number of requests, although   *)
(* each writes what it made of its own copy (updateAdmins, POST /builds,      *)
(* POST /pipelines/{id}/sync).                                                *)
THEOREM AdminsPaired == Spec => []AdminsAgree
<1> DEFINE Inv == TypeOK /\ PairInv
<1>1. Init => Inv
  BY InitType, InitPair
<1>2. Inv /\ [Next]_vars => Inv'
  BY NextType, NextPair
<1>3. Inv => AdminsAgree
  BY DEF PairInv, Paired, AdminsAgree
<1>4. QED
  BY <1>1, <1>2, <1>3, PTL DEF Spec

HalfInv == There /\ ~row.hooked => \E q \in Reqs : Creates(q) /\ copy[q].id = row.id

LEMMA InitHalf == Init => HalfInv
BY DEF Init, HalfInv, There, NoRow

LEMMA NextHalf == TypeOK /\ HalfInv /\ [Next]_vars => HalfInv'
<1> SUFFICES ASSUME TypeOK, HalfInv, [Next]_vars, row'.id # 0, ~row'.hooked
             PROVE  \E q \in Reqs : Creates(q)' /\ copy'[q].id = row'.id
  BY DEF HalfInv, There
<1>1. CASE UNCHANGED vars
  BY <1>1 DEF vars, reqs, hist, HalfInv, Creates, There
<1>2. ASSUME NEW r \in Reqs, Step(r)
      PROVE  \E q \in Reqs : Creates(q)' /\ copy'[q].id = row'.id
  <2>1. Keeps(r) /\ HalfStep(r)
    BY <1>2, StepWell, TypeParts DEF Well
  <2>2. CASE Creates(r)' /\ copy'[r].id = row'.id
    BY <2>2
  <2>3. CASE /\ row'.id = row.id /\ (row.hooked => row'.hooked)
             /\ Creates(r) /\ copy[r].id = row.id /\ ~row'.hooked
                  => Creates(r)' /\ copy'[r].id = copy[r].id
    <3>1. PICK q \in Reqs : Creates(q) /\ copy[q].id = row.id
      BY <2>3 DEF HalfInv, There
    <3>2. CASE q = r
      BY <2>3, <3>1, <3>2
    <3>3. CASE q # r
      <4>1. op'[q] = op[q] /\ pc'[q] = pc[q] /\ code'[q] = code[q] /\ copy'[q] = copy[q]
        BY <2>1, <3>3 DEF Keeps
      <4>2. QED
        BY <2>3, <3>1, <4>1 DEF Creates
    <3>4. QED
      BY <3>2, <3>3
  <2>4. QED
    BY <2>1, <2>2, <2>3 DEF HalfStep
<1>3. CASE Change
  BY <1>3, ChangeKeeps, TypeParts DEF HalfInv, Creates, There
<1>4. QED
  BY <1>1, <1>2, <1>3 DEF Next

(* A pipeline is never left without its webhooks silently: whoever created    *)
(* it is still at work or was told of an error, whatever other requests - of  *)
(* any number and kind - did meanwhile (POST /pipelines).                     *)
THEOREM HalfMade == Spec => []HalfMadeTold
<1> DEFINE Inv == TypeOK /\ HalfInv
<1>1. Init => Inv
  BY InitType, InitHalf
<1>2. Inv /\ [Next]_vars => Inv'
  BY NextType, NextHalf
<1>3. Inv => HalfMadeTold
  BY DEF HalfInv, Creates, HalfMadeTold
<1>4. QED
  BY <1>1, <1>2, <1>3, PTL DEF Spec

-----------------------------------------------------------------------------
(* What entitles a request to go on: how far it has come tells what it has   *)
(* seen, and what was true when it saw it.                                   *)
Starts == EventOps \cup HookOps \cup {"all"}

Just(r) ==
    /\ op[r] = "none" => pc[r] = "fetch"
    /\ events[r] # "none" =>
         /\ op[r] \in Starts \cup {"build"}
         /\ code[r] = 0 => op[r] = "build" /\ pc[r] = "start"
         /\ op[r] # "build" => live[r]
         /\ op[r] \notin HookOps \cup {"own_pr"} => could[r]
    /\ code[r] = 0 =>
         /\ op[r] \in Starts /\ pc[r] \in {"ask", "save", "start"} => live[r]
         /\ seen[r] # "none" => could[r]
         /\ op[r] \in {"event", "pr", "all", "build"} /\ pc[r] \in {"start", "sync"}
              => seen[r] # "none"

JustInv == \A r \in Reqs : Just(r)

(* What was true at some moment of a request stays so. *)
LEMMA HistoryFacts ==
  ASSUME Observe, NEW r \in Reqs
  PROVE  /\ live[r] => live'[r]
         /\ could[r] => could'[r]
         /\ AtWork(r)' /\ row'.state = "ACTIVE" => live'[r]
         /\ AtWork(r)' /\ perm'[who'[r]] # "none" => could'[r]
BY Zenon DEF Observe

LEMMA JustOther ==
  ASSUME Observe, NEW q \in Reqs, Just(q),
         /\ op'[q] = op[q] /\ pc'[q] = pc[q] /\ code'[q] = code[q]
         /\ seen'[q] = seen[q] /\ events'[q] = events[q]
  PROVE  Just(q)'
BY HistoryFacts DEF Just

(* A request that is answered without an event. *)
LEMMA JustAnswered ==
  ASSUME Observe, NEW r \in Reqs, Just(r), op' = op, op[r] # "none",
         events'[r] = events[r], code'[r] # 0
  PROVE  Just(r)'
BY HistoryFacts DEF Just

(* A request that goes on. *)
LEMMA JustGoes ==
  ASSUME DataOK, Observe, NEW r \in Reqs, Just(r), Keeps(r), op' = op, who' = who, op[r] # "none",
         code[r] = 0, code'[r] = 0, events[r] = "none", events'[r] = "none",
         op[r] \in Starts /\ pc'[r] \in {"ask", "save", "start"} =>
           pc[r] \in {"ask", "save", "start"} \/ row'.state = "ACTIVE",
         seen'[r] \in {seen[r], perm[Me(r)]},
         op[r] \in {"event", "pr", "all", "build"} /\ pc'[r] \in {"start", "sync"} => seen'[r] # "none"
  PROVE  Just(r)'
<1>1. AtWork(r)'
  BY DEF AtWork
<1>2. op[r] \in Starts /\ pc'[r] \in {"ask", "save", "start"} => live'[r]
  BY <1>1, HistoryFacts DEF Just
<1>3. seen'[r] # "none" => could'[r]
  <2>1. perm'[who'[r]] = perm[Me(r)]
    BY DEF Keeps, Me
  <2>2. QED
    BY <1>1, <2>1, HistoryFacts DEF Just
<1>4. QED
  BY <1>2, <1>3 DEF Just

(* A request that is answered when its event is made, or fails after it. *)
LEMMA JustMade ==
  ASSUME Observe, NEW r \in Reqs, Just(r), op' = op, op[r] \in Starts,
         code[r] = 0, pc[r] = "start", code'[r] # 0
  PROVE  Just(r)'
<1>1. live[r] /\ (op[r] \in {"event", "pr", "all"} => could[r])
  BY DEF Just
<1>2. op[r] \in HookOps \cup {"own_pr", "event", "pr", "all"}
  BY DEF Starts, EventOps
<1>3. op[r] # "build" /\ op[r] # "none"
  BY DEF Starts, EventOps, HookOps
<1>4. QED
  BY <1>1, <1>2, <1>3, HistoryFacts DEF Just

LEMMA EventJust ==
  ASSUME DataOK, Observe, NEW r \in Reqs, Just(r), Keeps(r),
         EventFetch(r) \/ EventAsk(r) \/ EventSave(r) \/ EventStart(r)
  PROVE  Just(r)'
<1>1. op[r] \in EventOps /\ op[r] # "none" /\ code[r] = 0 /\ op' = op /\ who' = who
  BY DEF EventFetch, EventAsk, EventSave, EventStart, At, EventOps, Fetch, Ask, UpdateAdmins, Save
<1>2. op[r] \notin {"build", "all", "none"} /\ op[r] \in Starts /\ events[r] = "none"
  BY <1>1 DEF Just, EventOps, Starts, DataOK
<1>3. CASE code'[r] # 0 /\ ~EventStart(r)
  <2>1. events' = events
    BY <1>3 DEF EventFetch, EventAsk, EventSave, Fetch, Ask
  <2>2. QED
    BY <1>1, <1>3, <2>1, JustAnswered
<1>4. CASE EventFetch(r) /\ code'[r] = 0
  <2>1. /\ pc' = [pc EXCEPT ![r] = "ask"] /\ There /\ row.state = "ACTIVE"
        /\ UNCHANGED <<row, seen, events>>
    BY <1>4 DEF EventFetch, Fetch, Answer, Go, DataOK
  <2>2. pc'[r] = "ask"
    BY <2>1 DEF DataOK
  <2>3. QED
    BY <1>1, <1>2, <1>4, <2>1, <2>2, JustGoes
<1>5. CASE EventAsk(r) /\ code'[r] = 0
  <2>1. /\ seen' = [seen EXCEPT ![r] = perm[Me(r)]] /\ pc[r] = "ask"
        /\ pc' = [pc EXCEPT ![r] = IF op[r] = "own_pr" THEN "start" ELSE "save"]
        /\ events' = events
    BY <1>5 DEF EventAsk, Ask, Answer, Fails, Go, DataOK, At
  <2>2. seen'[r] = perm[Me(r)] /\ pc'[r] = IF op[r] = "own_pr" THEN "start" ELSE "save"
    BY <2>1 DEF DataOK
  <2>3. QED
    BY <1>1, <1>2, <1>5, <2>1, <2>2, JustGoes
<1>6. CASE EventSave(r) /\ code'[r] = 0
  <2>1. /\ Pushes(r) /\ pc[r] = "save" /\ pc' = [pc EXCEPT ![r] = "start"]
        /\ events' = events /\ seen' = seen
    BY <1>6 DEF EventSave, UpdateAdmins, Answer, Fails, Go, Save, DataOK, At
  <2>2. pc'[r] = "start"
    BY <2>1 DEF DataOK
  <2>3. QED
    BY <1>1, <1>2, <1>6, <2>1, <2>2, JustGoes DEF Pushes
<1>7. CASE EventStart(r)
  <2>1. pc[r] = "start" /\ code'[r] # 0
    BY <1>7 DEF EventStart, At, Answer, Fails, DataOK
  <2>2. QED
    BY <1>1, <1>2, <2>1, JustMade
<1>8. QED
  BY <1>3, <1>4, <1>5, <1>6, <1>7

LEMMA BuildJust ==
  ASSUME DataOK, Observe, NEW r \in Reqs, Just(r), Keeps(r),
         BuildFetch(r) \/ BuildAsk(r) \/ BuildSave(r) \/ BuildEvent(r) \/ BuildCreate(r)
  PROVE  Just(r)'
<1>1. op[r] = "build" /\ code[r] = 0 /\ op' = op /\ who' = who
  BY DEF BuildFetch, BuildAsk, BuildSave, BuildEvent, BuildCreate, At, Fetch, Ask, Save
<1>2. op[r] \notin Starts
  BY <1>1 DEF EventOps, HookOps, Starts
<1>3. pc[r] # "start" => events[r] = "none"
  BY <1>1 DEF Just
<1>4. CASE code'[r] # 0 /\ ~BuildCreate(r)
  <2>1. events' = events
    BY <1>4 DEF BuildFetch, BuildAsk, BuildSave, BuildEvent, Fetch, Ask, Go, DataOK, At
  <2>2. QED
    BY <1>1, <1>4, <2>1, JustAnswered
<1>5. CASE BuildFetch(r) /\ code'[r] = 0
  <2>1. pc' = [pc EXCEPT ![r] = "ask"] /\ UNCHANGED <<seen, events>> /\ pc[r] = "fetch"
    BY <1>5 DEF BuildFetch, Fetch, Answer, Go, DataOK, At
  <2>2. pc'[r] = "ask"
    BY <2>1 DEF DataOK
  <2>3. QED
    BY <1>1, <1>2, <1>3, <1>5, <2>1, <2>2, JustGoes
<1>6. CASE BuildAsk(r) /\ code'[r] = 0
  <2>1. /\ seen' = [seen EXCEPT ![r] = perm[Me(r)]] /\ pc[r] = "ask"
        /\ pc' = [pc EXCEPT ![r] = "save"] /\ events' = events
    BY <1>6 DEF BuildAsk, Ask, Answer, Fails, Go, DataOK, At
  <2>2. seen'[r] = perm[Me(r)] /\ pc'[r] = "save"
    BY <2>1 DEF DataOK
  <2>3. QED
    BY <1>1, <1>2, <1>3, <1>6, <2>1, <2>2, JustGoes
<1>7. CASE BuildSave(r) /\ code'[r] = 0
  <2>1. /\ Pushes(r) /\ pc[r] = "save" /\ pc' = [pc EXCEPT ![r] = "sync"]
        /\ events' = events /\ seen' = seen
    BY <1>7 DEF BuildSave, Answer, Go, Save, DataOK, At
  <2>2. pc'[r] = "sync"
    BY <2>1 DEF DataOK
  <2>3. QED
    BY <1>1, <1>2, <1>3, <1>7, <2>1, <2>2, JustGoes DEF Pushes
<1>8. CASE BuildEvent(r) /\ code'[r] = 0
  <2>1. /\ pc[r] = "sync" /\ pc' = [pc EXCEPT ![r] = "start"] /\ seen' = seen
    BY <1>8 DEF BuildEvent, Answer, Fails, Go, DataOK, At
  <2>2. pc'[r] = "start"
    BY <2>1 DEF DataOK
  <2>3. seen[r] # "none" /\ could[r]
    BY <1>1, <2>1 DEF Just
  <2>4. QED
    BY <1>1, <1>2, <1>8, <2>1, <2>2, <2>3, HistoryFacts DEF Just
<1>9. CASE BuildCreate(r)
  <2>1. pc[r] = "start" /\ code'[r] # 0
    BY <1>9 DEF BuildCreate, At, Answer, Fails, DataOK
  <2>2. could[r]
    BY <1>1, <2>1 DEF Just
  <2>3. QED
    BY <1>1, <1>2, <2>1, <2>2, HistoryFacts DEF Just
<1>10. QED
  BY <1>4, <1>5, <1>6, <1>7, <1>8, <1>9

LEMMA AllJust ==
  ASSUME DataOK, Observe, NEW r \in Reqs, Just(r), Keeps(r), AllFetch(r) \/ AllAsk(r) \/ AllStart(r)
  PROVE  Just(r)'
<1>1. op[r] = "all" /\ code[r] = 0 /\ op' = op /\ who' = who /\ op[r] \in Starts
  BY DEF AllFetch, AllAsk, AllStart, At, Starts
<1>2. events[r] = "none"
  BY <1>1 DEF Just
<1>3. CASE code'[r] # 0 /\ ~AllStart(r)
  <2>1. events' = events
    BY <1>3 DEF AllFetch, AllAsk
  <2>2. QED
    BY <1>1, <1>3, <2>1, JustAnswered
<1>4. CASE AllFetch(r) /\ code'[r] = 0
  <2>1. /\ pc' = [pc EXCEPT ![r] = "ask"] /\ row.state = "ACTIVE"
        /\ UNCHANGED <<row, seen, events>>
    BY <1>4 DEF AllFetch, Answer, Go, DataOK
  <2>2. pc'[r] = "ask"
    BY <2>1 DEF DataOK
  <2>3. QED
    BY <1>1, <1>2, <1>4, <2>1, <2>2, JustGoes
<1>5. CASE AllAsk(r) /\ code'[r] = 0
  <2>1. /\ seen' = [seen EXCEPT ![r] = perm[Me(r)]] /\ pc[r] = "ask" /\ perm[Me(r)] # "none"
        /\ events' = events
    BY <1>5 DEF AllAsk, Answer, Go, DataOK, At
  <2>2. seen'[r] = perm[Me(r)]
    BY <2>1 DEF DataOK
  <2>3. QED
    BY <1>1, <1>2, <1>5, <2>1, <2>2, JustGoes
<1>6. CASE AllStart(r)
  <2>1. pc[r] = "start" /\ code'[r] # 0
    BY <1>6 DEF AllStart, At, Answer, DataOK
  <2>2. QED
    BY <1>1, <2>1, JustMade
<1>7. QED
  BY <1>3, <1>4, <1>5, <1>6

LEMMA HookJust ==
  ASSUME DataOK, Observe, NEW r \in Reqs, Just(r), Keeps(r),
         HookFetch(r) \/ HookAsk(r) \/ HookSave(r) \/ MergedAdmins(r) \/ HookStart(r)
  PROVE  Just(r)'
<1>1. op[r] \in HookOps /\ op[r] # "none" /\ code[r] = 0 /\ op' = op /\ who' = who
  BY DEF HookFetch, HookAsk, HookSave, MergedAdmins, HookStart, At, HookOps, Save
<1>2. op[r] \notin {"event", "pr", "all", "build"} /\ op[r] \in Starts
  BY <1>1 DEF HookOps, Starts
<1>3. events[r] = "none"
  BY <1>1, <1>2 DEF Just
<1>4. CASE HookFetch(r) /\ code'[r] # 0
  BY <1>1, <1>4, JustAnswered DEF HookFetch
<1>5. CASE HookFetch(r) /\ code'[r] = 0
  <2>1. row.state = "ACTIVE" /\ UNCHANGED <<row, seen, events>>
    BY <1>5 DEF HookFetch, Answer, Go, DataOK
  <2>2. QED
    BY <1>1, <1>2, <1>3, <1>5, <2>1, JustGoes
<1>6. CASE HookAsk(r) \/ HookSave(r) \/ MergedAdmins(r)
  <2>1. pc[r] \in {"ask", "save"} /\ code' = code /\ events' = events
    BY <1>6 DEF HookAsk, HookSave, MergedAdmins, At, Go
  <2>2. seen'[r] \in {seen[r], perm[Me(r)]}
    BY <1>6 DEF HookAsk, HookSave, MergedAdmins, Save, DataOK
  <2>3. QED
    BY <1>1, <1>2, <1>3, <2>1, <2>2, JustGoes
<1>7. CASE HookStart(r)
  <2>1. pc[r] = "start" /\ code'[r] # 0
    BY <1>7 DEF HookStart, At, Answer, Fails, DataOK
  <2>2. QED
    BY <1>1, <1>2, <2>1, JustMade
<1>8. QED
  BY <1>4, <1>5, <1>6, <1>7

(* A request that starts nothing. *)
LEMMA JustElse ==
  ASSUME DataOK, Observe, NEW r \in Reqs, Just(r), Keeps(r), op' = op, who' = who, events' = events,
         op[r] \notin Starts \cup {"build", "none"},
         code'[r] = 0 => code[r] = 0 /\ seen'[r] \in {seen[r], perm[Me(r)]}
  PROVE  Just(r)'
<1>1. events'[r] = "none" /\ op[r] \notin {"event", "pr", "all", "build"}
  BY DEF Just, Starts, EventOps
<1>2. CASE code'[r] = 0
  <2>1. AtWork(r)'
    BY <1>2 DEF AtWork
  <2>2. perm'[who'[r]] = perm[Me(r)]
    BY DEF Keeps, Me
  <2>3. seen'[r] # "none" => could'[r]
    BY <1>2, <2>1, <2>2, HistoryFacts DEF Just
  <2>4. QED
    BY <1>1, <2>3 DEF Just
<1>3. CASE code'[r] # 0
  BY <1>1, <1>3 DEF Just
<1>4. QED
  BY <1>2, <1>3

LEMMA ElseJust ==
  ASSUME DataOK, Observe, NEW r \in Reqs, Just(r), Keeps(r),
         \/ SyncFetch(r) \/ SyncAsk(r) \/ SyncSave(r)
         \/ HooksFetch(r) \/ HooksAsk(r) \/ HooksAdd(r) \/ PrsSync(r)
         \/ AdminsFetch(r) \/ AdminsAsk(r) \/ AdminsSave(r)
         \/ BatchSave(r) \/ BatchAnswer(r) \/ BatchFails(r) \/ BatchLate(r)
         \/ PutFetch(r) \/ PutAsk(r) \/ PutChild(r) \/ PutState(r) \/ PutSave(r) \/ PutFinish(r)
         \/ RemoveFetch(r) \/ RemoveAsk(r) \/ RemoveStart(r) \/ RemoveEnd(r)
         \/ CreateAsk(r) \/ CreateCheck(r) \/ CreateRow(r) \/ CreateSetUp(r) \/ CreateHooks(r)
  PROVE  Just(r)'
<1>1. op[r] \notin Starts \cup {"build", "none"}
  BY DEF SyncFetch, SyncAsk, SyncSave, HooksFetch, HooksAsk, HooksAdd, PrsSync,
         AdminsFetch, AdminsAsk, AdminsSave, BatchSave, BatchAnswer, BatchFails, BatchLate,
         PutFetch, PutAsk, PutChild, PutState, PutSave, PutFinish,
         RemoveFetch, RemoveAsk, RemoveStart, RemoveEnd,
         CreateAsk, CreateCheck, CreateRow, CreateSetUp, CreateHooks,
         At, Starts, EventOps, HookOps, AdminOps, PutOps
<1>2. CASE SyncFetch(r) \/ SyncAsk(r) \/ SyncSave(r)
  BY <1>1, <1>2, JustElse DEF SyncFetch, SyncAsk, SyncSave, SyncAdmins, At, Fetch, Ask, Save, DataOK
<1>3. CASE HooksFetch(r) \/ HooksAsk(r) \/ HooksAdd(r) \/ PrsSync(r)
  BY <1>1, <1>3, JustElse DEF HooksFetch, HooksAsk, HooksAdd, PrsSync, AddWebhooks, At, Fetch, DataOK
<1>4. CASE AdminsFetch(r) \/ AdminsAsk(r) \/ AdminsSave(r)
  BY <1>1, <1>4, JustElse DEF AdminsFetch, AdminsAsk, AdminsSave, At, Fetch, Ask, DataOK
<1>5. CASE BatchSave(r) \/ BatchAnswer(r) \/ BatchFails(r) \/ BatchLate(r)
  BY <1>1, <1>5, JustElse DEF BatchSave, BatchAnswer, BatchFails, BatchLate, At, Go, DataOK
<1>6. CASE PutFetch(r) \/ PutAsk(r) \/ PutChild(r) \/ PutState(r) \/ PutSave(r) \/ PutFinish(r)
  BY <1>1, <1>6, JustElse
  DEF PutFetch, PutAsk, PutChild, PutState, PutSave, PutFinish, AddWebhooks, At, Fetch, DataOK
<1>7. CASE RemoveFetch(r) \/ RemoveAsk(r) \/ RemoveStart(r) \/ RemoveEnd(r)
  BY <1>1, <1>7, JustElse DEF RemoveFetch, RemoveAsk, RemoveStart, RemoveEnd, At, Fetch, DataOK
<1>8. CASE CreateAsk(r) \/ CreateCheck(r) \/ CreateRow(r) \/ CreateSetUp(r) \/ CreateHooks(r)
  BY <1>1, <1>8, JustElse
  DEF CreateAsk, CreateCheck, CreateRow, CreateSetUp, CreateHooks, AddWebhooks, At, DataOK
<1>9. QED
  BY <1>2, <1>3, <1>4, <1>5, <1>6, <1>7, <1>8

LEMMA ReceiveJust ==
  ASSUME DataOK, Observe, NEW r \in Reqs, Just(r), Keeps(r), Receive(r)
  PROVE  Just(r)'
<1>1. pc'[r] = "fetch" /\ events'[r] = "none" /\ UNCHANGED <<seen, code>>
  BY DEF Receive, Just, Starts, EventOps, HookOps
<1>2. code'[r] = 0 /\ seen'[r] # "none" => could'[r]
  BY <1>1, HistoryFacts DEF Just
<1>3. QED
  BY <1>1, <1>2 DEF Just

LEMMA StepJust ==
  ASSUME DataOK, Observe, NEW r \in Reqs, Just(r), Step(r)
  PROVE  Just(r)'
<1>1. Keeps(r)
  BY StepWell DEF Well
<1>2. QED
  BY <1>1, EventJust, BuildJust, AllJust, HookJust, ElseJust, ReceiveJust DEF Step

LEMMA InitJust == Init => JustInv
BY DEF Init, JustInv, Just

LEMMA NextJust == TypeOK /\ JustInv /\ [Next]_vars => JustInv'
<1> SUFFICES ASSUME TypeOK, JustInv, [Next]_vars PROVE JustInv'
  OBVIOUS
<1>1. CASE UNCHANGED vars
  BY <1>1 DEF vars, reqs, hist, JustInv, Just
<1>2. ASSUME NEW r \in Reqs, Step(r), Observe, NEW q \in Reqs PROVE Just(q)'
  <2>1. Just(r) /\ Just(q) /\ DataOK
    BY TypeParts DEF JustInv
  <2>2. CASE q = r
    BY <1>2, <2>1, <2>2, StepJust
  <2>3. CASE q # r
    <3>1. Keeps(r)
      BY <1>2, <2>1, StepWell DEF Well
    <3>2. QED
      BY <1>2, <2>1, <2>3, <3>1, JustOther DEF Keeps
  <2>4. QED
    BY <2>2, <2>3
<1>3. ASSUME Change, Observe, NEW q \in Reqs PROVE Just(q)'
  BY <1>3, ChangeKeeps, TypeParts, JustOther DEF JustInv
<1>4. QED
  BY <1>1, <1>2, <1>3 DEF Next, JustInv

(* Nobody starts anything that was never allowed: whatever is granted,        *)
(* withdrawn or switched off meanwhile, an event is made only by a request    *)
(* that met an ACTIVE pipeline and, where it needs it, a user who could push  *)
(* - for any number of requests and users (POST /events, POST /builds,        *)
(* createEvents).                                                             *)
THEOREM Justified == Spec => []StartsJustified
<1> DEFINE Inv == TypeOK /\ JustInv
<1>1. Init => Inv
  BY InitType, InitJust
<1>2. Inv /\ [Next]_vars => Inv'
  BY NextType, NextJust
<1>3. Inv => StartsJustified
  BY DEF JustInv, Just, StartsJustified
<1>4. QED
  BY <1>1, <1>2, <1>3, PTL DEF Spec

(* The step that refuses a start or a sync. *)
LEMMA RefusedOut ==
  ASSUME TypeOK, JustInv, Next, NEW r \in Reqs, code[r] = 0, code'[r] = 403,
         op[r] \in {"event", "pr", "build", "sync"}
  PROVE  /\ row.id = copy[r].id => Me(r) \notin row'.admins \cup row'.ids
         /\ events'[r] = "none"
<1>1. DataOK /\ Just(r)
  BY TypeParts DEF JustInv
<1>2. PICK q \in Reqs : Step(q)
  BY <1>1, ChangeKeeps DEF Next
<1>3. q = r
  BY <1>1, <1>2, StepWell DEF Well, Keeps
<1>4. op[r] \notin {"none", "own_pr", "all"} \cup HookOps \cup AdminOps \cup PutOps \cup
                 {"webhooks", "prs", "delete", "create"}
  BY DEF HookOps, AdminOps, PutOps
<1>5. CASE EventFetch(r) \/ EventAsk(r) \/ EventSave(r) \/ EventStart(r)
  <2>1. EventSave(r) /\ Answer(r, 403) /\ Save(r, Without(r), Others(r))
    BY <1>1, <1>5 DEF EventFetch, EventAsk, EventSave, EventStart, UpdateAdmins, Fetch, Ask,
       Answer, Fails, Go, DataOK
  <2>2. events'[r] = events[r] /\ pc[r] = "save"
    BY <2>1 DEF EventSave, At
  <2>3. events[r] = "none"
    BY <1>1, <2>2 DEF Just
  <2>4. QED
    BY <1>1, <2>1, <2>2, <2>3, SaveFacts, RowWell DEF Without, Others
<1>6. CASE BuildFetch(r) \/ BuildAsk(r) \/ BuildSave(r) \/ BuildEvent(r) \/ BuildCreate(r)
  <2>1. BuildSave(r) /\ Answer(r, 403) /\ Save(r, Without(r), Others(r))
    BY <1>1, <1>6 DEF BuildFetch, BuildAsk, BuildSave, BuildEvent, BuildCreate, Fetch, Ask,
       Answer, Fails, Go, DataOK
  <2>2. events'[r] = events[r] /\ pc[r] = "save"
    BY <2>1 DEF BuildSave, At
  <2>3. events[r] = "none"
    BY <1>1, <2>2 DEF Just
  <2>4. QED
    BY <1>1, <2>1, <2>2, <2>3, SaveFacts, RowWell DEF Without, Others
<1>7. CASE SyncFetch(r) \/ SyncAsk(r) \/ SyncSave(r)
  <2>1. SyncSave(r) /\ ~Pushes(r) /\ SyncAdmins(r) /\ events' = events /\ op[r] = "sync"
    BY <1>1, <1>7 DEF SyncFetch, SyncAsk, SyncSave, Fetch, Ask, Answer, Fails, Go, At, DataOK
  <2>2. Save(r, Without(r), Others(r))
    BY <2>1 DEF SyncAdmins
  <2>3. events[r] = "none"
    BY <1>1, <2>1 DEF Just, Starts, EventOps, HookOps
  <2>4. QED
    BY <1>1, <2>1, <2>2, <2>3, SaveFacts, RowWell DEF Without, Others
<1>8. QED
  BY <1>2, <1>3, <1>4, <1>5, <1>6, <1>7
  DEF Step, Receive, HooksFetch, HooksAsk, HooksAdd, PrsSync, AdminsFetch, AdminsAsk, AdminsSave,
      BatchSave, BatchAnswer, BatchFails, BatchLate, PutFetch, PutAsk, PutChild, PutState, PutSave,
      PutFinish, RemoveFetch, RemoveAsk, RemoveStart, RemoveEnd, AllFetch, AllAsk, AllStart,
      HookFetch, HookAsk, HookSave, MergedAdmins, HookStart, CreateAsk, CreateCheck, CreateRow,
      CreateSetUp, CreateHooks, At

(* Whoever is refused a start or a sync for the lack of the push permission   *)
(* is no admin any more when the answer is given and has started nothing -    *)
(* for any number of requests that write the row meanwhile (updateAdmins of   *)
(* plugins/events, POST /builds, POST /pipelines/{id}/sync).                  *)
THEOREM RefusedLeaves == Spec => RefusedIsOut
<1> DEFINE Inv == TypeOK /\ JustInv
<1>1. Init => Inv
  BY InitType, InitJust
<1>2. Inv /\ [Next]_vars => Inv'
  BY NextType, NextJust
<1>3. Inv /\ [Next]_vars =>
        [\A r \in Reqs :
           code[r] = 0 /\ code'[r] = 403 /\ op[r] \in {"event", "pr", "build", "sync"}
             => /\ row.id = copy[r].id => Me(r) \notin row'.admins \cup row'.ids
                /\ events'[r] = "none"]_vars
  BY RefusedOut
<1>4. QED
  BY <1>1, <1>2, <1>3, PTL DEF Spec, RefusedIsOut
=============================================================================
