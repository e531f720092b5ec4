---------------------------- MODULE Credentials -----------------------------
(***************************************************************************)
(* The API tokens of users and pipelines and the secrets of a pipeline     *)
(* (plugins/tokens, plugins/pipelines/tokens, plugins/secrets), and how a  *)
(* token is exchanged for a session (plugins/auth/index.js).  A handler    *)
(* reads rows, checks them and writes later.  A request that is refused    *)
(* changes nothing and takes no step.                                      *)
(*                                                                         *)
(* The value of a token is what its bearer sends, that of a secret what    *)
(* builds get; values are numbers that are never given twice.  `attr` is   *)
(* what PUT changes besides: the name of a token, allowInPR of a secret.   *)
(***************************************************************************)
EXTENDS Naturals, FiniteSets

CONSTANTS
    Ids,        \* rows that may be created
    Names,
    Requests,
    MaxValue    \* bound on the values given out

ASSUME CredentialsAssumption == MaxValue \in Nat

Kinds == {"userToken", "pipelineToken", "secret"}

VARIABLES
    row,      \* row[i]: kind, name, attr and value, or Absent
    pipe,     \* the state of the pipeline, or "gone"
    last,     \* the last value given out
    req,      \* req[r]: what r does and where it stands
    revoked,  \* history: values that a request has replaced or removed
    session   \* history: sessions [value, late]: late if the value was revoked
              \* before the login began

vars == <<row, pipe, last, req, revoked, session>>

Absent == [kind |-> "none"]
Idle   == [pc |-> "idle"]
Live   == {i \in Ids : row[i] # Absent}

Init ==
    /\ row = [i \in Ids |-> Absent] /\ pipe = "ACTIVE" /\ last = 0
    /\ req = [r \in Requests |-> Idle] /\ revoked = {} /\ session = {}

Go(r, new) ==
    /\ req[r] = Idle
    /\ req' = [req EXCEPT ![r] = new]
    /\ UNCHANGED <<row, pipe, last, revoked, session>>

Answer(r) == req' = [req EXCEPT ![r] = Idle]

-----------------------------------------------------------------------------
(* Creating *)

\* The rows of the same owner that have the name.
Named(kind, n) == {i \in Live : row[i].kind = kind /\ row[i].name = n}

\* Secrets and tokens of a pipeline are refused while it is being deleted.
MayCreate(kind, n) == (kind = "userToken" \/ pipe = "ACTIVE") /\ Named(kind, n) = {}

Create(r, kind, n) ==
    MayCreate(kind, n) /\ Go(r, [pc |-> "create", kind |-> kind, name |-> n])

WriteNew(r) ==
    /\ req[r].pc = "create" /\ last < MaxValue
    /\ \E i \in Ids \ Live :
         row' = [row EXCEPT ![i] = [kind |-> req[r].kind, name |-> req[r].name, attr |-> FALSE, value |-> last + 1]]
    /\ last' = last + 1
    /\ Answer(r)
    /\ UNCHANGED <<pipe, revoked, session>>

-----------------------------------------------------------------------------
(* Changing: PUT of a token renames it, PUT of a secret may leave the value *)

\* The pipeline is looked up for its own rows; a name may be taken by itself only.
MayChange(i, n) ==
    /\ row[i].kind = "userToken" \/ pipe # "gone"
    /\ row[i].kind = "secret" \/ Named(row[i].kind, n) \subseteq {i}

Change(r, i, n) ==
    i \in Live /\ MayChange(i, n) /\ Go(r, [pc |-> "change", i |-> i, name |-> n, seen |-> row[i]])

\* Wrong: the update writes all of the row as it was read.
WholeRow(r) == [req[r].seen EXCEPT !.name = req[r].name]

\* What update() leaves in the row: the attributes that were assigned, only.
Changed(r) ==
    LET i == req[r].i
    IN  IF row[i].kind = "secret" THEN [row[i] EXCEPT !.attr = ~req[r].seen.attr]
        ELSE [row[i] EXCEPT !.name = req[r].name]

WriteChange(r) ==
    LET i == req[r].i
    IN  /\ req[r].pc = "change"
        /\ row' = IF i \in Live THEN [row EXCEPT ![i] = Changed(r)] ELSE row
        /\ Answer(r)
        /\ UNCHANGED <<pipe, last, revoked, session>>

-----------------------------------------------------------------------------
(* Replacing the value: refresh of a token, PUT of a secret's value *)

Replace(r, i) ==
    /\ i \in Live
    /\ CASE row[i].kind = "userToken"     -> TRUE
         [] row[i].kind = "pipelineToken" -> pipe = "ACTIVE"
         [] row[i].kind = "secret"        -> pipe # "gone"
    /\ Go(r, [pc |-> "replace", i |-> i])

WriteValue(r) ==
    LET i == req[r].i
    IN  /\ req[r].pc = "replace" /\ last < MaxValue
        /\ last' = last + 1
        /\ IF i \in Live THEN /\ row' = [row EXCEPT ![i].value = last + 1]
                              /\ revoked' = revoked \cup {row[i].value}
                         ELSE UNCHANGED <<row, revoked>>
        /\ Answer(r)
        /\ UNCHANGED <<pipe, session>>

-----------------------------------------------------------------------------
(* Removing *)

RemoveToken(r, i) ==
    /\ i \in Live /\ row[i].kind # "secret"
    /\ row[i].kind = "pipelineToken" => pipe # "gone"
    /\ Go(r, [pc |-> "remove", i |-> i])

RemoveSecret(r, i) ==
    /\ i \in Live /\ row[i].kind = "secret" /\ pipe # "gone"
    /\ Go(r, [pc |-> "remove", i |-> i])

WriteRemoval(r) ==
    LET i == req[r].i
    IN  /\ req[r].pc = "remove"
        /\ row' = [row EXCEPT ![i] = Absent]
        /\ revoked' = IF i \in Live THEN revoked \cup {row[i].value} ELSE revoked
        /\ Answer(r)
        /\ UNCHANGED <<pipe, last, session>>

\* DELETE /pipelines/{id}: the rows of the pipeline may stay behind.
DeletePipeline ==
    /\ pipe # "gone"
    /\ pipe' = IF pipe = "ACTIVE" THEN "DELETING" ELSE "gone"
    /\ UNCHANGED <<row, last, req, revoked, session>>

-----------------------------------------------------------------------------
(* auth_token: a session for a value *)

Bearer(v) == {i \in Live : row[i].kind # "secret" /\ row[i].value = v}

FindToken(r, v) ==
    /\ Bearer(v) # {}
    /\ Go(r, [pc |-> "owner", value |-> v, late |-> v \in revoked])

\* The owner is looked up by the value once more; then the session is signed.
FindOwner(r) ==
    LET v     == req[r].value
        found == {i \in Bearer(v) : row[i].kind = "userToken" \/ pipe # "gone"}
    IN  /\ req[r].pc = "owner"
        /\ session' = IF found = {} THEN session
                      ELSE session \cup {[value |-> v, late |-> req[r].late]}
        /\ Answer(r)
        /\ UNCHANGED <<row, pipe, last, revoked>>

-----------------------------------------------------------------------------
Handle(r) ==
    \/ \E kind \in Kinds, n \in Names : Create(r, kind, n)
    \/ \E i \in Ids, n \in Names : Change(r, i, n)
    \/ \E i \in Ids : Replace(r, i) \/ RemoveToken(r, i) \/ RemoveSecret(r, i)
    \/ \E v \in 1 .. last : FindToken(r, v)
    \/ WriteNew(r) \/ WriteChange(r) \/ WriteValue(r) \/ WriteRemoval(r) \/ FindOwner(r)

Next == (\E r \in Requests : Handle(r)) \/ DeletePipeline

Spec == Init /\ [][Next]_vars

-----------------------------------------------------------------------------
\* What has been revoked stays out: once a value was replaced or removed, no
\* row ever carries it again, whatever the requests that had read it before
\* write later, and no login with it that begins then gets a session
\* (tokens/update.js:48, pipelines/tokens/update.js:63, secrets/update.js:36,
\* auth/index.js:192).
RevokedStaysOut ==
    /\ \A i \in Live : row[i].value \notin revoked
    /\ \A s \in session : ~s.late
=============================================================================
