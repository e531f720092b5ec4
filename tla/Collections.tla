---------------------------- MODULE Collections ----------------------------
(***************************************************************************)
(* The collections of pipelines a user keeps (plugins/collections), and    *)
(* the logins that give every user a default one (plugins/auth).  Handlers *)
(* read the collection and the user, check, and write later.  A request    *)
(* that is refused changes nothing and takes no step.                      *)
(***************************************************************************)
EXTENDS Naturals, Sequences

CONSTANTS
    Users,
    Names,      \* names of collections; "My Pipelines" is one of them
    Pipelines,
    Requests,
    MaxRows     \* bound on the collections ever created

CollectionsAssumption == "My Pipelines" \in Names /\ MaxRows \in Nat

VARIABLES
    known,    \* users that have a row
    coll,     \* coll[i]: the collection with id i, or Removed
    exists,   \* the pipelines there are
    req,      \* req[r]: what r does and where it stands
    welcome   \* history: users whose login was answered

vars == <<known, coll, exists, req, welcome>>

Removed   == [type |-> "removed"]
Live      == {i \in DOMAIN coll : coll[i] # Removed}
Owned(u)  == {i \in Live : coll[i].user = u}
Default(u) == {i \in Owned(u) : coll[i].type = "default"}

Init ==
    /\ known = {} /\ coll = <<>> /\ exists = Pipelines /\ welcome = {}
    /\ req = [r \in Requests |-> [pc |-> "idle"]]

Go(r, next) == req' = [req EXCEPT ![r] = next]
Start(r, next) == req[r].pc = "idle" /\ Go(r, next) /\ UNCHANGED <<known, coll, exists, welcome>>
Answer(r) == Go(r, [pc |-> "idle"])

-----------------------------------------------------------------------------
(* Logins *)

\* With OAuth: the checks of the user and the signed session come first.
Login(r, u) == Start(r, [pc |-> "user", user |-> u])

\* The user's row is created, or its SCM token is renewed.
StoreUser(r) ==
    /\ req[r].pc = "user"
    /\ known' = known \cup {req[r].user}
    /\ Go(r, [req[r] EXCEPT !.pc = "defaults"])
    /\ UNCHANGED <<coll, exists, welcome>>

\* With an API token the user must be known.
TokenLogin(r, u) == u \in known /\ Start(r, [pc |-> "defaults", user |-> u])

\* Wrong: any collection of the user will do.
AnyOwned(u) == Owned(u) = {}

Lacking(u) == Default(u) = {}

\* createDefaultCollection lists the default ones; there may be one already.
ListDefaults(r) ==
    LET u == req[r].user
    IN  /\ req[r].pc = "defaults"
        /\ IF Lacking(u)
           THEN /\ Go(r, [pc |-> "create", login |-> TRUE, row |->
                         [user |-> u, type |-> "default", name |-> "My Pipelines", pipelineIds |-> {}]])
                /\ UNCHANGED welcome
           ELSE Answer(r) /\ welcome' = welcome \cup {u}
        /\ UNCHANGED <<known, coll, exists>>

-----------------------------------------------------------------------------
(* Requests of a user *)

\* POST: never of type default; the name is not the user's yet; pipelines that
\* do not exist are left out.
Create(r, u, n) ==
    /\ u \in known
    /\ \A i \in Owned(u) : coll[i].name # n
    /\ \E ps \in SUBSET Pipelines :
         Start(r, [pc |-> "create", login |-> FALSE, row |->
                   [user |-> u, type |-> "normal", name |-> n, pipelineIds |-> ps \cap exists]])

\* The row is created, or that fails and so does the request.
WriteCreate(r) ==
    /\ req[r].pc = "create" /\ Len(coll) < MaxRows
    /\ \/ /\ coll' = Append(coll, req[r].row)
          /\ welcome' = IF req[r].login THEN welcome \cup {req[r].row.user} ELSE welcome
       \/ UNCHANGED <<coll, welcome>>
    /\ Answer(r)
    /\ UNCHANGED <<known, exists>>

\* Wrong: whoever owns the collection may change it.
OwnerOnly(u, i) == i \in Owned(u)

\* PUT: the owner of a collection that is not the default one.
MayUpdate(u, i) == i \in Owned(u) \ Default(u)

Update(r, u, i) ==
    /\ MayUpdate(u, i)
    /\ \E n \in Names, ps \in SUBSET Pipelines :
         Start(r, [pc |-> "write", i |-> i, row |->
                   [coll[i] EXCEPT !.type = "normal", !.name = n, !.pipelineIds = ps \cap exists]])

\* PUT /collections/{id}/pipelines adds pipelines that exist; the default
\* collection takes them as well.
AddPipelines(r, u, i) ==
    /\ i \in Owned(u)
    /\ \E ps \in SUBSET Pipelines :
         Start(r, [pc |-> "write", i |-> i, row |->
                   [coll[i] EXCEPT !.pipelineIds = @ \cup (ps \cap exists)]])

\* DELETE /collections/{id}/pipelines takes out some of them, or all.
RemovePipelines(r, u, i) ==
    /\ i \in Owned(u)
    /\ \E ps \in SUBSET Pipelines :
         Start(r, [pc |-> "write", i |-> i, row |-> [coll[i] EXCEPT !.pipelineIds = @ \ ps]])

\* update() writes the attributes of the copy; a row that is gone stays so.
Write(r) ==
    LET i == req[r].i
    IN  /\ req[r].pc = "write"
        /\ coll' = IF i \in Live THEN [coll EXCEPT ![i] = req[r].row] ELSE coll
        /\ Answer(r)
        /\ UNCHANGED <<known, exists, welcome>>

\* DELETE: the owner of a collection that is not the default one.
MayRemove(u, i) == i \in Owned(u) \ Default(u)

RemoveOne(r, u, i) == MayRemove(u, i) /\ Start(r, [pc |-> "remove", i |-> i])

WriteRemoval(r) ==
    /\ req[r].pc = "remove"
    /\ coll' = [coll EXCEPT ![req[r].i] = Removed]
    /\ Answer(r)
    /\ UNCHANGED <<known, exists, welcome>>

\* Pipelines are removed by requests of their own.
DeletePipeline(p) ==
    /\ p \in exists /\ exists' = exists \ {p}
    /\ UNCHANGED <<known, coll, req, welcome>>

-----------------------------------------------------------------------------
Handle(r) ==
    \/ \E u \in Users : Login(r, u) \/ TokenLogin(r, u)
    \/ \E u \in Users, n \in Names : Create(r, u, n)
    \/ \E u \in Users, i \in Live :
         Update(r, u, i) \/ AddPipelines(r, u, i) \/ RemovePipelines(r, u, i) \/ RemoveOne(r, u, i)
    \/ StoreUser(r) \/ ListDefaults(r) \/ WriteCreate(r) \/ Write(r) \/ WriteRemoval(r)

Next == (\E r \in Requests : Handle(r)) \/ \E p \in Pipelines : DeletePipeline(p)

Spec == Init /\ [][Next]_vars

-----------------------------------------------------------------------------
\* A user whose login was answered has a default collection, from then on and
\* whatever overlapping logins and requests do: none of them removes it, turns
\* it into a normal one, or takes another collection for it
\* (auth/index.js:42, collections/update.js:42, remove.js:36).
DefaultCollection == \A u \in welcome : u \in known /\ Default(u) # {}
=============================================================================
