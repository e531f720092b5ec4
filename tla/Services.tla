------------------------------ MODULE Services ------------------------------
(***************************************************************************)
(* The requests that write what users, builds and administrators set:      *)
(* tokens and secrets (Credentials), the catalogs of templates and         *)
(* commands (Catalog), logins and collections (Collections), clusters,     *)
(* jobs and banners (Clusters).  The modules share no state; each has its  *)
(* variables and constants here, so that one run can check and one module  *)
(* can prove what they promise.                                            *)
(***************************************************************************)
EXTENDS Credentials

-----------------------------------------------------------------------------
(* One name of a catalog *)

CONSTANTS
    CatalogKinds,   \* Catalog's Kinds
    Creds, Tags, MaxVersions, MaxFails, MaxAsked

VARIABLES catalog, crow, tag, meta, store, creq, fails, asked, marred
cvars == <<catalog, crow, tag, meta, store, creq, fails, asked, marred>>

Cat == INSTANCE Catalog WITH
    Kinds <- CatalogKinds, kind <- catalog, row <- crow, req <- creq

ASSUME CatalogAssumed == Cat!CatalogAssumption

-----------------------------------------------------------------------------
(* Logins and collections *)

CONSTANTS
    Users,
    CollectionNames, MaxCollections,   \* Collections' Names and MaxRows
    Pipelines

VARIABLES known, coll, exists, oreq, welcome
ovars == <<known, coll, exists, oreq, welcome>>

Col == INSTANCE Collections WITH
    Names <- CollectionNames, MaxRows <- MaxCollections, req <- oreq

ASSUME CollectionsAssumed == Col!CollectionsAssumption

-----------------------------------------------------------------------------
(* What administrators set *)

CONSTANTS
    Contexts, ContextOf, Admins,
    ClusterNames, ClusterIds,   \* Clusters' Names and Rows
    MaxWrites, MaxSyncs

VARIABLES cluster, job, pipeline, banner, treq, begun, word, undone
tvars == <<cluster, job, pipeline, banner, treq, begun, word, undone>>

Clu == INSTANCE Clusters WITH
    Names <- ClusterNames, Rows <- ClusterIds, pipe <- pipeline, req <- treq

ASSUME ClustersAssumed == Clu!ClustersAssumption

-----------------------------------------------------------------------------
(* The properties, stated in the modules; RevokedStaysOut is Credentials'. *)

\* Catalog: owners, tags, latest versions and files are right, but for what
\* requests that overlap or fail have marred.
CatalogSound == Cat!CatalogSound

\* Collections: who has logged in has a default collection.
DefaultCollection == Col!DefaultCollection

\* Clusters: only a request that has read before undoes what others have set.
OnlyStaleUndoes == Clu!OnlyStaleUndoes
=============================================================================
