----------------------------- MODULE Downloads -----------------------------
(***************************************************************************)
(* The artifacts of a build (plugins/builds/artifacts): one file, all      *)
(* files or a directory as a ZIP, and the request to expand an archive.    *)
(* The files and their list, manifest.txt, are in the store, where the     *)
(* build may still add to them and old ones vanish.  A ZIP is made while   *)
(* it is sent: what fails then can only break the connection off.          *)
(***************************************************************************)
EXTENDS Integers, FiniteSetsExt, TLC

CONSTANTS
    Files,      \* files of the build
    Dir,        \* those of the directory that may be asked for
    MaxSize,    \* maxDownloadSize
    Users       \* who may ask: [scope, pull, own], see MayPull

DownloadsAssumption == Dir \subseteq Files /\ MaxSize \in Nat

VARIABLES
    stored,     \* stored[f]: the size of a file in the store
    manifest,   \* the files it lists
    packed,     \* the files of an archive that has not been expanded
    what,       \* what is asked for: "none", "all", "dir" or a file
    pc,         \* where the handler stands: "idle", "manifest", "sizes",
                \* "stream", "whole" (the answer has ended), "broken" or "refused"
    files,      \* files still to be looked at, or to be streamed
    zip,        \* zip[f]: the size of a file that has been sent
    total,      \* the sizes added up, or NaN
    listed,     \* history: the files that were asked for, by the manifest
    changed     \* history: a file has changed or vanished since the manifest was read

req == <<what, files, zip, total, listed>>
vars == <<stored, manifest, packed, what, pc, files, zip, total, listed, changed>>

NaN   == -1
Sizes == 1 .. MaxSize

Init ==
    /\ stored = [f \in {} |-> 0] /\ manifest = {} /\ packed \in SUBSET Files
    /\ what = "none" /\ pc = "idle" /\ files = {} /\ zip = [f \in {} |-> 0]
    /\ total = 0 /\ listed = {} /\ changed = FALSE

-----------------------------------------------------------------------------
(* The store *)

Put(f, size) ==
    /\ stored' = (f :> size) @@ stored
    /\ changed' = (changed \/ (f \in DOMAIN stored /\ stored[f] # size))

Upload(f) ==
    /\ f \notin packed
    /\ \E size \in Sizes : Put(f, size)
    /\ UNCHANGED <<manifest, packed, pc, req>>

WriteManifest == manifest' = DOMAIN stored /\ UNCHANGED <<stored, packed, pc, req, changed>>

Expire(f) ==
    /\ f \in DOMAIN stored
    /\ stored' = [g \in DOMAIN stored \ {f} |-> stored[g]] /\ changed' = TRUE
    /\ UNCHANGED <<manifest, packed, pc, req>>

-----------------------------------------------------------------------------
(* The requests *)

\* canAccessPipeline(..., 'pull'): users by their permission, tokens of builds
\* and pipelines by the pipeline they belong to.
MayPull(u, private) ==
    \/ u.scope = "admin" \/ ~private
    \/ IF u.scope = "user" THEN u.pull ELSE u.own

Ask(u, private, w) ==
    /\ pc = "idle" /\ MayPull(u, private)
    /\ what' = w
    /\ IF w \in {"all", "dir"} THEN pc' = "manifest" /\ files' = {} ELSE pc' = "stream" /\ files' = {w}
    /\ listed' = files'
    /\ UNCHANGED <<stored, manifest, packed, zip, total, changed>>

\* GET /builds/{id}/artifacts lists and streams all files of the manifest.
ReadAll ==
    /\ pc = "manifest" /\ what = "all"
    /\ files' = manifest /\ listed' = manifest /\ pc' = "stream"
    /\ UNCHANGED <<stored, manifest, packed, what, zip, total, changed>>

\* For a directory the sizes are asked for first.
ReadDir ==
    /\ pc = "manifest" /\ what = "dir"
    /\ files' = manifest \cap Dir /\ listed' = manifest \cap Dir /\ pc' = "sizes" /\ changed' = FALSE
    /\ UNCHANGED <<stored, manifest, packed, what, zip, total>>

\* Wrong: the size of the file at hand alone is compared.
LastOnly(n) == n

\* parseInt of a missing content-length is NaN, and so is what it is added to.
Sum(n) == IF n = NaN \/ total = NaN THEN NaN ELSE total + n

\* A HEAD request for one file; a file that is gone ends the request with 500,
\* and so does a sum beyond the limit, which NaN is not.
Measure(f) ==
    /\ pc = "sizes" /\ f \in files
    /\ IF f \notin DOMAIN stored THEN pc' = "refused" /\ UNCHANGED <<files, total>>
       ELSE \E n \in {stored[f], NaN} :
              /\ total' = Sum(n) /\ files' = files \ {f}
              /\ pc' = IF total' > MaxSize THEN "refused" ELSE pc
    /\ UNCHANGED <<stored, manifest, packed, what, zip, listed, changed>>

Streams ==
    /\ pc = "sizes" /\ files = {}
    /\ files' = listed /\ pc' = "stream"
    /\ UNCHANGED <<stored, manifest, packed, what, zip, total, listed, changed>>

\* Wrong: a file that cannot be read is left out.
LeftOut(f) == pc

\* An error of the store after the answer has begun breaks the ZIP off; of a
\* single file nothing has been sent yet.
Failed(f) == IF what \in {"all", "dir"} THEN "broken" ELSE "refused"

Stream(f) ==
    /\ pc = "stream" /\ f \in files
    /\ files' = files \ {f}
    /\ IF f \in DOMAIN stored THEN zip' = (f :> stored[f]) @@ zip /\ UNCHANGED pc
       ELSE pc' = Failed(f) /\ UNCHANGED zip
    /\ UNCHANGED <<stored, manifest, packed, what, total, listed, changed>>

Finalize ==
    /\ pc = "stream" /\ files = {}
    /\ pc' = "whole"
    /\ UNCHANGED <<stored, manifest, packed, req, changed>>

\* The store does not answer.
Unreachable ==
    /\ pc \in {"manifest", "sizes", "stream"}
    /\ pc' = IF pc = "stream" THEN Failed(what) ELSE "refused"
    /\ UNCHANGED <<stored, manifest, packed, req, changed>>

\* POST .../unzip: by the build itself or an administrator; the archive is
\* expanded some time later.
Unzip(u, f) ==
    /\ u.scope = "admin" \/ (u.scope = "build" /\ u.own)
    /\ f \in packed
    /\ packed' = packed \ {f}
    /\ \E size \in Sizes : Put(f, size)
    /\ UNCHANGED <<manifest, pc, req>>

-----------------------------------------------------------------------------
Next ==
    \/ \E f \in Files : Upload(f) \/ Expire(f) \/ Measure(f) \/ Stream(f)
    \/ \E f \in Files, u \in Users : Unzip(u, f)
    \/ \E u \in Users, private \in BOOLEAN, w \in {"all", "dir"} \cup Files : Ask(u, private, w)
    \/ WriteManifest \/ ReadAll \/ ReadDir \/ Streams \/ Finalize \/ Unreachable

Spec == Init /\ [][Next]_vars

-----------------------------------------------------------------------------
\* A download that ends well is whole: it holds every file that was asked for,
\* by name or by the manifest, though files come and go while it is sent; and
\* a directory is within the limit, unless a file has changed since it was
\* measured or the store does not tell sizes (artifacts/get.js:86,
\* artifacts/get.js:121, artifacts/getAll.js:87).
DownloadIsWhole ==
    pc = "whole" =>
        /\ DOMAIN zip = listed
        /\ what = "dir" /\ total # NaN /\ ~changed => MapThenSumSet(LAMBDA f : zip[f], DOMAIN zip) <= MaxSize
=============================================================================
