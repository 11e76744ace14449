-------------------------------- MODULE BlobGC --------------------------------
(***************************************************************************)
(* The artifact store: the files of a loop live as bytes under their hash  *)
(* in a blob store (R2), beside a row per hash in the blobs table; loops'  *)
(* file rows and run snapshots refer to hashes.  A daemon's sync and PUT   *)
(* add blobs, a report snapshots the files, and a periodic pass collects   *)
(* what nothing refers to.  No transaction spans the database and the blob *)
(* store: every await is a step of its own.                                *)
(*                                                                         *)
(*   sync    gateway/sync.ts       sync: one manifest of a loop's folder   *)
(*   put     gateway/sync.ts       putBlob: the bytes of a hash asked for  *)
(*   report  gateway/index.ts      report, finishLoop: the run's snapshot  *)
(*   gc      gateway/retention.ts  maintainStorage: prune, then gcBlobs    *)
(*                                                                         *)
(* A folder has one file here: manifests of more paths repeat the steps.   *)
(***************************************************************************)
EXTENDS Naturals, Sequences, FiniteSets

CONSTANTS
    Loops, Hashes,           \* identities of loops; contents by their hash
    Syncs, Puts, Reports,    \* slots for requests in flight
    None,                    \* no file, no loop
    Keep,                    \* snapshotRetention
    MaxRestarts              \* bound: server crashes

ASSUME BlobConstantsOK == /\ None \notin Hashes /\ None \notin Loops /\ IsFiniteSet(Loops)
                          /\ Keep \in Nat \ {0} /\ MaxRestarts \in Nat

VARIABLES
    alive,      \* the loops that exist
    file,       \* artifact_files: the hash of the loop's file, None if tombstoned
    snaps,      \* run_snapshots of each loop, oldest first
    blobs,      \* the blobs table
    old,        \* the blobs whose row is older than the grace window
    bytes,      \* the blob store
    asked,      \* hashes a sync answered as needed
    sync, put, report, gc,     \* in flight
    held,       \* history: something has referred to the pass's candidate at every
                \* moment since it was taken up
    unseen,     \* history: hashes put in a snapshot since the pass read those, while
                \* their number, when it last looked, was what it had been
    raced,      \* history: hashes whose upload a byte delete overtook, or whose
                \* collection a crash or the database left half done
    restarts

tables == <<alive, file, snaps, blobs, old, bytes>>
vars == <<tables, asked, sync, put, report, gc, held, unseen, raced, restarts>>

Content == Hashes \cup {None}
Sync   == [pc : {"idle", "check", "upsert", "put", "seen", "record", "tombstone"},
           loop : Loops \cup {None}, hash : Content, inline : BOOLEAN, need : BOOLEAN]
Put    == [pc : {"idle", "cap", "put", "record"}, hash : Content]
Report == [pc : {"idle", "read", "write", "prune"}, loop : Loops \cup {None}, files : Content]
Gc     == [pc : {"idle", "prune", "files", "snaps", "list", "count", "scan", "next",
                 "rescan", "check", "delete", "drop"},
           refs : SUBSET Hashes, todo : SUBSET Hashes, count : Nat,
           snapRefs : SUBSET Hashes, hash : Content]
NoSync   == [pc |-> "idle", loop |-> None, hash |-> None, inline |-> FALSE, need |-> FALSE]
NoPut    == [pc |-> "idle", hash |-> None]
NoReport == [pc |-> "idle", loop |-> None, files |-> None]
NoGc     == [pc |-> "idle", refs |-> {}, todo |-> {}, count |-> 0, snapRefs |-> {}, hash |-> None]

TypeOK == /\ alive \subseteq Loops
          /\ file \in [Loops -> Content]
          /\ snaps \in [Loops -> Seq(Content)]
          /\ blobs \subseteq Hashes /\ old \subseteq blobs /\ bytes \subseteq Hashes
          /\ asked \subseteq Hashes
          /\ sync \in [Syncs -> Sync]
          /\ put \in [Puts -> Put]
          /\ report \in [Reports -> Report]
          /\ gc \in Gc
          /\ held \in BOOLEAN
          /\ unseen \subseteq Hashes
          /\ raced \subseteq Hashes
          /\ restarts \in 0..MaxRestarts

Init == /\ alive = Loops
        /\ file = [l \in Loops |-> None]
        /\ snaps = [l \in Loops |-> <<>>]
        /\ blobs = {} /\ old = {} /\ bytes = {} /\ asked = {}
        /\ sync = [x \in Syncs |-> NoSync]
        /\ put = [p \in Puts |-> NoPut]
        /\ report = [y \in Reports |-> NoReport]
        /\ gc = NoGc
        /\ held = FALSE /\ unseen = {} /\ raced = {}
        /\ restarts = 0

------------------------------------------------------------------------------
(* What refers to a blob                                                   *)

FileHashes == {file[l] : l \in Loops} \ {None}

\* The rows of run_snapshots, by loop and age.
SnapRows == UNION {{l} \X DOMAIN snaps[l] : l \in Loops}

\* snapshotBlobRefs
SnapHashes == {snaps[r[1]][r[2]] : r \in SnapRows} \ {None}

\* countRunSnapshots
SnapCount == Cardinality(SnapRows)

\* The references to the candidate of the pass come and go.
Referred == FileHashes \cup SnapHashes
StillHeld == held' = (held /\ gc.hash \in Referred')

\* pruneRunSnapshots: the most recent ones stay.
Pruned(s) == SubSeq(s, IF Len(s) > Keep THEN Len(s) - Keep + 1 ELSE 1, Len(s))

------------------------------------------------------------------------------
(* ArtifactSync.sync                                                       *)

syncOnly == <<alive, snaps, put, report, gc, restarts>>

SyncBegin(x, l, h, inline) ==
    /\ sync[x].pc = "idle"
    /\ l \in alive
    /\ sync' = [sync EXCEPT ![x] = [NoSync EXCEPT !.loop = l, !.hash = h, !.inline = inline,
                                      !.pc = IF h = None THEN "tombstone" ELSE "check"]]
    /\ UNCHANGED <<file, blobs, old, bytes, asked, held, unseen, raced, syncOnly>>

SyncTo(x, pc) == sync' = [sync EXCEPT ![x].pc = pc]
SyncEnd(x)    == sync' = [sync EXCEPT ![x] = NoSync]

\* blobExists: a file with new bytes may be over the loop's storage cap, and keeps
\* its row as it was; bytes that are neither stored nor inline are asked for.
SyncCheck(x) ==
    /\ sync[x].pc = "check"
    /\ LET s == sync[x] IN
         \/ s.hash \notin blobs /\ SyncEnd(x)
         \/ sync' = [sync EXCEPT ![x] = [s EXCEPT !.pc = "upsert",
                                            !.need = s.hash \notin blobs /\ ~s.inline]]
    /\ UNCHANGED <<file, blobs, old, bytes, asked, held, unseen, raced, syncOnly>>

\* upsertArtifactFile: the row is written before its bytes are, whether or not the
\* loop still exists.  Without inline bytes the answer goes out.
SyncUpsert(x) ==
    /\ sync[x].pc = "upsert"
    /\ LET s == sync[x] IN
         /\ file' = [file EXCEPT ![s.loop] = s.hash]
         /\ asked' = IF s.need THEN asked \cup {s.hash} ELSE asked
         /\ IF s.inline THEN SyncTo(x, "put") ELSE SyncEnd(x)
    /\ UNCHANGED <<blobs, old, bytes, unseen, raced, syncOnly>>
    /\ StillHeld

SyncPut(x) ==
    /\ sync[x].pc = "put"
    /\ bytes' = bytes \cup {sync[x].hash}
    /\ raced' = raced \ {sync[x].hash}
    /\ SyncTo(x, "seen")
    /\ UNCHANGED <<file, blobs, old, asked, held, unseen, syncOnly>>

SyncSeen(x) ==
    /\ sync[x].pc = "seen"
    /\ IF sync[x].hash \in blobs THEN SyncEnd(x) ELSE SyncTo(x, "record")
    /\ UNCHANGED <<file, blobs, old, bytes, asked, held, unseen, raced, syncOnly>>

SyncRecord(x) ==
    /\ sync[x].pc = "record"
    /\ blobs' = blobs \cup {sync[x].hash}
    /\ SyncEnd(x)
    /\ UNCHANGED <<file, old, bytes, asked, held, unseen, raced, syncOnly>>

\* tombstoneMissingArtifacts, when the file is not in the manifest.
SyncTombstone(x) ==
    /\ sync[x].pc = "tombstone"
    /\ file' = [file EXCEPT ![sync[x].loop] = None]
    /\ SyncEnd(x)
    /\ UNCHANGED <<blobs, old, bytes, asked, unseen, raced, syncOnly>>
    /\ StillHeld

------------------------------------------------------------------------------
(* ArtifactSync.putBlob                                                    *)

putOnly == <<alive, snaps, sync, report, gc, asked, unseen, restarts>>

\* machineReferencesBlob: only for the file of a loop that exists.  The daemon
\* sends what it was asked for, and sends it again when no answer came.
PutBegin(p, h) ==
    /\ put[p].pc = "idle"
    /\ h \in asked /\ \E l \in alive : file[l] = h
    /\ put' = [put EXCEPT ![p] = [pc |-> "cap", hash |-> h]]
    /\ UNCHANGED <<file, blobs, old, bytes, held, raced, putOnly>>

\* New bytes over the cap of a loop are refused, and the rows that wait for them dropped.
PutCap(p) ==
    /\ put[p].pc = "cap"
    /\ LET h == put[p].hash IN
         \/ put' = [put EXCEPT ![p].pc = "put"] /\ UNCHANGED file
         \/ /\ h \notin blobs
            /\ file' = [l \in Loops |-> IF file[l] = h THEN None ELSE file[l]]
            /\ put' = [put EXCEPT ![p] = NoPut]
    /\ UNCHANGED <<blobs, old, bytes, raced, putOnly>>
    /\ StillHeld

\* Mutant: the row is recorded before the bytes are stored.
PutBytesLate(p) ==
    /\ put[p].pc = "put"
    /\ blobs' = blobs \cup {put[p].hash}
    /\ put' = [put EXCEPT ![p].pc = "record"]
    /\ UNCHANGED <<file, old, bytes, held, raced, putOnly>>

PutBytes(p) ==
    /\ put[p].pc = "put"
    /\ bytes' = bytes \cup {put[p].hash}
    /\ raced' = raced \ {put[p].hash}
    /\ put' = [put EXCEPT ![p].pc = "record"]
    /\ UNCHANGED <<file, blobs, old, held, putOnly>>

PutRecord(p) ==
    /\ put[p].pc = "record"
    /\ blobs' = blobs \cup {put[p].hash}
    /\ put' = [put EXCEPT ![p] = NoPut]
    /\ UNCHANGED <<file, old, bytes, held, raced, putOnly>>

------------------------------------------------------------------------------
(* The snapshot of a run, the deletion of a loop                           *)

\* The pass holds the snapshots' hashes as it read them.
Scanned == {"next", "rescan", "check", "delete", "drop"}

reportOnly == <<alive, file, blobs, old, bytes, asked, sync, put, gc, raced, restarts>>

ReportBegin(y, l) ==
    /\ report[y].pc = "idle"
    /\ l \in alive
    /\ report' = [report EXCEPT ![y] = [NoReport EXCEPT !.pc = "read", !.loop = l]]
    /\ UNCHANGED <<snaps, held, unseen, reportOnly>>

\* buildLoopManifest
ReportRead(y) ==
    /\ report[y].pc = "read"
    /\ report' = [report EXCEPT ![y] = [@ EXCEPT !.pc = "write", !.files = file[report[y].loop]]]
    /\ UNCHANGED <<snaps, held, unseen, reportOnly>>

\* putRunSnapshot: a second one of the same run (finish, then its report) replaces
\* the first.
ReportWrite(y) ==
    /\ report[y].pc = "write"
    /\ LET l == report[y].loop  f == report[y].files IN
         /\ \/ snaps' = [snaps EXCEPT ![l] = Append(@, f)]
            \/ snaps[l] # <<>> /\ snaps' = [snaps EXCEPT ![l] = [snaps[l] EXCEPT ![Len(snaps[l])] = f]]
         /\ unseen' = IF gc.pc \in Scanned THEN unseen \cup ({f} \ {None}) ELSE unseen
    /\ report' = [report EXCEPT ![y].pc = "prune"]
    /\ UNCHANGED reportOnly
    /\ StillHeld

ReportPrune(y) ==
    /\ report[y].pc = "prune"
    /\ snaps' = [snaps EXCEPT ![report[y].loop] = Pruned(@)]
    /\ report' = [report EXCEPT ![y] = NoReport]
    /\ UNCHANGED <<unseen, reportOnly>>
    /\ StillHeld

\* deleteLoop: one transaction over the loop, its files and its snapshots.
DeleteLoop(l) ==
    /\ l \in alive
    /\ alive' = alive \ {l}
    /\ file' = [file EXCEPT ![l] = None]
    /\ snaps' = [snaps EXCEPT ![l] = <<>>]
    /\ UNCHANGED <<blobs, old, bytes, asked, sync, put, report, gc, unseen, raced, restarts>>
    /\ StillHeld

------------------------------------------------------------------------------
(* maintainStorage                                                         *)

gcOnly == <<alive, file, asked, sync, put, report, restarts>>
GcTo(pc) == gc' = [gc EXCEPT !.pc = pc]

\* The maintenanceRunning latch: one pass at a time.
GcBegin ==
    /\ gc.pc = "idle"
    /\ GcTo("prune")
    /\ UNCHANGED <<snaps, blobs, old, bytes, held, unseen, raced, gcOnly>>

\* pruneSnapshots: loop by loop in the code, all of them at once here.
GcPrune ==
    /\ gc.pc = "prune"
    /\ snaps' = [l \in Loops |-> Pruned(snaps[l])]
    /\ GcTo("files")
    /\ UNCHANGED <<blobs, old, bytes, held, unseen, raced, gcOnly>>

\* Mutant: the keep-set is never emptied.
GcFilesMore ==
    /\ gc.pc = "files"
    /\ gc' = [gc EXCEPT !.pc = "snaps", !.refs = asked \cup FileHashes]
    /\ UNCHANGED <<snaps, blobs, old, bytes, held, unseen, raced, gcOnly>>

\* liveBlobRefs: the file rows, then the snapshots.
GcFiles ==
    /\ gc.pc = "files"
    /\ gc' = [gc EXCEPT !.pc = "snaps", !.refs = FileHashes]
    /\ UNCHANGED <<snaps, blobs, old, bytes, held, unseen, raced, gcOnly>>

GcSnaps ==
    /\ gc.pc = "snaps"
    /\ gc' = [gc EXCEPT !.pc = "list", !.refs = @ \cup SnapHashes]
    /\ UNCHANGED <<snaps, blobs, old, bytes, held, unseen, raced, gcOnly>>

\* blobHashesOlderThan
GcList ==
    /\ gc.pc = "list"
    /\ gc' = [gc EXCEPT !.pc = "count", !.todo = old \ gc.refs, !.refs = {}]
    /\ UNCHANGED <<snaps, blobs, old, bytes, held, unseen, raced, gcOnly>>

GcCount ==
    /\ gc.pc = "count"
    /\ gc' = [gc EXCEPT !.pc = "scan", !.count = SnapCount]
    /\ UNCHANGED <<snaps, blobs, old, bytes, held, unseen, raced, gcOnly>>

GcScan ==
    /\ gc.pc = "scan"
    /\ gc' = [gc EXCEPT !.pc = "next", !.snapRefs = SnapHashes]
    /\ unseen' = {}
    /\ UNCHANGED <<snaps, blobs, old, bytes, held, raced, gcOnly>>

\* Mutant: the snapshots are read once in a pass.
GcNextOnce(h) ==
    /\ gc.pc = "next" /\ h \in gc.todo
    /\ gc' = [gc EXCEPT !.pc = "check", !.count = SnapCount, !.hash = h, !.todo = @ \ {h}]
    /\ held' = (h \in Referred)
    /\ unseen' = IF SnapCount = gc.count THEN unseen ELSE {}
    /\ UNCHANGED <<snaps, blobs, old, bytes, raced, gcOnly>>

\* The next candidate: the snapshots are read again only if their number changed.
GcNext(h) ==
    /\ gc.pc = "next" /\ h \in gc.todo
    /\ gc' = [gc EXCEPT !.pc = IF SnapCount = gc.count THEN "check" ELSE "rescan",
                        !.count = SnapCount, !.hash = h, !.todo = @ \ {h}]
    /\ held' = (h \in Referred)
    /\ unseen' = IF SnapCount = gc.count THEN unseen ELSE {}
    /\ UNCHANGED <<snaps, blobs, old, bytes, raced, gcOnly>>

GcEnd ==
    /\ gc.pc = "next" /\ gc.todo = {}
    /\ gc' = NoGc
    /\ unseen' = {}
    /\ UNCHANGED <<snaps, blobs, old, bytes, held, raced, gcOnly>>

GcRescan ==
    /\ gc.pc = "rescan"
    /\ gc' = [gc EXCEPT !.pc = "check", !.snapRefs = SnapHashes]
    /\ unseen' = {}
    /\ UNCHANGED <<snaps, blobs, old, bytes, held, raced, gcOnly>>

\* artifactFileReferencesHash and the snapshots as read.
GcCheck ==
    /\ gc.pc = "check"
    /\ IF gc.hash \in FileHashes \cup gc.snapRefs
         THEN gc' = [gc EXCEPT !.pc = "next", !.hash = None] /\ held' = FALSE
         ELSE GcTo("delete") /\ UNCHANGED held
    /\ UNCHANGED <<snaps, blobs, old, bytes, unseen, raced, gcOnly>>

\* An upload of h that has stored its bytes and not yet recorded them.
Uploading(h) == \/ \E x \in Syncs : sync[x].hash = h /\ sync[x].pc \in {"seen", "record"}
                \/ \E p \in Puts : put[p].hash = h /\ put[p].pc = "record"

\* Bytes first ...
GcDelete(h) ==
    /\ gc.pc = "delete" /\ gc.hash = h
    /\ bytes' = bytes \ {h}
    /\ GcTo("drop")
    /\ raced' = IF Uploading(h) THEN raced \cup {h} ELSE raced
    /\ held' = FALSE
    /\ UNCHANGED <<snaps, blobs, old, unseen, gcOnly>>

\* ... then the row, unconditionally.
GcDrop(h) ==
    /\ gc.pc = "drop" /\ gc.hash = h
    /\ blobs' = blobs \ {h}
    /\ old' = old \ {h}
    /\ raced' = IF Uploading(h) THEN raced ELSE raced \ {h}
    /\ gc' = [gc EXCEPT !.pc = "next", !.hash = None]
    /\ UNCHANGED <<snaps, bytes, held, unseen, gcOnly>>

\* One try catches both: a byte delete that fails leaves bytes and row, and a row that
\* cannot be deleted is left without its bytes.
GcFail ==
    /\ gc.pc \in {"delete", "drop"}
    /\ gc' = [gc EXCEPT !.pc = "next", !.hash = None]
    /\ raced' = IF gc.pc = "drop" THEN raced \cup {gc.hash} ELSE raced
    /\ held' = FALSE
    /\ UNCHANGED <<snaps, blobs, old, bytes, unseen, gcOnly>>

GcStep == \/ GcBegin \/ GcPrune \/ GcFiles \/ GcSnaps \/ GcList \/ GcCount \/ GcScan
          \/ (\E h \in Hashes : GcNext(h)) \/ GcEnd \/ GcRescan \/ GcCheck

------------------------------------------------------------------------------
\* The grace window of a blob passes.
Age(h) ==
    /\ h \in blobs \ old
    /\ old' = old \cup {h}
    /\ UNCHANGED <<alive, file, snaps, blobs, bytes, asked, sync, put, report, gc,
                   held, unseen, raced, restarts>>

\* The process dies; the database and the blob store stay.
Restart ==
    /\ restarts < MaxRestarts
    /\ restarts' = restarts + 1
    /\ sync' = [x \in Syncs |-> NoSync]
    /\ put' = [p \in Puts |-> NoPut]
    /\ report' = [y \in Reports |-> NoReport]
    /\ gc' = NoGc
    /\ held' = FALSE /\ unseen' = {}
    /\ raced' = IF gc.pc = "drop" THEN raced \cup {gc.hash} ELSE raced
    /\ UNCHANGED <<tables, asked>>

SyncStep(x) == \/ SyncCheck(x) \/ SyncUpsert(x) \/ SyncPut(x) \/ SyncSeen(x)
               \/ SyncRecord(x) \/ SyncTombstone(x)
PutStep(p) == PutCap(p) \/ PutBytes(p) \/ PutRecord(p)
ReportStep(y) == ReportRead(y) \/ ReportWrite(y) \/ ReportPrune(y)

Next == \/ \E x \in Syncs, l \in Loops, h \in Content, i \in BOOLEAN : SyncBegin(x, l, h, i)
        \/ \E x \in Syncs : SyncStep(x)
        \/ \E p \in Puts, h \in Hashes : PutBegin(p, h)
        \/ \E p \in Puts : PutStep(p)
        \/ \E y \in Reports, l \in Loops : ReportBegin(y, l)
        \/ \E y \in Reports : ReportStep(y)
        \/ \E l \in Loops : DeleteLoop(l)
        \/ GcStep \/ GcFail \/ (\E h \in Hashes : GcDelete(h) \/ GcDrop(h) \/ Age(h))
        \/ Restart

\* Handlers in flight go on, the maintenance interval ticks, grace windows pass,
\* and neither the blob store nor the database refuses a delete for ever.
Fairness ==
    /\ \A x \in Syncs : WF_vars(SyncStep(x))
    /\ \A p \in Puts : WF_vars(PutStep(p))
    /\ \A y \in Reports : WF_vars(ReportStep(y))
    /\ WF_vars(GcStep)
    /\ \A h \in Hashes : WF_vars(Age(h)) /\ SF_vars(GcDelete(h)) /\ SF_vars(GcDrop(h))

Spec == Init /\ [][Next]_vars /\ Fairness

------------------------------------------------------------------------------
(* Properties                                                              *)

\* A blobs row without bytes tells every later sync that nothing needs uploading.
\* Three things leave one behind, and no other: a byte delete that overtook an upload of
\* the same content, a crash between the two halves of a collection, and a failing
\* database between them.  It is left until the bytes are uploaded again or a later
\* pass drops it.
RowHasBytes ==
    blobs \subseteq bytes \cup raced \cup (IF gc.pc = "drop" THEN {gc.hash} ELSE {})

\* A candidate that something refers to all the while, from the moment it is taken up,
\* is not deleted, though the reference may move from the loop's file to a run's snapshot
\* between the looks.  A snapshot is missed only when it is written after the collector
\* compared the number of snapshots and before it checks the candidate, or when it left
\* that number as it was: it replaced one, or one was pruned for it.
KeptWhileReferred == gc.pc = "delete" /\ held => gc.hash \in unseen

\* Storage does not grow for ever: a blob that nothing refers to any more loses its row.
UnreferredIsCollected ==
    \A h \in Hashes : <>[](h \notin FileHashes \cup SnapHashes) => <>[](h \notin blobs)

------------------------------------------------------------------------------
(* Statements made in the source that the code does not keep              *)

\* retention.ts:25: "We never leave a live blobs row pointing at deleted bytes."
NoDanglingBlob ==
    \A h \in blobs \ bytes : gc.pc = "drop" /\ gc.hash = h

\* retention.ts:69: the snapshot hashes are "rebuilt only when the snapshot row count
\* changes (a report() raced us)", and "a snapshot a concurrent report() writes mid-pass
\* is still caught" (retention.ts:85).
HeldIsKept == ~(gc.pc = "delete" /\ held)

\* store.ts:164: leaving the rows of a deleted loop behind "would pin their blob hashes
\* in the GC keep-set FOREVER".
DeletedPinsNothing ==
    \A l \in Loops \ alive : file[l] = None /\ snaps[l] = <<>>
==============================================================================
