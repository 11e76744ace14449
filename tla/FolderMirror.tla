----------------------------- MODULE FolderMirror -----------------------------
(***************************************************************************)
(* The folder of a loop and its copy on the server: the daemon's watcher   *)
(* (watcher.ts LoopWatcher, WatchManager) against gateway/sync.ts.  File   *)
(* events are debounced into flushes; a flush walks the folder with a stat *)
(* cache, skips the network when the manifest was acknowledged before,     *)
(* posts it with small new bytes inline, and uploads what the server says  *)
(* it needs.  The runner forces a flush before it reports.  A loop's       *)
(* folder may move: the old watcher is closed with a flush in flight.      *)
(*                                                                         *)
(* One loop, and the folder it is bound to.  A content is its hash.        *)
(* BlobGC has the inside of the byte store, and the storage cap.           *)
(***************************************************************************)
EXTENDS Naturals, FiniteSets

CONSTANTS
    Paths, Contents,
    Large,              \* contents over INLINE_CAP
    Absent, Nobody,
    Slots,              \* sync requests in the server
    MaxWrites,          \* bound: changes to the files
    MaxFaults           \* bound: calls lost or given up, crashes, moves of the folder

ASSUME MirrorConstantsOK == /\ Large \subseteq Contents /\ Absent \notin Contents
                            /\ Nobody \notin Slots /\ Nobody \notin Paths
                            /\ {MaxWrites, MaxFaults} \subseteq Nat

VARIABLES
    disk,           \* the files: content, stat, and whether mtime is within RACY_MS
    exists,         \* the folder exists
    told,           \* the daemon has reconciled the set with this folder
    event,          \* chokidar has something to tell
    watcher,        \* LoopWatcher
    flush,          \* runFlush
    orphans,        \* manifests of flushes whose watcher was closed before they were posted
    forced,         \* flushNow, for the report of a run
    handler,        \* ArtifactSync.sync, per request
    rows, stored,   \* artifact_files; the contents whose bytes are stored
    disturbed,      \* history: see MirrorConverges
    writes, faults

mirrorVars == <<disk, exists, told, event, watcher, flush, orphans, forced, handler, rows, stored, disturbed, writes, faults>>

FileContent == Contents \cup {Absent}
Manifest == [Paths -> FileContent]
Empty    == [p \in Paths |-> Absent]
File     == [c : FileContent, stat : 0..MaxWrites, young : BOOLEAN]
Entry    == [c : FileContent, stat : 0..MaxWrites, safe : BOOLEAN]
NoEntry  == [c |-> Absent, stat |-> 0, safe |-> FALSE]
Cache    == [Paths -> Entry]
Watcher  == [open : BOOLEAN, timer : BOOLEAN, dirty : BOOLEAN, negotiated : BOOLEAN,
             acked : Manifest \cup {Nobody}, unsure : BOOLEAN, synced : SUBSET Contents, cache : Cache]
Flush    == [pc : {"idle", "walk", "wait", "put"}, todo : SUBSET Paths, at : Paths \cup {Nobody}, m : Manifest,
             cache : Cache, slot : Slots \cup {Nobody}, need : SUBSET Contents, failed : SUBSET Contents]
Forced   == [pc : {"idle", "await", "own"}, since : [Paths -> SUBSET FileContent]]
Handler  == [pc : {"idle", "upsert", "tombstone"}, late : BOOLEAN,
             todo : SUBSET Paths, m : Manifest, inline : SUBSET Contents, need : SUBSET Contents]
NoCache   == [p \in Paths |-> NoEntry]
Closed    == [open |-> FALSE, timer |-> FALSE, dirty |-> FALSE, negotiated |-> FALSE, acked |-> Nobody,
              unsure |-> FALSE, synced |-> {}, cache |-> NoCache]
NoFlush   == [pc |-> "idle", todo |-> {}, at |-> Nobody, m |-> Empty, cache |-> NoCache, slot |-> Nobody,
              need |-> {}, failed |-> {}]
NoForce   == [pc |-> "idle", since |-> [p \in Paths |-> {}]]
NoHandler == [pc |-> "idle", late |-> FALSE, todo |-> {}, m |-> Empty, inline |-> {}, need |-> {}]

\* TYPE: the shapes of the folder, of the watcher and of the requests.
MirrorTypeOK == /\ disk \in [Paths -> File] /\ {exists, told, event, disturbed} \subseteq BOOLEAN
                /\ watcher \in Watcher /\ flush \in Flush
                /\ orphans \subseteq Manifest
                /\ forced \in Forced
                /\ handler \in [Slots -> Handler]
                /\ rows \in Manifest /\ stored \subseteq Contents
                /\ writes \in 0..MaxWrites /\ faults \in 0..MaxFaults

\* A folder as it is found; files of one that is missing are absent.
Found == {f \in [Paths -> [c : FileContent, stat : {0}, young : {FALSE}]] : exists' \/ \A p \in Paths : f[p].c = Absent}

MirrorInit == /\ disk = [p \in Paths |-> [c |-> Absent, stat |-> 0, young |-> FALSE]]
              /\ exists \in BOOLEAN
              /\ told = FALSE /\ event = FALSE
              /\ watcher = Closed /\ flush = NoFlush /\ orphans = {} /\ forced = NoForce
              /\ handler = [s \in Slots |-> NoHandler]
              /\ rows = Empty /\ stored = {}
              /\ disturbed = FALSE /\ writes = 0 /\ faults = 0

folder == <<disk, exists, writes>>
server == <<handler, rows, stored>>
Fault  == faults < MaxFaults /\ faults' = faults + 1

------------------------------------------------------------------------------
(* The folder                                                              *)

\* A rewrite of a young file may leave its size and its coarse mtime as they were.
Write(p, c) ==
    /\ exists /\ writes < MaxWrites /\ writes' = writes + 1
    /\ LET f == disk[p] IN
         /\ f.c # c
         /\ \E stat \in IF f.young /\ Absent \notin {c, f.c} THEN {f.stat, f.stat + 1} ELSE {f.stat + 1} :
              disk' = [disk EXCEPT ![p] = [c |-> c, stat |-> stat, young |-> TRUE]]
    /\ event' = watcher.open
    /\ forced' = IF forced.pc = "idle" THEN forced ELSE [forced EXCEPT !.since[p] = @ \cup {c}]
    /\ UNCHANGED <<exists, told, watcher, flush, orphans, server, disturbed, faults>>

Ripen(p) == /\ disk[p].young
            /\ disk' = [disk EXCEPT ![p].young = FALSE]
            /\ UNCHANGED <<exists, told, event, watcher, flush, orphans, forced, server, disturbed, writes, faults>>

MakeFolder == /\ ~exists
              /\ exists' = TRUE
              /\ UNCHANGED <<disk, told, event, watcher, flush, orphans, forced, server, disturbed, writes, faults>>

------------------------------------------------------------------------------
(* WatchManager, and what starts a flush                                   *)

\* reconcile, which the poll loop calls when the set has changed (LongPoll).  A new
\* watcher is told of the tree it finds.
Reconcile ==
    /\ ~told /\ told' = TRUE
    /\ watcher' = [Closed EXCEPT !.open = exists]
    /\ event' = exists
    /\ UNCHANGED <<folder, flush, orphans, forced, server, disturbed, faults>>

\* The set names another folder for the loop: a flush of the watcher that is closed goes on.
Move == /\ told /\ watcher.open /\ Fault
        /\ exists' \in BOOLEAN /\ disk' \in Found
        /\ watcher' = [Closed EXCEPT !.open = exists'] /\ event' = exists'
        /\ flush' = NoFlush /\ forced' = NoForce
        /\ orphans' = IF flush.pc = "walk"
                      THEN {[p \in Paths |-> IF p \in flush.todo \cup {flush.at} THEN disk[p].c ELSE flush.m[p]]}
                      ELSE {}
        /\ UNCHANGED <<told, server, disturbed, writes>>

\* schedule, after the event has settled.
EventArrives == /\ event
                /\ event' = FALSE
                /\ watcher' = [watcher EXCEPT !.timer = TRUE]
                /\ UNCHANGED <<folder, told, flush, orphans, forced, server, disturbed, faults>>

\* readdir
Begun == [NoFlush EXCEPT !.pc = "walk", !.todo = {p \in Paths : disk[p].c # Absent}]
Busy  == flush.pc # "idle"

\* The continuation of flushNow comes before any timer.
TimerFires == /\ watcher.timer /\ ~(forced.pc = "await" /\ ~Busy)
              /\ watcher' = [watcher EXCEPT !.timer = FALSE, !.dirty = Busy]
              /\ flush' = IF Busy THEN flush ELSE Begun
              /\ UNCHANGED <<folder, told, event, orphans, forced, server, disturbed, faults>>

Since == [p \in Paths |-> {disk[p].c}]

\* Mutant: a flush in flight is good enough.
FlushNowJoins == /\ forced.pc = "idle" /\ watcher.open
                 /\ watcher' = [watcher EXCEPT !.timer = FALSE]
                 /\ forced' = [pc |-> "own", since |-> Since]
                 /\ flush' = IF Busy THEN flush ELSE Begun
                 /\ UNCHANGED <<folder, told, event, orphans, server, disturbed, faults>>

\* flushNow waits for the flush in flight, and runs one of its own.
FlushNow == /\ forced.pc = "idle" /\ watcher.open
            /\ watcher' = [watcher EXCEPT !.timer = FALSE]
            /\ forced' = [pc |-> IF Busy THEN "await" ELSE "own", since |-> Since]
            /\ flush' = IF Busy THEN flush ELSE Begun
            /\ UNCHANGED <<folder, told, event, orphans, server, disturbed, faults>>
FlushNowAgain == /\ forced.pc = "await" /\ ~Busy
                 /\ watcher' = [watcher EXCEPT !.timer = FALSE]
                 /\ forced' = [forced EXCEPT !.pc = "own"]
                 /\ flush' = Begun
                 /\ UNCHANGED <<folder, told, event, orphans, server, disturbed, faults>>

------------------------------------------------------------------------------
(* runFlush                                                                *)

\* Mutant: same size and times, same bytes, however young the file was.
TrustworthyAlways(e, f) == e.c # Absent /\ e.stat = f.stat

\* The racy-write guard: the entry was hashed when its mtime was safely past.
Trustworthy(e, f) == e.c # Absent /\ e.stat = f.stat /\ e.safe

\* buildManifest: a stat; unless the cache serves, the bytes are read a moment later.
Stat(p) ==
    /\ flush.pc = "walk" /\ flush.at = Nobody /\ p \in flush.todo
    /\ LET f == disk[p]  e == watcher.cache[p]  fl == [flush EXCEPT !.todo = @ \ {p}] IN
         flush' = IF f.c = Absent THEN fl
                  ELSE IF Trustworthy(e, f) THEN [fl EXCEPT !.m[p] = e.c, !.cache[p] = e]
                  ELSE [fl EXCEPT !.at = p, !.cache[p] = [c |-> Absent, stat |-> f.stat, safe |-> ~f.young]]
    /\ UNCHANGED <<folder, told, event, watcher, orphans, forced, server, disturbed, faults>>
Hash(p) ==
    /\ flush.at = p
    /\ LET c == disk[p].c IN
         flush' = [flush EXCEPT !.at = Nobody, !.m[p] = c,
                                !.cache[p] = IF c = Absent THEN NoEntry ELSE [flush.cache[p] EXCEPT !.c = c]]
    /\ UNCHANGED <<folder, told, event, watcher, orphans, forced, server, disturbed, faults>>

\* finally: a change or a failure re-arms the timer.
Over(w, retry) == /\ watcher' = [w EXCEPT !.dirty = FALSE, !.timer = @ \/ w.dirty \/ retry]
                  /\ flush' = NoFlush
                  /\ forced' = IF forced.pc = "own" THEN NoForce ELSE forced

\* The manifest that was acknowledged last needs no network.
Walked == flush.pc = "walk" /\ flush.at = Nobody /\ flush.todo = {}
Skip == /\ Walked /\ flush.m = watcher.acked
        /\ Over([watcher EXCEPT !.cache = flush.cache], FALSE)
        /\ disturbed' = (disturbed \/ watcher.unsure)
        /\ UNCHANGED <<folder, told, event, orphans, server, faults>>

Held(m)   == {m[p] : p \in Paths} \ {Absent}
OnDisk(m) == {m[p] : p \in {q \in Paths : disk[q].c = m[q]}} \ {Absent}

\* Before the first negotiation, and over the cap, nothing goes inline.
Inline == IF watcher.negotiated THEN OnDisk(flush.m) \ (Large \cup watcher.synced) ELSE {}

\* The request; those still at work in the server are overtaken from here on.
Arrives(s, m, inline) ==
    handler' = [t \in Slots |->
       IF t = s THEN [NoHandler EXCEPT !.pc = "upsert", !.todo = {p \in Paths : m[p] # Absent}, !.m = m, !.inline = inline]
       ELSE [handler[t] EXCEPT !.late = handler[t].pc # "idle"]]
Post(s) ==
    /\ Walked /\ flush.m # watcher.acked
    /\ handler[s].pc = "idle"
    /\ Arrives(s, flush.m, Inline)
    /\ flush' = [flush EXCEPT !.pc = "wait", !.slot = s]
    /\ watcher' = [watcher EXCEPT !.cache = flush.cache, !.unsure = TRUE]
    /\ disturbed' = (orphans # {} \/ (disturbed /\ \E t \in Slots : handler[t].pc # "idle"))
    /\ UNCHANGED <<folder, told, event, orphans, forced, rows, stored, faults>>
PostOrphan(s, m) ==
    /\ m \in orphans /\ handler[s].pc = "idle"
    /\ Arrives(s, m, {})
    /\ orphans' = orphans \ {m}
    /\ UNCHANGED <<folder, told, event, watcher, flush, forced, rows, stored, disturbed, faults>>

\* The call breaks before it arrives, or while the server is at work.
Lost   == /\ Walked /\ flush.m # watcher.acked /\ Fault
          /\ Over([watcher EXCEPT !.cache = flush.cache], TRUE)
          /\ UNCHANGED <<folder, told, event, orphans, server, disturbed>>
GiveUp == /\ flush.pc = "wait" /\ Fault
          /\ Over(watcher, TRUE)
          /\ UNCHANGED <<folder, told, event, orphans, server, disturbed>>

\* readVerified, and putBlob's own gate: only bytes that a live row asks for.
PutBlob(c) ==
    /\ flush.pc = "put" /\ c \in flush.need
    /\ LET fits == c \in OnDisk(flush.m) \cap Held(rows) IN
         \/ /\ fits
            /\ stored' = stored \cup {c}
            /\ flush' = [flush EXCEPT !.need = @ \ {c}]
            /\ UNCHANGED faults
         \/ /\ IF fits THEN Fault ELSE UNCHANGED faults
            /\ flush' = [flush EXCEPT !.need = @ \ {c}, !.failed = @ \cup {c}]
            /\ UNCHANGED stored
    /\ UNCHANGED <<folder, told, event, watcher, orphans, forced, handler, rows, disturbed>>

FlushEnds ==
    /\ flush.pc = "put" /\ flush.need = {}
    /\ LET w == [watcher EXCEPT !.synced = Held(flush.m) \ flush.failed] IN
         IF flush.failed # {} THEN Over(w, TRUE)
         ELSE Over([w EXCEPT !.acked = flush.m, !.unsure = FALSE], FALSE)
    /\ UNCHANGED <<folder, told, event, orphans, server, disturbed, faults>>

------------------------------------------------------------------------------
(* ArtifactSync.sync                                                       *)

daemon == <<folder, told, event, orphans, forced, faults>>
Overtaken(s) == disturbed' = (disturbed \/ handler[s].late)

\* A row is written before its bytes are there; what is neither stored nor inline is asked for.
Upsert(s, p) ==
    /\ handler[s].pc = "upsert" /\ p \in handler[s].todo
    /\ LET c == handler[s].m[p] IN
         /\ rows' = [rows EXCEPT ![p] = c]
         /\ handler' = [handler EXCEPT ![s].todo = @ \ {p},
                                       ![s].need = @ \cup ({c} \ (stored \cup handler[s].inline))]
    /\ Overtaken(s)
    /\ UNCHANGED <<daemon, watcher, flush, stored>>
StoreInline(s) ==
    /\ handler[s].pc = "upsert" /\ handler[s].todo = {}
    /\ stored' = stored \cup handler[s].inline
    /\ handler' = [handler EXCEPT ![s].pc = "tombstone"]
    /\ UNCHANGED <<daemon, watcher, flush, rows, disturbed>>

\* Deletions are absences from the manifest; then the answer.
Tombstone(s) ==
    /\ handler[s].pc = "tombstone"
    /\ rows' = [p \in Paths |-> IF handler[s].m[p] = Absent THEN Absent ELSE rows[p]]
    /\ IF flush.pc = "wait" /\ flush.slot = s
       THEN /\ flush' = [flush EXCEPT !.pc = "put", !.slot = Nobody, !.need = handler[s].need]
            /\ watcher' = [watcher EXCEPT !.negotiated = TRUE]
       ELSE UNCHANGED <<flush, watcher>>
    /\ handler' = [handler EXCEPT ![s] = NoHandler]
    /\ Overtaken(s)
    /\ UNCHANGED <<daemon, stored>>

------------------------------------------------------------------------------
DaemonRestart ==
    /\ Fault
    /\ told' = FALSE /\ event' = FALSE /\ forced' = NoForce
    /\ watcher' = Closed /\ flush' = NoFlush /\ orphans' = {}
    /\ UNCHANGED <<folder, server, disturbed>>

\* Handlers are gone, with whatever they had done; the daemon's call breaks.
ServerRestart ==
    /\ Fault
    /\ flush.pc = "wait"
    /\ Over(watcher, TRUE)
    /\ handler' = [s \in Slots |-> NoHandler]
    /\ UNCHANGED <<folder, told, event, orphans, rows, stored, disturbed>>

FlushStep == \/ \E p \in Paths : Stat(p) \/ Hash(p)
             \/ Skip \/ FlushEnds
             \/ \E s \in Slots : Post(s)
             \/ \E c \in Contents : PutBlob(c)
ServeStep(s) == (\E p \in Paths : Upsert(s, p)) \/ StoreInline(s) \/ Tombstone(s)

MirrorNext == \/ \E p \in Paths : Ripen(p) \/ \E c \in FileContent : Write(p, c)
              \/ MakeFolder \/ Move \/ Reconcile
              \/ EventArrives \/ TimerFires \/ FlushNow \/ FlushNowAgain
              \/ FlushStep \/ Lost \/ GiveUp
              \/ \E s \in Slots : ServeStep(s) \/ \E m \in orphans : PostOrphan(s, m)
              \/ DaemonRestart \/ ServerRestart

\* Events, timers, the watcher and the handlers go on; calls fail finitely often.
MirrorSpec == /\ MirrorInit /\ [][MirrorNext]_mirrorVars
              /\ WF_mirrorVars(Reconcile) /\ WF_mirrorVars(EventArrives) /\ WF_mirrorVars(TimerFires)
              /\ WF_mirrorVars(FlushNowAgain) /\ WF_mirrorVars(FlushStep)
              /\ \A s \in Slots : WF_mirrorVars(ServeStep(s))

------------------------------------------------------------------------------
(* Properties                                                              *)

Mirrored == \A p \in Paths : rows[p] = disk[p].c /\ rows[p] \in stored \cup {Absent}

\* CONVERGENCE: once the folder rests, the server has its last state, bytes included.
\* The exceptions the code leaves open are named: a folder that was missing when its
\* watcher should have been opened; a request that a later one overtook; a manifest
\* that was acknowledged once and is met again after a sync whose fate is unknown.
MirrorConverges == <>[](Mirrored \/ disturbed \/ ~watcher.open)

\* END STATE: when the flush that a report waits for has come through, the server's rows
\* are no older than the moment it was asked for, and their bytes are there.
Succeeds == flush.pc \in {"walk", "put"} /\ flush.failed = {} /\ flush' = NoFlush /\ watcher'.acked # Nobody
ForcedFlushIsFresh ==
    [][forced.pc = "own" /\ forced' = NoForce /\ faults' = faults /\ Succeeds /\ ~disturbed'
       => \A p \in Paths : rows'[p] \in forced.since[p] /\ rows'[p] \in stored' \cup {Absent}]_mirrorVars

------------------------------------------------------------------------------
(* A statement made in the source that the code does not keep               *)

\* watcher.ts:647: a folder that does not exist yet "is retried on the next poll".
NewFolderIsWatched == [](exists => <>watcher.open)
==============================================================================
