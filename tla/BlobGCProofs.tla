---------------------------- MODULE BlobGCProofs ----------------------------
(***************************************************************************)
(* What the artifact store keeps, for any number of loops, contents and    *)
(* requests: a row has bytes, and the collector deletes nothing that was   *)
(* referred to when it looked.  And, at the end, what the folder's flushes *)
(* bring to it: nothing older than the report they are made for.           *)
(***************************************************************************)
EXTENDS BlobGC, FolderMirror, FiniteSetTheorems, SequenceTheorems, TLAPS

(* A request past its beginning knows its loop and its content. *)
SyncNamed(s) ==
  /\ s.pc # "idle" => s.loop \in Loops
  /\ s.pc \in {"check", "upsert", "put", "seen", "record"} => s.hash \in Hashes

Named ==
  /\ \A x \in Syncs : SyncNamed(sync[x])
  /\ \A p \in Puts : put[p].pc # "idle" => put[p].hash \in Hashes
  /\ \A y \in Reports : report[y].pc # "idle" => report[y].loop \in Loops
  /\ gc.pc \in {"check", "rescan", "delete", "drop"} => gc.hash \in Hashes

Typed == TypeOK /\ Named

(***************************************************************************)
(* Snapshots.                                                              *)
(***************************************************************************)
(* The contents that a table of snapshots refers to. *)
Mentions(s) == {h \in Hashes : \E l \in Loops : \E i \in DOMAIN s[l] : s[l][i] = h}

LEMMA RowsMention ==
  ASSUME NEW s \in [Loops -> Seq(Content)], BlobConstantsOK
  PROVE  {s[r[1]][r[2]] : r \in UNION {{l} \X DOMAIN s[l] : l \in Loops}} \ {None} = Mentions(s)
<1> DEFINE places == UNION {{l} \X DOMAIN s[l] : l \in Loops}
           seen == {s[r[1]][r[2]] : r \in places} \ {None}
<1>1. ASSUME NEW h \in seen PROVE h \in Mentions(s)
  <2>1. PICK r \in places : h = s[r[1]][r[2]]
    BY <1>1
  <2>2. PICK l \in Loops : r \in {l} \X DOMAIN s[l]
    BY <2>1
  <2>3. r[1] = l /\ r[2] \in DOMAIN s[l]
    BY <2>2
  <2>4. s[l] \in Seq(Content)
    OBVIOUS
  <2>5. s[l][r[2]] \in Content
    BY <2>3, <2>4
  <2>6. h # None
    BY <1>1
  <2> QED BY <2>1, <2>3, <2>5, <2>6 DEF Mentions, Content
<1>2. ASSUME NEW h \in Mentions(s) PROVE h \in seen
  <2>1. PICK l \in Loops : \E i \in DOMAIN s[l] : s[l][i] = h
    BY <1>2 DEF Mentions
  <2>2. PICK i \in DOMAIN s[l] : s[l][i] = h
    BY <2>1
  <2>3. <<l, i>> \in places
    OBVIOUS
  <2>4. h # None
    BY <1>2 DEF Mentions, BlobConstantsOK
  <2> QED BY <2>2, <2>3, <2>4
<1> QED BY <1>1, <1>2

LEMMA SnapHashesAreMentions ==
  ASSUME snaps \in [Loops -> Seq(Content)], BlobConstantsOK
  PROVE  SnapHashes = Mentions(snaps)
BY RowsMention DEF SnapHashes, SnapRows

LEMMA SnapCountIsNat ==
  ASSUME snaps \in [Loops -> Seq(Content)], BlobConstantsOK
  PROVE  SnapCount \in Nat
<1> DEFINE places(l) == {l} \X DOMAIN snaps[l]
           R == {places(l) : l \in Loops}
<1>1. ASSUME NEW l \in Loops PROVE IsFiniteSet(places(l))
  <2>1. DOMAIN snaps[l] = 1..Len(snaps[l]) /\ Len(snaps[l]) \in Nat
    OBVIOUS
  <2>2. IsFiniteSet(DOMAIN snaps[l])
    BY <2>1, FS_Interval
  <2>3. IsFiniteSet({l})
    BY FS_Singleton
  <2> QED BY <2>2, <2>3, FS_Product
<1>2. IsFiniteSet(R)
  <2> DEFINE f == [l \in Loops |-> places(l)]
  <2>1. f \in Surjection(Loops, R)
    BY DEF Surjection
  <2>2. IsFiniteSet(Loops)
    BY DEF BlobConstantsOK
  <2> HIDE DEF f, R
  <2> QED BY <2>1, <2>2, FS_Surjection
<1>3. IsFiniteSet(UNION R)
  BY <1>1, <1>2, FS_UNION
<1>4. SnapRows = UNION R
  BY DEF SnapRows
<1> QED BY <1>3, <1>4, FS_CardinalityType DEF SnapCount

(* Pruning keeps a part, a new snapshot adds its own content. *)
LEMMA PrunedKeepsPart ==
  ASSUME NEW s \in Seq(Content), BlobConstantsOK
  PROVE  /\ Pruned(s) \in Seq(Content)
         /\ \A i \in DOMAIN Pruned(s) : \E j \in DOMAIN s : Pruned(s)[i] = s[j]
<1> DEFINE n == Len(s)
           m == IF n > Keep THEN n - Keep + 1 ELSE 1
<1>1. n \in Nat /\ Keep \in Nat \ {0} /\ DOMAIN s = 1..n
  BY DEF BlobConstantsOK
<1>2. m \in Int /\ m >= 1
  BY <1>1
<1>3. \A i \in m..n : s[i] \in Content
  BY <1>1, <1>2
<1> HIDE DEF m, n
<1>4. /\ SubSeq(s, m, n) \in Seq(Content)
      /\ Len(SubSeq(s, m, n)) = IF m <= n THEN n - m + 1 ELSE 0
      /\ \A i \in 1..(n - m + 1) : SubSeq(s, m, n)[i] = s[m + i - 1]
  BY <1>1, <1>2, <1>3, SubSeqProperties
<1>5. Pruned(s) = SubSeq(s, m, n)
  BY DEF Pruned, m, n
<1>6. ASSUME NEW i \in DOMAIN Pruned(s) PROVE \E j \in DOMAIN s : Pruned(s)[i] = s[j]
  <2>1. i \in 1..(n - m + 1)
    BY <1>1, <1>2, <1>4, <1>5
  <2>2. m + i - 1 \in 1..n
    BY <1>1, <1>2, <2>1
  <2> QED BY <1>1, <1>4, <1>5, <2>1, <2>2
<1> QED BY <1>4, <1>5, <1>6

(* The clauses of Typed that only a request's slot decides. *)
LEMMA TypedInit == Init /\ BlobConstantsOK => Typed
<1> SUFFICES ASSUME Init, BlobConstantsOK PROVE Typed
  OBVIOUS
<1>1. NoSync \in Sync /\ SyncNamed(NoSync) /\ NoPut \in Put /\ NoReport \in Report /\ NoGc \in Gc
  BY DEF NoSync, Sync, SyncNamed, NoPut, Put, NoReport, Report, NoGc, Gc, Content
<1>2. /\ sync \in [Syncs -> Sync] /\ put \in [Puts -> Put] /\ report \in [Reports -> Report] /\ gc \in Gc
      /\ file \in [Loops -> Content] /\ snaps \in [Loops -> Seq(Content)]
  BY <1>1 DEF Init, Content
<1>3. Named
  BY <1>1 DEF Named, Init, NoPut, NoReport, NoGc
<1>6. restarts \in 0..MaxRestarts
  BY DEF Init, BlobConstantsOK
<1>7. held \in BOOLEAN
  BY DEF Init
<1>4. /\ unseen \subseteq Hashes /\ raced \subseteq Hashes
      /\ alive \subseteq Loops /\ blobs \subseteq Hashes /\ old \subseteq blobs /\ bytes \subseteq Hashes
      /\ asked \subseteq Hashes
  BY DEF Init
<1>5. TypeOK
  BY <1>2, <1>4, <1>6, <1>7 DEF TypeOK
<1> QED BY <1>3, <1>5 DEF Typed

(* A sync moves on in its own slot. *)
SyncsTyped == sync \in [Syncs -> Sync] /\ \A x \in Syncs : SyncNamed(sync[x])

LEMMA SyncMoves ==
  ASSUME SyncsTyped, NEW x \in Syncs, NEW s \in Sync, SyncNamed(s), sync' = [sync EXCEPT ![x] = s]
  PROVE  SyncsTyped'
BY DEF SyncsTyped

LEMMA SyncEnds ==
  ASSUME SyncsTyped, NEW x \in Syncs, SyncEnd(x), None \notin Hashes
  PROVE  SyncsTyped'
<1>1. NoSync \in Sync /\ SyncNamed(NoSync)
  BY DEF NoSync, Sync, SyncNamed, Content
<1> QED BY <1>1, SyncMoves DEF SyncEnd

LEMMA SyncGoesTo ==
  ASSUME SyncsTyped, NEW x \in Syncs, SyncTo(x, "seen") \/ SyncTo(x, "put") \/ SyncTo(x, "record"),
         sync[x].pc \in {"upsert", "put", "seen"}
  PROVE  SyncsTyped'
<1> DEFINE To(pc) == [sync[x] EXCEPT !.pc = pc]
<1>1. ASSUME NEW pc \in {"seen", "put", "record"} PROVE To(pc) \in Sync /\ SyncNamed(To(pc))
  BY DEF SyncsTyped, Sync, SyncNamed
<1>2. ASSUME NEW pc \in {"seen", "put", "record"}, SyncTo(x, pc)
      PROVE  sync' = [sync EXCEPT ![x] = To(pc)]
  BY <1>2 DEF SyncTo
<1> HIDE DEF To
<1> QED BY <1>1, <1>2, SyncMoves

(* Every step leads from well-formed requests to well-formed requests. *)
LEMMA TypedStep ==
  ASSUME BlobConstantsOK, Typed, [Next]_vars
  PROVE  Typed'
<1> DEFINE Rest == /\ alive \subseteq Loops
                   /\ snaps \in [Loops -> Seq(Content)]
                   /\ put \in [Puts -> Put] /\ report \in [Reports -> Report] /\ gc \in Gc
                   /\ restarts \in 0..MaxRestarts
                   /\ \A p \in Puts : put[p].pc # "idle" => put[p].hash \in Hashes
                   /\ \A y \in Reports : report[y].pc # "idle" => report[y].loop \in Loops
                   /\ gc.pc \in {"check", "rescan", "delete", "drop"} => gc.hash \in Hashes
<1>a. Rest /\ SyncsTyped /\ None \notin Hashes
  BY DEF Typed, TypeOK, Named, SyncsTyped, BlobConstantsOK
<1>b. ASSUME UNCHANGED syncOnly PROVE Rest'
  BY <1>a, <1>b DEF syncOnly
<1>c. ASSUME Rest', SyncsTyped', file' \in [Loops -> Content], blobs' \subseteq Hashes, old' \subseteq blobs',
             bytes' \subseteq Hashes, asked' \subseteq Hashes, raced' \subseteq Hashes,
             held' \in BOOLEAN, unseen' \subseteq Hashes
      PROVE  Typed'
  BY <1>c DEF Typed, TypeOK, Named, SyncsTyped
<1>1. ASSUME NEW x \in Syncs, NEW l \in Loops, NEW h \in Content, NEW inline \in BOOLEAN,
            SyncBegin(x, l, h, inline) PROVE Typed'
  <2> DEFINE s == [NoSync EXCEPT !.loop = l, !.hash = h, !.inline = inline,
                                 !.pc = IF h = None THEN "tombstone" ELSE "check"]
  <2>1. s \in Sync /\ SyncNamed(s)
    BY DEF NoSync, Sync, SyncNamed, Content
  <2>2. SyncsTyped'
    BY <1>a, <1>1, <2>1, SyncMoves DEF SyncBegin
  <2> QED BY <1>1, <1>b, <1>c, <2>2 DEF SyncBegin, Typed, TypeOK
<1>2. ASSUME NEW x \in Syncs, SyncCheck(x) PROVE Typed'
  <2> DEFINE s == [sync[x] EXCEPT !.pc = "upsert", !.need = sync[x].hash \notin blobs /\ ~sync[x].inline]
  <2>1. s \in Sync /\ SyncNamed(s)
    BY <1>2, <1>a DEF SyncCheck, SyncsTyped, Sync, SyncNamed
  <2>2. SyncsTyped'
    BY <1>a, <1>2, <2>1, SyncMoves, SyncEnds DEF SyncCheck
  <2> QED BY <1>2, <1>b, <1>c, <2>2 DEF SyncCheck, Typed, TypeOK
<1>3. ASSUME NEW x \in Syncs, SyncUpsert(x) PROVE Typed'
  <2>1. sync[x].loop \in Loops /\ sync[x].hash \in Hashes
    BY <1>3, <1>a DEF SyncUpsert, SyncsTyped, SyncNamed
  <2>2. SyncsTyped'
    BY <1>a, <1>3, SyncGoesTo, SyncEnds DEF SyncUpsert
  <2>3. file' \in [Loops -> Content] /\ asked' \subseteq Hashes
    BY <1>3, <2>1 DEF SyncUpsert, Typed, TypeOK, Content
  <2>4. held' \in BOOLEAN
    BY <1>3 DEF SyncUpsert, StillHeld
  <2> QED BY <1>3, <1>b, <1>c, <2>2, <2>3, <2>4 DEF SyncUpsert, Typed, TypeOK
<1>4. ASSUME NEW x \in Syncs, SyncPut(x) PROVE Typed'
  <2>1. sync[x].hash \in Hashes
    BY <1>4, <1>a DEF SyncPut, SyncsTyped, SyncNamed
  <2>2. SyncsTyped'
    BY <1>a, <1>4, SyncGoesTo DEF SyncPut
  <2> QED BY <1>4, <1>b, <1>c, <2>1, <2>2 DEF SyncPut, Typed, TypeOK
<1>5. ASSUME NEW x \in Syncs, SyncSeen(x) PROVE Typed'
  <2>1. SyncsTyped'
    BY <1>a, <1>5, SyncGoesTo, SyncEnds DEF SyncSeen
  <2> QED BY <1>5, <1>b, <1>c, <2>1 DEF SyncSeen, Typed, TypeOK
<1>6. ASSUME NEW x \in Syncs, SyncRecord(x) PROVE Typed'
  <2>1. sync[x].hash \in Hashes
    BY <1>6, <1>a DEF SyncRecord, SyncsTyped, SyncNamed
  <2>2. SyncsTyped'
    BY <1>a, <1>6, SyncEnds DEF SyncRecord
  <2> QED BY <1>6, <1>b, <1>c, <2>1, <2>2 DEF SyncRecord, Typed, TypeOK
<1>7. ASSUME NEW x \in Syncs, SyncTombstone(x) PROVE Typed'
  <2>1. SyncsTyped'
    BY <1>a, <1>7, SyncEnds DEF SyncTombstone
  <2>2. file' \in [Loops -> Content]
    BY <1>7 DEF SyncTombstone, Typed, TypeOK, Content
  <2>3. held' \in BOOLEAN
    BY <1>7 DEF SyncTombstone, StillHeld
  <2> QED BY <1>7, <1>b, <1>c, <2>1, <2>2, <2>3 DEF SyncTombstone, Typed, TypeOK
<1> USE DEF Typed, TypeOK, Named, BlobConstantsOK
<1>8. ASSUME NEW p \in Puts, NEW h \in Hashes, PutBegin(p, h) PROVE Typed'
  BY <1>8 DEF PutBegin, Put, NoPut, Content, putOnly
<1>9. ASSUME NEW p \in Puts, PutCap(p) PROVE Typed'
  <2>1. put' \in [Puts -> Put] /\ \A q \in Puts : put'[q].pc # "idle" => put'[q].hash \in Hashes
    <3>1. put[p] \in Put /\ put[p].hash \in Hashes
      BY <1>9 DEF PutCap
    <3>2. [put[p] EXCEPT !.pc = "put"] \in Put /\ [put[p] EXCEPT !.pc = "put"].hash = put[p].hash
      BY <3>1 DEF Put
    <3>3. NoPut \in Put /\ NoPut.pc = "idle"
      BY DEF NoPut, Put, Content
    <3>4. put' = [put EXCEPT ![p] = [put[p] EXCEPT !.pc = "put"]] \/ put' = [put EXCEPT ![p] = NoPut]
      BY <1>9 DEF PutCap
    <3> QED BY <3>1, <3>2, <3>3, <3>4
  <2>2. file' \in [Loops -> Content]
    BY <1>9 DEF PutCap, Content
  <2>3. held' \in BOOLEAN
    BY <1>9 DEF PutCap, StillHeld
  <2> QED BY <1>9, <2>1, <2>2, <2>3 DEF PutCap, putOnly
<1>10. ASSUME NEW p \in Puts, PutBytes(p) PROVE Typed'
  BY <1>10 DEF PutBytes, Put, NoPut, Content, putOnly
<1>11. ASSUME NEW p \in Puts, PutRecord(p) PROVE Typed'
  BY <1>11 DEF PutRecord, Put, NoPut, Content, putOnly
<1>12. ASSUME NEW y \in Reports, NEW l \in Loops, ReportBegin(y, l) PROVE Typed'
  BY <1>12 DEF ReportBegin, Report, NoReport, Content, reportOnly
<1>13. ASSUME NEW y \in Reports, ReportRead(y) PROVE Typed'
  BY <1>13 DEF ReportRead, Report, NoReport, Content, reportOnly
<1>14. ASSUME NEW y \in Reports, ReportWrite(y) PROVE Typed'
  <2> DEFINE l == report[y].loop  f == report[y].files
  <2>1. l \in Loops /\ f \in Content /\ snaps[l] \in Seq(Content)
    BY <1>14 DEF ReportWrite, Report
  <2>2. Append(snaps[l], f) \in Seq(Content)
    BY <2>1
  <2>3. snaps[l] # <<>> => [snaps[l] EXCEPT ![Len(snaps[l])] = f] \in Seq(Content)
    BY <2>1, ExceptSeq
  <2>4. snaps' \in [Loops -> Seq(Content)]
    BY <1>14, <2>1, <2>2, <2>3 DEF ReportWrite
  <2>5. unseen' \subseteq Hashes /\ held' \in BOOLEAN
    BY <1>14, <2>1 DEF ReportWrite, Content, StillHeld
  <2>6. report' \in [Reports -> Report] /\ \A z \in Reports : report'[z].pc # "idle" => report'[z].loop \in Loops
    <3>1. [report[y] EXCEPT !.pc = "prune"] \in Report /\ [report[y] EXCEPT !.pc = "prune"].loop = l
      BY <2>1 DEF Report
    <3>2. report' = [report EXCEPT ![y] = [report[y] EXCEPT !.pc = "prune"]]
      BY <1>14 DEF ReportWrite
    <3> QED BY <2>1, <3>1, <3>2
  <2> QED BY <1>14, <2>4, <2>5, <2>6 DEF ReportWrite, reportOnly
<1>15. ASSUME NEW y \in Reports, ReportPrune(y) PROVE Typed'
  <2>1. snaps' \in [Loops -> Seq(Content)]
    BY <1>15, PrunedKeepsPart DEF ReportPrune, Report
  <2>2. report' \in [Reports -> Report] /\ \A z \in Reports : report'[z].pc # "idle" => report'[z].loop \in Loops
    BY <1>15 DEF ReportPrune, Report, NoReport, Content
  <2>3. held' \in BOOLEAN
    BY <1>15 DEF ReportPrune, StillHeld
  <2> QED BY <1>15, <2>1, <2>2, <2>3 DEF ReportPrune, reportOnly
<1>16. ASSUME NEW l \in Loops, DeleteLoop(l) PROVE Typed'
  <2>1. held' \in BOOLEAN
    BY <1>16 DEF DeleteLoop, StillHeld
  <2> QED BY <1>16, <2>1 DEF DeleteLoop, Content
<1>17. ASSUME GcBegin PROVE Typed'
  BY <1>17 DEF GcBegin, Gc, NoGc, GcTo, gcOnly, Content
<1>18. ASSUME GcPrune PROVE Typed'
  <2>1. snaps' \in [Loops -> Seq(Content)]
    BY <1>18, PrunedKeepsPart DEF GcPrune
  <2> QED BY <1>18, <2>1 DEF GcPrune, Gc, GcTo, gcOnly
<1>19. ASSUME GcFiles PROVE Typed'
  <2>1. FileHashes \subseteq Hashes
    BY DEF FileHashes, Content
  <2> QED BY <1>19, <2>1 DEF GcFiles, Gc, gcOnly
<1>20. ASSUME GcSnaps PROVE Typed'
  <2>1. SnapHashes \subseteq Hashes
    BY SnapHashesAreMentions DEF Mentions
  <2> QED BY <1>20, <2>1 DEF GcSnaps, Gc, gcOnly
<1>21. ASSUME GcList PROVE Typed'
  BY <1>21 DEF GcList, Gc, NoGc, GcTo, gcOnly, Content
<1>22. ASSUME GcCount PROVE Typed'
  BY <1>22, SnapCountIsNat DEF GcCount, Gc, gcOnly, Content
<1>23. ASSUME GcScan PROVE Typed'
  <2>1. SnapHashes \subseteq Hashes
    BY SnapHashesAreMentions DEF Mentions
  <2> QED BY <1>23, <2>1 DEF GcScan, Gc, gcOnly
<1>24. ASSUME GcEnd PROVE Typed'
  BY <1>24 DEF GcEnd, Gc, NoGc, GcTo, gcOnly, Content
<1>25. ASSUME GcRescan PROVE Typed'
  <2>1. SnapHashes \subseteq Hashes
    BY SnapHashesAreMentions DEF Mentions
  <2> QED BY <1>25, <2>1 DEF GcRescan, Gc, gcOnly
<1>26. ASSUME GcCheck PROVE Typed'
  BY <1>26 DEF GcCheck, Gc, NoGc, GcTo, gcOnly, Content
<1>27. ASSUME GcFail PROVE Typed'
  BY <1>27 DEF GcFail, Gc, NoGc, GcTo, gcOnly, Content
<1>28. ASSUME NEW h \in Hashes, GcDrop(h) PROVE Typed'
  BY <1>28 DEF GcDrop, Gc, NoGc, GcTo, gcOnly, Content
<1>29. ASSUME NEW h \in Hashes, GcNext(h) PROVE Typed'
  <2>1. held' \in BOOLEAN /\ unseen' \subseteq Hashes
    BY <1>29 DEF GcNext
  <2>2. SnapCount \in Nat
    BY SnapCountIsNat
  <2>3. gc' \in Gc /\ gc'.hash = h
    BY <1>29, <2>2 DEF GcNext, Gc, Content
  <2> QED BY <1>29, <2>1, <2>3 DEF GcNext, gcOnly
<1>30. ASSUME NEW h \in Hashes, GcDelete(h) PROVE Typed'
  BY <1>30 DEF GcDelete, Gc, NoGc, GcTo, gcOnly, Content
<1>31. ASSUME NEW h \in Hashes, Age(h) PROVE Typed'
  BY <1>31 DEF Age
<1>32. ASSUME Restart PROVE Typed'
  <2>1. NoSync \in Sync /\ SyncNamed(NoSync)
    BY DEF NoSync, Sync, SyncNamed, Content
  <2>2. NoPut \in Put /\ NoPut.pc = "idle" /\ NoReport \in Report /\ NoReport.pc = "idle"
    BY DEF NoPut, Put, NoReport, Report, Content
  <2>3. NoGc \in Gc /\ NoGc.pc = "idle"
    BY DEF NoGc, Gc, Content
  <2>4. SyncsTyped' /\ put' \in [Puts -> Put] /\ report' \in [Reports -> Report] /\ gc' \in Gc
        /\ gc'.pc = "idle"
    BY <1>32, <2>1, <2>2, <2>3 DEF Restart, SyncsTyped
  <2>5. /\ \A p \in Puts : put'[p].pc = "idle"
        /\ \A y \in Reports : report'[y].pc = "idle"
    BY <1>32, <2>2 DEF Restart
  <2>6. raced' \subseteq Hashes /\ held' \in BOOLEAN /\ unseen' \subseteq Hashes
    BY <1>32 DEF Restart
  <2>8. restarts' \in 0..MaxRestarts
    BY <1>32 DEF Restart
  <2>7. UNCHANGED tables /\ asked' = asked
    BY <1>32 DEF Restart
  <2> QED BY <2>4, <2>5, <2>6, <2>7, <2>8 DEF tables, SyncsTyped
<1>33. ASSUME UNCHANGED vars PROVE Typed'
  BY <1>33 DEF vars, tables
<1> QED
  BY <1>1, <1>2, <1>3, <1>4, <1>5, <1>6, <1>7, <1>8, <1>9, <1>10, <1>11, <1>12, <1>13, <1>14, <1>15, <1>16, <1>17, <1>18, <1>19, <1>20, <1>21, <1>22, <1>23, <1>24, <1>25, <1>26, <1>27, <1>28, <1>29, <1>30, <1>31, <1>32, <1>33
     DEF Next, SyncStep, PutStep, ReportStep, GcStep

(***************************************************************************)
(* A row has bytes.  Inductive with what holds of an upload between its    *)
(* bytes and its row: they are there, unless a byte delete overtook it.    *)
(***************************************************************************)
UploadsStored ==
  /\ \A x \in Syncs : sync[x].pc \in {"seen", "record"} => sync[x].hash \in bytes \cup raced
  /\ \A p \in Puts : put[p].pc = "record" => put[p].hash \in bytes \cup raced

StoredInv == Typed /\ RowHasBytes /\ UploadsStored

LEMMA StoredStep ==
  ASSUME BlobConstantsOK, StoredInv, [Next]_vars
  PROVE  StoredInv'
<1>1. Typed'
  BY TypedStep DEF StoredInv
<1>2. ASSUME UNCHANGED <<blobs, bytes, raced, gc, sync, put>> PROVE RowHasBytes' /\ UploadsStored'
  BY <1>2 DEF StoredInv, RowHasBytes, UploadsStored
<1>3. ASSUME UNCHANGED <<bytes, raced, blobs, gc, put>>, NEW x \in Syncs,
             \E s : sync' = [sync EXCEPT ![x] = s]
                    /\ (s.pc \in {"seen", "record"} => s.hash \in bytes \cup raced)
      PROVE  RowHasBytes' /\ UploadsStored'
  BY <1>3 DEF StoredInv, RowHasBytes, UploadsStored, Typed, TypeOK
<1>4. ASSUME NEW x \in Syncs, SyncStep(x) PROVE RowHasBytes' /\ UploadsStored'
  <2>0. sync[x] \in Sync /\ NoSync.pc = "idle"
    BY DEF StoredInv, Typed, TypeOK, NoSync
  <2>1. CASE SyncCheck(x)
    <3> DEFINE s == [sync[x] EXCEPT !.pc = "upsert", !.need = sync[x].hash \notin blobs /\ ~sync[x].inline]
    <3>1. sync' = [sync EXCEPT ![x] = s] \/ sync' = [sync EXCEPT ![x] = NoSync]
      BY <2>1 DEF SyncCheck, SyncEnd
    <3>2. s.pc = "upsert"
      BY <2>0 DEF Sync
    <3>3. UNCHANGED <<bytes, raced, blobs, gc, put>>
      BY <2>1 DEF SyncCheck, syncOnly
    <3> HIDE DEF s
    <3> QED BY <1>3, <2>0, <3>1, <3>2, <3>3
  <2>2. CASE SyncUpsert(x)
    <3>1. sync' = [sync EXCEPT ![x] = [sync[x] EXCEPT !.pc = "put"]] \/ sync' = [sync EXCEPT ![x] = NoSync]
      BY <2>2 DEF SyncUpsert, SyncTo, SyncEnd
    <3>2. [sync[x] EXCEPT !.pc = "put"].pc = "put"
      BY <2>0 DEF Sync
    <3>3. UNCHANGED <<bytes, raced, blobs, gc, put>>
      BY <2>2 DEF SyncUpsert, syncOnly
    <3> QED BY <1>3, <2>0, <3>1, <3>2, <3>3
  <2>3. CASE SyncPut(x)
    <3>1. sync' = [sync EXCEPT ![x] = [sync[x] EXCEPT !.pc = "seen"]]
      BY <2>3 DEF SyncPut, SyncTo
    <3>2. [sync[x] EXCEPT !.pc = "seen"].hash = sync[x].hash
      BY <2>0 DEF Sync
    <3>3. /\ bytes' = bytes \cup {sync[x].hash}
          /\ raced' = raced \ {sync[x].hash} /\ UNCHANGED <<blobs, gc, put>>
      BY <2>3 DEF SyncPut, syncOnly
    <3>4. RowHasBytes'
      BY <3>3 DEF StoredInv, RowHasBytes
    <3>5. UploadsStored'
      BY <3>1, <3>2, <3>3 DEF StoredInv, UploadsStored, Typed, TypeOK
    <3> QED BY <3>4, <3>5
  <2>4. CASE SyncSeen(x)
    <3>1. sync' = [sync EXCEPT ![x] = [sync[x] EXCEPT !.pc = "record"]] \/ sync' = [sync EXCEPT ![x] = NoSync]
      BY <2>4 DEF SyncSeen, SyncTo, SyncEnd
    <3>2. [sync[x] EXCEPT !.pc = "record"].hash = sync[x].hash
      BY <2>0 DEF Sync
    <3>3. UNCHANGED <<bytes, raced, blobs, gc, put>> /\ sync[x].hash \in bytes \cup raced
      BY <2>4 DEF SyncSeen, syncOnly, StoredInv, UploadsStored
    <3> QED BY <1>3, <2>0, <3>1, <3>2, <3>3
  <2>5. CASE SyncRecord(x)
    <3>1. sync' = [sync EXCEPT ![x] = NoSync]
      BY <2>5 DEF SyncRecord, SyncEnd
    <3>2. /\ blobs' = blobs \cup {sync[x].hash} /\ sync[x].hash \in bytes \cup raced
          /\ UNCHANGED <<bytes, raced, gc, put>>
      BY <2>5 DEF SyncRecord, syncOnly, StoredInv, UploadsStored
    <3>3. RowHasBytes'
      BY <3>2 DEF StoredInv, RowHasBytes
    <3>4. UploadsStored'
      BY <2>0, <3>1, <3>2 DEF StoredInv, UploadsStored, Typed, TypeOK
    <3> QED BY <3>3, <3>4
  <2>6. CASE SyncTombstone(x)
    BY <1>3, <2>0, <2>6 DEF SyncTombstone, SyncEnd, syncOnly
  <2> QED BY <1>4, <2>1, <2>2, <2>3, <2>4, <2>5, <2>6 DEF SyncStep
<1>5. ASSUME NEW x \in Syncs, NEW l \in Loops, NEW h \in Content, NEW i \in BOOLEAN, SyncBegin(x, l, h, i)
      PROVE  RowHasBytes' /\ UploadsStored'
  <2> DEFINE s == [NoSync EXCEPT !.loop = l, !.hash = h, !.inline = i,
                                 !.pc = IF h = None THEN "tombstone" ELSE "check"]
  <2>1. s.pc \notin {"seen", "record"}
    BY DEF NoSync
  <2>2. sync' = [sync EXCEPT ![x] = s]
    BY <1>5 DEF SyncBegin
  <2>3. UNCHANGED <<bytes, raced, blobs, gc, put>>
    BY <1>5 DEF SyncBegin, syncOnly
  <2> HIDE DEF s
  <2> QED BY <1>3, <2>1, <2>2, <2>3
<1>6. ASSUME NEW p \in Puts, PutStep(p) \/ \E h \in Hashes : PutBegin(p, h)
      PROVE  RowHasBytes' /\ UploadsStored'
  <2>0. put[p] \in Put
    BY DEF StoredInv, Typed, TypeOK
  <2>1. ASSUME UNCHANGED <<bytes, raced, blobs, gc, sync>>,
               \E s : put' = [put EXCEPT ![p] = s] /\ s.pc # "record"
        PROVE  RowHasBytes' /\ UploadsStored'
    BY <2>1 DEF StoredInv, RowHasBytes, UploadsStored, Typed, TypeOK
  <2>2. ASSUME NEW h \in Hashes, PutBegin(p, h) PROVE RowHasBytes' /\ UploadsStored'
    <3>1. put' = [put EXCEPT ![p] = [pc |-> "cap", hash |-> h]]
      BY <2>2 DEF PutBegin
    <3> QED BY <2>1, <2>2, <3>1 DEF PutBegin, putOnly
  <2>3. CASE PutCap(p)
    <3>1. put' = [put EXCEPT ![p] = [put[p] EXCEPT !.pc = "put"]] \/ put' = [put EXCEPT ![p] = NoPut]
      BY <2>3 DEF PutCap
    <3>2. [put[p] EXCEPT !.pc = "put"].pc # "record" /\ NoPut.pc # "record"
      BY <2>0 DEF Put, NoPut
    <3> QED BY <2>1, <2>3, <3>1, <3>2 DEF PutCap, putOnly
  <2>4. CASE PutBytes(p)
    <3>1. put' = [put EXCEPT ![p] = [put[p] EXCEPT !.pc = "record"]]
          /\ [put[p] EXCEPT !.pc = "record"].hash = put[p].hash
      BY <2>0, <2>4 DEF PutBytes, Put
    <3>2. /\ bytes' = bytes \cup {put[p].hash} /\ raced' = raced \ {put[p].hash}
          /\ UNCHANGED <<blobs, gc, sync>>
      BY <2>4 DEF PutBytes, putOnly
    <3>3. RowHasBytes'
      BY <3>2 DEF StoredInv, RowHasBytes
    <3>4. UploadsStored'
      BY <3>1, <3>2 DEF StoredInv, UploadsStored, Typed, TypeOK
    <3> QED BY <3>3, <3>4
  <2>5. CASE PutRecord(p)
    <3>1. put' = [put EXCEPT ![p] = NoPut] /\ NoPut.pc = "idle"
      BY <2>5 DEF PutRecord, NoPut
    <3>2. /\ blobs' = blobs \cup {put[p].hash} /\ put[p].hash \in bytes \cup raced
          /\ UNCHANGED <<bytes, raced, gc, sync>>
      BY <2>5 DEF PutRecord, putOnly, StoredInv, UploadsStored
    <3>3. RowHasBytes'
      BY <3>2 DEF StoredInv, RowHasBytes
    <3>4. UploadsStored'
      BY <3>1, <3>2 DEF StoredInv, UploadsStored, Typed, TypeOK
    <3> QED BY <3>3, <3>4
  <2> QED BY <1>6, <2>2, <2>3, <2>4, <2>5 DEF PutStep
<1>7. ASSUME NEW y \in Reports, ReportStep(y) \/ \E l \in Loops : ReportBegin(y, l)
      PROVE  RowHasBytes' /\ UploadsStored'
  BY <1>2, <1>7 DEF ReportStep, ReportBegin, ReportRead, ReportWrite, ReportPrune, reportOnly
<1>8. ASSUME NEW l \in Loops, DeleteLoop(l) PROVE RowHasBytes' /\ UploadsStored'
  BY <1>2, <1>8 DEF DeleteLoop
\* A step of the pass that is not about deleting.
<1>9. ASSUME gc.pc # "drop", UNCHANGED <<blobs, bytes, raced, sync, put>> PROVE RowHasBytes' /\ UploadsStored'
  BY <1>9 DEF StoredInv, RowHasBytes, UploadsStored
<1>10. ASSUME GcStep PROVE RowHasBytes' /\ UploadsStored'
  BY <1>9, <1>10 DEF GcStep, GcBegin, GcPrune, GcFiles, GcSnaps, GcList, GcCount, GcScan, GcNext,
                     GcEnd, GcRescan, GcCheck, gcOnly
<1>11. ASSUME (\E h \in Hashes : GcDrop(h)) \/ GcFail PROVE RowHasBytes' /\ UploadsStored'
  <2>1. ASSUME NEW h \in Hashes, GcDrop(h) PROVE RowHasBytes' /\ UploadsStored'
    <3>1. /\ blobs' = blobs \ {h} /\ UNCHANGED <<bytes, sync, put>> /\ gc.pc = "drop" /\ gc.hash = h
          /\ raced' = IF Uploading(h) THEN raced ELSE raced \ {h}
      BY <2>1 DEF GcDrop, gcOnly
    <3>2. RowHasBytes'
      BY <3>1 DEF StoredInv, RowHasBytes
    <3>3. UploadsStored'
      BY <3>1 DEF StoredInv, UploadsStored, Uploading
    <3> QED BY <3>2, <3>3
  <2>2. ASSUME GcFail PROVE RowHasBytes' /\ UploadsStored'
    <3>1. /\ raced' = (IF gc.pc = "drop" THEN raced \cup {gc.hash} ELSE raced)
          /\ UNCHANGED <<blobs, bytes, sync, put>>
      BY <2>2 DEF GcFail, gcOnly
    <3> QED BY <3>1 DEF StoredInv, RowHasBytes, UploadsStored
  <2> QED BY <1>11, <2>1, <2>2
<1>12. ASSUME NEW h \in Hashes, GcDelete(h) PROVE RowHasBytes' /\ UploadsStored'
  <2>1. /\ bytes' = bytes \ {h} /\ gc.hash = h /\ gc.pc = "delete"
        /\ raced' = IF Uploading(h) THEN raced \cup {h} ELSE raced
        /\ UNCHANGED <<blobs, sync, put>>
    BY <1>12 DEF GcDelete, gcOnly
  <2>2. gc'.pc = "drop" /\ gc'.hash = h
    BY <1>12 DEF GcDelete, GcTo, StoredInv, Typed, TypeOK, Gc
  <2>3. RowHasBytes'
    BY <2>1, <2>2 DEF StoredInv, RowHasBytes
  <2>4. UploadsStored'
    BY <2>1 DEF StoredInv, UploadsStored, Uploading
  <2> QED BY <2>3, <2>4
<1>13. ASSUME NEW h \in Hashes, Age(h) PROVE RowHasBytes' /\ UploadsStored'
  BY <1>2, <1>13 DEF Age
<1>14. ASSUME Restart PROVE RowHasBytes' /\ UploadsStored'
  <2>1. gc'.pc = "idle" /\ (\A x \in Syncs : sync'[x].pc = "idle") /\ \A p \in Puts : put'[p].pc = "idle"
    BY <1>14 DEF Restart, NoGc, NoSync, NoPut
  <2>2. raced' = (IF gc.pc = "drop" THEN raced \cup {gc.hash} ELSE raced) /\ UNCHANGED <<blobs, bytes>>
    BY <1>14 DEF Restart, tables
  <2> QED BY <2>1, <2>2 DEF StoredInv, RowHasBytes, UploadsStored
<1>15. ASSUME UNCHANGED vars PROVE RowHasBytes' /\ UploadsStored'
  BY <1>2, <1>15 DEF vars, tables
<1>16. RowHasBytes' /\ UploadsStored'
  BY <1>4, <1>5, <1>6, <1>7, <1>8, <1>10, <1>11, <1>12, <1>13, <1>14, <1>15 DEF Next
<1> QED BY <1>1, <1>16 DEF StoredInv

(* A blobs row without bytes is left behind only by a byte delete that      *)
(* overtook an upload of the same content, or by a collection that a crash  *)
(* or a failing database cut in two (sync.ts, putBlob and sync;             *)
(* retention.ts, gcBlobs).                                                  *)
THEOREM RowsHaveBytes == Spec => []RowHasBytes
<1>1. Init => StoredInv
  BY TypedInit, BlobConstantsOK DEF StoredInv, Init, RowHasBytes, UploadsStored, NoSync, NoPut
<1>2. StoredInv /\ [Next]_vars => StoredInv'
  BY StoredStep, BlobConstantsOK
<1>3. StoredInv => RowHasBytes
  BY DEF StoredInv
<1> QED BY <1>1, <1>2, <1>3, PTL DEF Spec

(***************************************************************************)
(* Nothing that stays referred to is deleted.  Inductive with what the     *)
(* pass knows of the snapshots from the moment it has read them: what it   *)
(* does not know, a report has left in `unseen'.                           *)
(***************************************************************************)
SnapsSeen == gc.pc \in Scanned \ {"rescan"} => Mentions(snaps) \subseteq gc.snapRefs \cup unseen
HeldRefers == gc.pc \in {"rescan", "check", "delete"} /\ held => gc.hash \in Referred

Kept == SnapsSeen /\ HeldRefers /\ KeptWhileReferred
KeptInv == Typed /\ Kept

LEMMA FewerMentions ==
  ASSUME NEW s, NEW t,
         \A l \in Loops : \A i \in DOMAIN t[l] : \E j \in DOMAIN s[l] : t[l][i] = s[l][j]
  PROVE  Mentions(t) \subseteq Mentions(s)
<1> SUFFICES ASSUME NEW h \in Mentions(t) PROVE h \in Mentions(s)
  OBVIOUS
<1>1. PICK l \in Loops : \E i \in DOMAIN t[l] : t[l][i] = h
  BY DEF Mentions
<1>2. \E j \in DOMAIN s[l] : s[l][j] = h
  BY <1>1
<1> QED BY <1>2 DEF Mentions

(* A snapshot that is written adds one content at most. *)
LEMMA WriteMentions ==
  ASSUME BlobConstantsOK, Typed, NEW y \in Reports, ReportWrite(y)
  PROVE  Mentions(snaps') \subseteq Mentions(snaps) \cup ({report[y].files} \ {None})
<1> DEFINE l == report[y].loop  f == report[y].files
           r == [snaps[l] EXCEPT ![Len(snaps[l])] = f]
<1>1. l \in Loops /\ f \in Content /\ snaps \in [Loops -> Seq(Content)] /\ snaps[l] \in Seq(Content)
  BY DEF ReportWrite, Typed, TypeOK, Named, Report
<1>2. \A i \in DOMAIN Append(snaps[l], f) :
         Append(snaps[l], f)[i] = f \/ \E j \in DOMAIN snaps[l] : Append(snaps[l], f)[i] = snaps[l][j]
  BY <1>1, AppendProperties
<1>3. \A i \in DOMAIN r : r[i] = f \/ \E j \in DOMAIN snaps[l] : r[i] = snaps[l][j]
  BY <1>1
<1>4. snaps' = [snaps EXCEPT ![l] = Append(snaps[l], f)] \/ snaps' = [snaps EXCEPT ![l] = r]
  BY DEF ReportWrite
<1> HIDE DEF r, l, f
<1>5. \A i \in DOMAIN snaps'[l] : snaps'[l][i] = f \/ \E j \in DOMAIN snaps[l] : snaps'[l][i] = snaps[l][j]
  BY <1>1, <1>2, <1>3, <1>4
<1>6. \A k \in Loops \ {l} : snaps'[k] = snaps[k]
  BY <1>1, <1>4
<1>7. ASSUME NEW h \in Mentions(snaps'), h # f PROVE h \in Mentions(snaps)
  <2>1. h \in Hashes
    BY <1>7 DEF Mentions
  <2>2. PICK k \in Loops : \E i \in DOMAIN snaps'[k] : snaps'[k][i] = h
    BY <1>7 DEF Mentions
  <2>3. \E j \in DOMAIN snaps[k] : snaps[k][j] = h
    BY <1>5, <1>6, <1>7, <2>2
  <2> QED BY <2>1, <2>3 DEF Mentions
<1>8. \A h \in Mentions(snaps') : h # None
  BY DEF Mentions, BlobConstantsOK
<1> QED BY <1>7, <1>8 DEF f

LEMMA KeptStep ==
  ASSUME BlobConstantsOK, KeptInv, [Next]_vars
  PROVE  KeptInv'
<1>0. Typed /\ Typed' /\ Kept
  BY TypedStep DEF KeptInv
\* The references do not change, or the pass is told of it.
<1>1. ASSUME UNCHANGED <<gc, held, unseen, snaps, file>> PROVE Kept'
  BY <1>0, <1>1 DEF Kept, SnapsSeen, HeldRefers, KeptWhileReferred, Referred, FileHashes, SnapHashes, SnapRows
<1>2. ASSUME UNCHANGED gc, StillHeld, unseen \subseteq unseen', Mentions(snaps') \subseteq Mentions(snaps)
      PROVE  Kept'
  BY <1>0, <1>2 DEF Kept, SnapsSeen, HeldRefers, KeptWhileReferred, StillHeld
<1>3. ASSUME NEW x \in Syncs, SyncStep(x) \/ \E l \in Loops, h \in Content, i \in BOOLEAN : SyncBegin(x, l, h, i)
      PROVE  Kept'
  <2>1. CASE SyncUpsert(x) \/ SyncTombstone(x)
    <3>1. UNCHANGED <<gc, unseen, snaps>> /\ StillHeld
      BY <2>1 DEF SyncUpsert, SyncTombstone, syncOnly
    <3> QED BY <1>2, <3>1
  <2>2. CASE UNCHANGED <<gc, held, unseen, snaps, file>>
    BY <1>1, <2>2
  <2> QED BY <1>3, <2>1, <2>2 DEF SyncStep, SyncBegin, SyncCheck, SyncPut, SyncSeen, SyncRecord, syncOnly
<1>4. ASSUME NEW p \in Puts, PutStep(p) \/ \E h \in Hashes : PutBegin(p, h)
      PROVE  Kept'
  <2>1. CASE PutCap(p)
    <3>1. UNCHANGED <<gc, unseen, snaps>> /\ StillHeld
      BY <2>1 DEF PutCap, putOnly
    <3> QED BY <1>2, <3>1
  <2>2. CASE UNCHANGED <<gc, held, unseen, snaps, file>>
    BY <1>1, <2>2
  <2> QED BY <1>4, <2>1, <2>2 DEF PutStep, PutBegin, PutBytes, PutRecord, putOnly
<1>5. ASSUME NEW y \in Reports, ReportWrite(y) PROVE Kept'
  <2>1. UNCHANGED gc /\ StillHeld /\ unseen \subseteq unseen'
        /\ (gc.pc \in Scanned => {report[y].files} \ {None} \subseteq unseen')
    BY <1>5 DEF ReportWrite, reportOnly
  <2>2. Mentions(snaps') \subseteq Mentions(snaps) \cup ({report[y].files} \ {None})
    BY <1>0, <1>5, WriteMentions
  <2>3. SnapsSeen'
    BY <1>0, <2>1, <2>2 DEF Kept, SnapsSeen
  <2>4. HeldRefers' /\ KeptWhileReferred'
    BY <1>0, <2>1 DEF Kept, HeldRefers, KeptWhileReferred, StillHeld
  <2> QED BY <2>3, <2>4 DEF Kept
<1>6. ASSUME NEW y \in Reports, ReportPrune(y) PROVE Kept'
  <2>1. report[y].loop \in Loops /\ snaps' = [snaps EXCEPT ![report[y].loop] = Pruned(@)]
    BY <1>0, <1>6 DEF ReportPrune, Typed, Named
  <2>2. \A l \in Loops : \A i \in DOMAIN snaps'[l] : \E j \in DOMAIN snaps[l] : snaps'[l][i] = snaps[l][j]
    BY <1>0, <2>1, PrunedKeepsPart DEF Typed, TypeOK
  <2>3. Mentions(snaps') \subseteq Mentions(snaps)
    BY <2>2, FewerMentions
  <2> QED BY <1>2, <1>6, <2>3 DEF ReportPrune, reportOnly
<1>7. ASSUME NEW y \in Reports, ReportStep(y) \/ \E l \in Loops : ReportBegin(y, l)
      PROVE  Kept'
  <2>1. CASE UNCHANGED <<gc, held, unseen, snaps, file>>
    BY <1>1, <2>1
  <2> QED BY <1>5, <1>6, <1>7, <2>1 DEF ReportStep, ReportBegin, ReportRead, reportOnly
<1>8. ASSUME NEW l \in Loops, DeleteLoop(l) PROVE Kept'
  <2>1. \A k \in Loops : \A i \in DOMAIN snaps'[k] : \E j \in DOMAIN snaps[k] : snaps'[k][i] = snaps[k][j]
    BY <1>0, <1>8 DEF DeleteLoop, Typed, TypeOK
  <2>2. Mentions(snaps') \subseteq Mentions(snaps)
    BY <2>1, FewerMentions
  <2> QED BY <1>2, <1>8, <2>2 DEF DeleteLoop
<1>9. SnapHashes = Mentions(snaps)
  BY <1>0, SnapHashesAreMentions DEF Typed, TypeOK
\* The pass reads the snapshots.
<1>10. ASSUME GcScan \/ GcRescan PROVE Kept'
  <2>1. /\ gc'.pc \in {"next", "check"} /\ gc'.snapRefs = SnapHashes /\ UNCHANGED <<snaps, file, held>>
        /\ gc'.hash = gc.hash /\ (gc'.pc = "check" => gc.pc = "rescan")
    BY <1>0, <1>10 DEF GcScan, GcRescan, gcOnly, Typed, TypeOK, Gc
  <2>2. Referred' = Referred
    BY <2>1 DEF Referred, FileHashes, SnapHashes, SnapRows
  <2> QED BY <1>0, <1>9, <2>1, <2>2 DEF Kept, SnapsSeen, HeldRefers, KeptWhileReferred
\* The candidate is taken up.
<1>11. ASSUME NEW h \in Hashes, GcNext(h) PROVE Kept'
  <2>1. /\ gc'.pc = (IF SnapCount = gc.count THEN "check" ELSE "rescan") /\ gc'.hash = h
        /\ gc'.snapRefs = gc.snapRefs /\ gc.pc = "next" /\ UNCHANGED <<snaps, file>>
        /\ unseen' = (IF SnapCount = gc.count THEN unseen ELSE {}) /\ held' = (h \in Referred)
    BY <1>0, <1>11 DEF GcNext, gcOnly, Typed, TypeOK, Gc
  <2>2. Referred' = Referred
    BY <2>1 DEF Referred, FileHashes, SnapHashes, SnapRows
  <2> QED BY <1>0, <2>1, <2>2 DEF Kept, SnapsSeen, HeldRefers, KeptWhileReferred, Scanned
\* It is found unreferred to: if something refers to it, that is a snapshot not seen.
<1>12. ASSUME GcCheck PROVE Kept'
  <2>1. /\ gc'.snapRefs = gc.snapRefs /\ gc.pc = "check" /\ UNCHANGED <<snaps, unseen, file>>
        /\ gc'.pc \in {"next", "delete"} /\ (held' => held /\ gc'.pc = "delete")
        /\ (gc'.pc = "delete" => gc'.hash = gc.hash /\ gc.hash \notin FileHashes \cup gc.snapRefs)
    BY <1>0, <1>12 DEF GcCheck, GcTo, gcOnly, Typed, TypeOK, Gc
  <2>2. Referred' = Referred
    BY <2>1 DEF Referred, FileHashes, SnapHashes, SnapRows
  <2>3. held' => gc.hash \in unseen
    BY <1>0, <1>9, <2>1 DEF Kept, SnapsSeen, HeldRefers, Referred, Scanned
  <2> QED BY <1>0, <2>1, <2>2, <2>3 DEF Kept, SnapsSeen, HeldRefers, KeptWhileReferred, Scanned
\* It is through with the candidate, and goes on with what it has read.
<1>13. ASSUME (\E h \in Hashes : GcDelete(h) \/ GcDrop(h)) \/ GcFail PROVE Kept'
  <2>1. gc.pc \in {"delete", "drop"} /\ UNCHANGED <<snaps, unseen>>
    BY <1>13 DEF GcDelete, GcFail, GcDrop
  <2>2. gc'.pc \in {"next", "drop"} /\ gc'.snapRefs = gc.snapRefs
    BY <1>0, <1>13 DEF GcDelete, GcFail, GcDrop, GcTo, Typed, TypeOK, Gc
  <2> QED BY <1>0, <2>1, <2>2 DEF Kept, SnapsSeen, HeldRefers, KeptWhileReferred, Scanned
\* It has read nothing yet, or knows no more.
<1>14. ASSUME GcBegin \/ GcPrune \/ GcFiles \/ GcSnaps \/ GcList \/ GcCount \/ GcEnd \/ Restart
       PROVE  Kept'
  <2>1. gc'.pc \in {"prune", "files", "snaps", "list", "count", "scan", "idle"}
    <3>1. CASE GcEnd \/ Restart
      BY <3>1 DEF GcEnd, Restart, NoGc
    <3>2. CASE GcBegin \/ GcPrune \/ GcFiles
      BY <1>0, <3>2 DEF GcBegin, GcPrune, GcFiles, GcTo, Typed, TypeOK, Gc
    <3>3. CASE GcSnaps \/ GcList \/ GcCount
      BY <1>0, <3>3 DEF GcSnaps, GcList, GcCount, Typed, TypeOK, Gc
    <3> QED BY <1>14, <3>1, <3>2, <3>3
  <2> QED BY <2>1 DEF Kept, SnapsSeen, HeldRefers, KeptWhileReferred, Scanned
<1>15. ASSUME (\E h \in Hashes : Age(h)) \/ UNCHANGED vars PROVE Kept'
  BY <1>1, <1>15 DEF Age, vars, tables
<1>16. Kept'
  BY <1>3, <1>4, <1>7, <1>8, <1>10, <1>11, <1>12, <1>13, <1>14, <1>15 DEF Next, GcStep
<1> QED BY <1>0, <1>16 DEF KeptInv

(* A candidate that something refers to from the moment it is taken up is   *)
(* not deleted, though its reference may move from a file row to a snapshot *)
(* meanwhile: unless that snapshot was written after the number of          *)
(* snapshots was compared, or left it as it was (retention.ts, gcBlobs).    *)
THEOREM ReferredIsKept == Spec => []KeptWhileReferred
<1>1. Init => KeptInv
  BY TypedInit, BlobConstantsOK
     DEF KeptInv, Kept, Init, SnapsSeen, HeldRefers, KeptWhileReferred, Scanned, NoGc
<1>2. KeptInv /\ [Next]_vars => KeptInv'
  BY KeptStep, BlobConstantsOK
<1>3. KeptInv => KeptWhileReferred
  BY DEF KeptInv, Kept
<1> QED BY <1>1, <1>2, <1>3, PTL DEF Spec

(* Requests, the pass and the tables keep their shape (gateway/sync.ts,     *)
(* gateway/retention.ts).                                                   *)
THEOREM StoreIsTyped == Spec => []TypeOK
<1>1. Init => Typed
  BY TypedInit, BlobConstantsOK
<1>2. Typed /\ [Next]_vars => Typed'
  BY TypedStep, BlobConstantsOK
<1>3. Typed => TypeOK
  BY DEF Typed
<1> QED BY <1>1, <1>2, <1>3, PTL DEF Spec

(***************************************************************************)
(* FolderMirror: shapes.                                                   *)
(***************************************************************************)
LEMMA MirrorNames ==
  /\ Large \subseteq Contents /\ Absent \notin Contents /\ Nobody \notin Slots /\ Nobody \notin Paths
  /\ MaxWrites \in Nat /\ MaxFaults \in Nat
BY MirrorConstantsOK

MirrorTyped == MirrorTypeOK /\ \A p \in Paths : disk[p].stat <= writes

LEMMA NothingTyped ==
  /\ NoEntry \in Entry /\ NoCache \in Cache /\ Empty \in Manifest
  /\ Closed \in Watcher /\ NoFlush \in Flush /\ NoForce \in Forced
  /\ NoHandler \in Handler
<1>1. NoEntry \in Entry  BY MirrorNames DEF NoEntry, Entry, FileContent
<1>2. NoCache \in Cache  BY <1>1 DEF NoCache, Cache
<1>3. Empty \in Manifest  BY DEF Empty, Manifest, FileContent
<1>4. Closed \in Watcher  BY <1>2 DEF Closed, Watcher
<1>5. NoFlush \in Flush  BY <1>2, <1>3 DEF NoFlush, Flush
<1>6. NoForce \in Forced  BY DEF NoForce, Forced
<1>7. NoHandler \in Handler  BY <1>3 DEF NoHandler, Handler
<1> QED  BY <1>1, <1>2, <1>3, <1>4, <1>5, <1>6, <1>7

(* The parts of MirrorTypeOK, by what actions change together. *)
FolderTyped == /\ disk \in [Paths -> File] /\ \A p \in Paths : disk[p].stat <= writes
               /\ exists \in BOOLEAN /\ writes \in 0..MaxWrites
DaemonTyped == /\ told \in BOOLEAN /\ event \in BOOLEAN /\ disturbed \in BOOLEAN
               /\ watcher \in Watcher /\ flush \in Flush /\ forced \in Forced
               /\ orphans \subseteq Manifest /\ faults \in 0..MaxFaults
ServerTyped == handler \in [Slots -> Handler] /\ rows \in Manifest /\ stored \subseteq Contents

LEMMA MirrorParts == MirrorTyped <=> FolderTyped /\ DaemonTyped /\ ServerTyped
BY DEF MirrorTyped, MirrorTypeOK, FolderTyped, DaemonTyped, ServerTyped

LEMMA MirrorStartTyped == MirrorInit => MirrorTyped
<1> SUFFICES ASSUME MirrorInit PROVE MirrorTyped  OBVIOUS
<1>1. FolderTyped
  <2> DEFINE f == [c |-> Absent, stat |-> 0, young |-> FALSE]
  <2>1. f \in File /\ f.stat = 0  BY MirrorNames DEF File, FileContent
  <2>2. disk = [p \in Paths |-> f] /\ exists \in BOOLEAN /\ writes = 0  BY DEF MirrorInit
  <2> HIDE DEF f
  <2>3. \A p \in Paths : disk[p].stat = 0  BY <2>1, <2>2
  <2> QED  BY <2>1, <2>2, <2>3, MirrorNames DEF FolderTyped
<1>2. DaemonTyped
  <2>1. told \in BOOLEAN /\ event \in BOOLEAN /\ disturbed \in BOOLEAN  BY DEF MirrorInit
  <2>2. watcher = Closed /\ flush = NoFlush /\ forced = NoForce  BY DEF MirrorInit
  <2>3. orphans \subseteq Manifest /\ faults \in 0..MaxFaults  BY MirrorNames DEF MirrorInit
  <2> QED  BY <2>1, <2>2, <2>3, NothingTyped DEF DaemonTyped
<1>3. ServerTyped  BY NothingTyped DEF MirrorInit, ServerTyped
<1> QED  BY <1>1, <1>2, <1>3, MirrorParts

LEMMA FolderStep == ASSUME MirrorTyped, [MirrorNext]_mirrorVars PROVE FolderTyped'
<1> USE DEF FolderTyped
<1>1. FolderTyped  BY MirrorParts
<1>2. ASSUME NEW p \in Paths, Ripen(p) PROVE FolderTyped'
  <2>1. disk' = [disk EXCEPT ![p] = [disk[p] EXCEPT !.young = FALSE]] /\ UNCHANGED <<exists, writes>>
    BY <1>1, <1>2 DEF Ripen
  <2> DEFINE f == [disk[p] EXCEPT !.young = FALSE]
  <2>2. disk[p] \in File  BY <1>1
  <2>3. f \in File /\ f.stat = disk[p].stat  BY <2>2 DEF File
  <2> HIDE DEF f
  <2>4. disk' = [disk EXCEPT ![p] = f]  BY <2>1 DEF f
  <2> QED  BY <1>1, <2>1, <2>3, <2>4
<1>3. ASSUME NEW p \in Paths, NEW c \in FileContent, Write(p, c) PROVE FolderTyped'
  <2>1. PICK s : /\ s \in {disk[p].stat, disk[p].stat + 1}
                 /\ disk' = [disk EXCEPT ![p] = [c |-> c, stat |-> s, young |-> TRUE]]
    BY <1>3 DEF Write
  <2>2. writes < MaxWrites /\ writes' = writes + 1 /\ UNCHANGED exists  BY <1>3 DEF Write
  <2> DEFINE f == [c |-> c, stat |-> s, young |-> TRUE]
  <2>3. disk[p].stat \in Nat /\ disk[p].stat <= writes /\ writes \in Nat /\ MaxWrites \in Nat
    BY <1>1, MirrorNames DEF File
  <2>4. s \in 0..MaxWrites /\ s <= writes'  BY <2>1, <2>2, <2>3
  <2>5. f \in File /\ f.stat = s  BY <2>4 DEF File
  <2> HIDE DEF f
  <2>6. disk' = [disk EXCEPT ![p] = f]  BY <2>1 DEF f
  <2>7. \A q \in Paths : disk[q].stat \in Nat /\ disk[q].stat <= writes'  BY <1>1, <2>2, <2>3 DEF File
  <2> QED  BY <1>1, <2>2, <2>3, <2>4, <2>5, <2>6, <2>7
<1>4. CASE Move
  <2>1. disk' \in [Paths -> [c : FileContent, stat : {0}, young : {FALSE}]] /\ exists' \in BOOLEAN /\ writes' = writes
    BY <1>4 DEF Move, Found
  <2>2. [c : FileContent, stat : {0}, young : {FALSE}] \subseteq File
    <3>1. 0 \in 0..MaxWrites  BY MirrorNames
    <3> QED  BY <3>1 DEF File
  <2>3. disk' \in [Paths -> File]  BY <2>1, <2>2
  <2>4. \A p \in Paths : disk'[p].stat = 0  BY <2>1
  <2>5. writes \in Nat /\ writes' \in 0..MaxWrites  BY <1>1, <2>1, MirrorNames
  <2>6. \A p \in Paths : disk'[p].stat <= writes'  BY <2>1, <2>4, <2>5
  <2> QED  BY <2>1, <2>3, <2>5, <2>6
<1>5. CASE MakeFolder  BY <1>1, <1>5 DEF MakeFolder
<1>6. CASE UNCHANGED <<disk, exists, writes>>  BY <1>1, <1>6
<1> QED
  BY <1>2, <1>3, <1>4, <1>5, <1>6, Zenon DEF MirrorNext, mirrorVars, folder, daemon, Reconcile, EventArrives,
     TimerFires, FlushNow, FlushNowAgain, FlushStep, Stat, Hash, Skip,
     FlushEnds, Post, PutBlob, Lost, GiveUp, ServeStep, Upsert,
     StoreInline, Tombstone, PostOrphan, DaemonRestart, ServerRestart

LEMMA BegunTyped == FolderTyped => Begun \in Flush /\ Begun.pc = "walk" /\ Begun.at = Nobody
                                  /\ Begun.m = Empty /\ Begun.cache = NoCache
                                  /\ Begun.todo = {p \in Paths : disk[p].c # Absent}
<1> DEFINE T == {p \in Paths : disk[p].c # Absent}
<1>1. T \subseteq Paths /\ Begun = [NoFlush EXCEPT !.pc = "walk", !.todo = T]  BY DEF Begun
<1> HIDE DEF T
<1>2. Begun \in Flush  BY <1>1, NothingTyped DEF Flush
<1>3. /\ Begun.pc = "walk" /\ Begun.at = Nobody /\ Begun.m = Empty
      /\ Begun.cache = NoCache /\ Begun.todo = T
  BY <1>1 DEF NoFlush
<1> QED  BY <1>2, <1>3 DEF T

LEMMA OverTyped ==
  ASSUME NEW w \in Watcher, NEW retry \in BOOLEAN, forced \in Forced, Over(w, retry)
  PROVE  /\ watcher' \in Watcher /\ flush' \in Flush /\ forced' \in Forced
         /\ flush' = NoFlush /\ watcher'.acked = w.acked /\ watcher'.unsure = w.unsure /\ watcher'.cache = w.cache
         /\ forced' = IF forced.pc = "own" THEN NoForce ELSE forced
<1> DEFINE t == w.timer \/ w.dirty \/ retry
<1>1. watcher' = [w EXCEPT !.dirty = FALSE, !.timer = t] /\ t \in BOOLEAN  BY DEF Over, Watcher
<1> HIDE DEF t
<1>2. watcher' \in Watcher  BY <1>1 DEF Watcher
<1>3. watcher'.acked = w.acked /\ watcher'.unsure = w.unsure /\ watcher'.cache = w.cache  BY <1>1 DEF Watcher
<1>4. flush' = NoFlush /\ forced' = IF forced.pc = "own" THEN NoForce ELSE forced  BY DEF Over
<1> QED  BY <1>2, <1>3, <1>4, NothingTyped

(* What each action of the daemon does to its variables. *)
LEMMA WriteDoes ==
  ASSUME MirrorTyped, NEW p \in Paths, NEW c \in FileContent, Write(p, c)
  PROVE  /\ forced' \in Forced /\ forced'.pc = forced.pc
         /\ forced.pc # "idle" => \A q \in Paths : forced'.since[q] = IF q = p THEN forced.since[q] \cup {c} ELSE forced.since[q]
         /\ event' \in BOOLEAN
<1>1. watcher \in Watcher /\ forced \in Forced  BY DEF MirrorTyped, MirrorTypeOK
<1>2. event' \in BOOLEAN  BY <1>1 DEF Write, Watcher
<1>3. CASE forced.pc = "idle"  BY <1>1, <1>2, <1>3 DEF Write
<1>4. CASE forced.pc # "idle"
  <2> DEFINE s == [forced.since EXCEPT ![p] = forced.since[p] \cup {c}]
  <2>1. forced' = [forced EXCEPT !.since = s]  BY <1>1, <1>4 DEF Write, Forced
  <2>2. forced.since \in [Paths -> SUBSET FileContent]  BY <1>1 DEF Forced
  <2>3. s \in [Paths -> SUBSET FileContent]
        /\ \A q \in Paths : s[q] = IF q = p THEN forced.since[q] \cup {c} ELSE forced.since[q]
    BY <2>2
  <2> HIDE DEF s
  <2>4. forced' \in Forced /\ forced'.pc = forced.pc /\ forced'.since = s  BY <1>1, <2>1, <2>3 DEF Forced
  <2> QED  BY <1>2, <2>3, <2>4
<1> QED  BY <1>3, <1>4

LEMMA StatDoes ==
  ASSUME MirrorTyped, NEW p \in Paths, Stat(p)
  PROVE  /\ flush' \in Flush /\ flush.pc = "walk" /\ flush'.pc = "walk" /\ flush'.todo = flush.todo \ {p}
         /\ flush.at = Nobody /\ p \in flush.todo
         /\ \/ disk[p].c = Absent /\ flush'.at = Nobody /\ flush'.m = flush.m /\ flush'.cache = flush.cache
            \/ /\ Trustworthy(watcher.cache[p], disk[p]) /\ flush'.at = Nobody
               /\ flush'.m = [flush.m EXCEPT ![p] = watcher.cache[p].c]
               /\ flush'.cache = [flush.cache EXCEPT ![p] = watcher.cache[p]]
            \/ /\ flush'.at = p /\ flush'.m = flush.m
               /\ flush'.cache = [flush.cache EXCEPT ![p] = [c |-> Absent, stat |-> disk[p].stat, safe |-> ~disk[p].young]]
<1> DEFINE f == disk[p]  e == watcher.cache[p]  T == flush.todo \ {p}
           M == [flush.m EXCEPT ![p] = e.c]  C == [flush.cache EXCEPT ![p] = e]
           n == [c |-> Absent, stat |-> f.stat, safe |-> ~f.young]  D == [flush.cache EXCEPT ![p] = n]
<1>1. flush \in Flush /\ watcher \in Watcher /\ disk \in [Paths -> File]
  BY DEF MirrorTyped, MirrorTypeOK
<1>2. f \in File /\ e \in Entry /\ e.c \in FileContent /\ n \in Entry
  <2>1. f \in File  BY <1>1
  <2>2. e \in Entry  BY <1>1 DEF Watcher, Cache
  <2>3. e.c \in FileContent  BY <2>2 DEF Entry
  <2>4. n \in Entry  BY <2>1 DEF Entry, File, FileContent
  <2> QED  BY <2>1, <2>2, <2>3, <2>4
<1>3. flush.m \in Manifest /\ flush.cache \in Cache /\ T \subseteq Paths  BY <1>1 DEF Flush
<1>4. M \in Manifest /\ C \in Cache /\ D \in Cache
  <2> HIDE DEF e, n
  <2> QED  BY <1>2, <1>3 DEF Manifest, Cache
<1>5. flush.pc = "walk" /\ flush.at = Nobody /\ p \in flush.todo  BY DEF Stat
<1>6. CASE f.c = Absent
  <2>1. flush' = [flush EXCEPT !.todo = T]  BY <1>6 DEF Stat
  <2> HIDE DEF T
  <2> QED  BY <1>1, <1>3, <1>5, <1>6, <2>1 DEF Flush, T
<1>7. CASE f.c # Absent /\ Trustworthy(e, f)
  <2>1. flush' = [flush EXCEPT !.todo = T, !.m = M, !.cache = C]  BY <1>1, <1>7 DEF Stat, Flush
  <2> HIDE DEF T, M, C
  <2>2. flush' \in Flush  BY <1>1, <1>3, <1>4, <2>1 DEF Flush
  <2>3. flush'.pc = flush.pc /\ flush'.at = flush.at /\ flush'.todo = T /\ flush'.m = M /\ flush'.cache = C
    BY <1>1, <2>1 DEF Flush
  <2> QED  BY <1>5, <1>7, <2>2, <2>3 DEF T, M, C
<1>8. CASE f.c # Absent /\ ~Trustworthy(e, f)
  <2>1. flush' = [flush EXCEPT !.todo = T, !.at = p, !.cache = D]  BY <1>1, <1>8 DEF Stat, Flush
  <2> HIDE DEF T, D
  <2>2. flush' \in Flush  BY <1>1, <1>3, <1>4, <2>1 DEF Flush
  <2>3. flush'.pc = flush.pc /\ flush'.at = p /\ flush'.todo = T /\ flush'.m = flush.m /\ flush'.cache = D
    BY <1>1, <2>1 DEF Flush
  <2> QED  BY <1>5, <2>2, <2>3 DEF T, D
<1> QED  BY <1>6, <1>7, <1>8

LEMMA HashDoes ==
  ASSUME MirrorTyped, NEW p \in Paths, Hash(p)
  PROVE  /\ flush' \in Flush /\ flush'.pc = flush.pc /\ flush'.todo = flush.todo /\ flush.at = p /\ flush'.at = Nobody
         /\ flush'.m = [flush.m EXCEPT ![p] = disk[p].c]
         /\ \E e \in Entry :
              /\ flush'.cache = [flush.cache EXCEPT ![p] = e]
              /\ \/ ~e.safe
                 \/ e.c = disk[p].c /\ e.stat = flush.cache[p].stat /\ e.safe = flush.cache[p].safe
<1> DEFINE c == disk[p].c  M == [flush.m EXCEPT ![p] = c]
           e == IF c = Absent THEN NoEntry ELSE [flush.cache[p] EXCEPT !.c = c]
           C == [flush.cache EXCEPT ![p] = e]
<1>1. flush \in Flush /\ disk \in [Paths -> File]  BY DEF MirrorTyped, MirrorTypeOK
<1>2. c \in FileContent /\ flush.m \in Manifest /\ flush.cache \in Cache /\ flush.cache[p] \in Entry
  BY <1>1 DEF File, Flush, Cache
<1> HIDE DEF c
<1>3. e \in Entry  BY <1>2, NothingTyped DEF Entry
<1>4. \/ ~e.safe
      \/ e.c = c /\ e.stat = flush.cache[p].stat /\ e.safe = flush.cache[p].safe
  BY <1>2 DEF NoEntry, Entry
<1>5. flush' = [flush EXCEPT !.at = Nobody, !.m = M, !.cache = C] /\ flush.at = p
  BY <1>1 DEF Hash, Flush, c
<1> HIDE DEF e
<1>6. M \in Manifest /\ C \in Cache  BY <1>2, <1>3 DEF Manifest, Cache
<1>7. flush' \in Flush /\ flush'.pc = flush.pc /\ flush'.todo = flush.todo /\ flush'.at = Nobody /\ flush'.m = M /\ flush'.cache = C
  <2> HIDE DEF M, C
  <2> QED  BY <1>1, <1>5, <1>6 DEF Flush
<1> QED  BY <1>3, <1>4, <1>5, <1>7 DEF c

SameMemory(v, w) == v.cache = w.cache /\ v.acked = w.acked /\ v.unsure = w.unsure

LEMMA EventDoes ==
  ASSUME MirrorTyped, EventArrives
  PROVE  /\ watcher' \in Watcher /\ SameMemory(watcher', watcher) /\ watcher'.open = watcher.open
         /\ event /\ ~event'
<1>1. watcher \in Watcher  BY DEF MirrorTyped, MirrorTypeOK
<1>2. watcher' = [watcher EXCEPT !.timer = TRUE] /\ event /\ event' = FALSE  BY DEF EventArrives
<1> QED  BY <1>1, <1>2 DEF Watcher, SameMemory

LEMMA SinceTyped == FolderTyped => Since \in [Paths -> SUBSET FileContent] /\ \A p \in Paths : Since[p] = {disk[p].c}
BY DEF FolderTyped, Since, File

LEMMA TimerDoes ==
  ASSUME MirrorTyped, TimerFires
  PROVE  /\ watcher' \in Watcher /\ SameMemory(watcher', watcher) /\ watcher'.open = watcher.open
         /\ watcher.timer /\ ~watcher'.timer
         /\ \/ Busy /\ flush' = flush
            \/ ~Busy /\ forced.pc # "await" /\ flush' = Begun
<1>1. watcher \in Watcher  BY DEF MirrorTyped, MirrorTypeOK
<1> DEFINE b == Busy
<1>2. b \in BOOLEAN  BY DEF Busy
<1>3. watcher' = [watcher EXCEPT !.timer = FALSE, !.dirty = b] /\ watcher.timer  BY DEF TimerFires
<1>4. flush' = (IF b THEN flush ELSE Begun) /\ ~(forced.pc = "await" /\ ~b)  BY DEF TimerFires
<1> HIDE DEF b
<1>5. watcher' \in Watcher /\ SameMemory(watcher', watcher) /\ watcher'.open = watcher.open /\ ~watcher'.timer
  BY <1>1, <1>2, <1>3 DEF Watcher, SameMemory
<1> QED  BY <1>3, <1>4, <1>5 DEF b

LEMMA ForceDoes ==
  ASSUME MirrorTyped, FlushNow
  PROVE  /\ watcher' \in Watcher /\ SameMemory(watcher', watcher) /\ watcher'.open /\ watcher.open
         /\ forced.pc = "idle" /\ forced' \in Forced /\ forced'.since = Since
         /\ \/ Busy /\ forced'.pc = "await" /\ flush' = flush
            \/ ~Busy /\ forced'.pc = "own" /\ flush' = Begun
<1>1. watcher \in Watcher  BY DEF MirrorTyped, MirrorTypeOK
<1>2. Since \in [Paths -> SUBSET FileContent]  BY SinceTyped, MirrorParts
<1>3. watcher' = [watcher EXCEPT !.timer = FALSE] /\ watcher.open  BY DEF FlushNow
<1>4. watcher' \in Watcher /\ SameMemory(watcher', watcher) /\ watcher'.open
  BY <1>1, <1>3 DEF Watcher, SameMemory
<1>5. CASE Busy
  <2>1. forced.pc = "idle" /\ forced' = [pc |-> "await", since |-> Since] /\ flush' = flush  BY <1>5 DEF FlushNow
  <2>2. forced' \in Forced /\ forced'.since = Since /\ forced'.pc = "await"  BY <1>2, <2>1 DEF Forced
  <2> QED  BY <1>3, <1>4, <1>5, <2>1, <2>2
<1>6. CASE ~Busy
  <2>1. forced.pc = "idle" /\ forced' = [pc |-> "own", since |-> Since] /\ flush' = Begun  BY <1>6 DEF FlushNow
  <2>2. forced' \in Forced /\ forced'.since = Since /\ forced'.pc = "own"  BY <1>2, <2>1 DEF Forced
  <2> QED  BY <1>3, <1>4, <1>6, <2>1, <2>2
<1> QED  BY <1>5, <1>6

LEMMA ForceAgainDoes ==
  ASSUME MirrorTyped, FlushNowAgain
  PROVE  /\ watcher' \in Watcher /\ SameMemory(watcher', watcher)
         /\ forced.pc = "await" /\ forced' \in Forced /\ forced'.pc = "own" /\ forced'.since = forced.since
         /\ ~Busy /\ flush' = Begun
<1>1. watcher \in Watcher /\ forced \in Forced  BY DEF MirrorTyped, MirrorTypeOK
<1>2. /\ watcher' = [watcher EXCEPT !.timer = FALSE] /\ forced' = [forced EXCEPT !.pc = "own"]
      /\ forced.pc = "await" /\ ~Busy /\ flush' = Begun
  BY DEF FlushNowAgain
<1>3. watcher' \in Watcher /\ SameMemory(watcher', watcher)  BY <1>1, <1>2 DEF Watcher, SameMemory
<1>4. forced' \in Forced /\ forced'.pc = "own" /\ forced'.since = forced.since  BY <1>1, <1>2 DEF Forced
<1> QED  BY <1>2, <1>3, <1>4

(* A watcher that is new, or none. *)
LEMMA NewDoes ==
  ASSUME NEW b \in BOOLEAN
  PROVE  LET w == [Closed EXCEPT !.open = b]
         IN /\ w \in Watcher /\ w.cache = NoCache /\ w.acked = Nobody /\ w.unsure = FALSE
            /\ w.timer = FALSE /\ w.open = b
<1>1. [Closed EXCEPT !.open = b] \in Watcher  BY NothingTyped DEF Watcher
<1> QED  BY <1>1 DEF Closed

(* The manifest of a watcher that is closed in the middle of its walk. *)
LEMMA MoveTyped ==
  ASSUME MirrorTyped, Move
  PROVE  /\ orphans' \subseteq Manifest /\ exists' \in BOOLEAN
         /\ watcher' = [Closed EXCEPT !.open = exists']
         /\ flush' = NoFlush /\ forced' = NoForce /\ event' \in BOOLEAN /\ faults' \in 0..MaxFaults
<1> DEFINE M == [p \in Paths |-> IF p \in flush.todo \cup {flush.at} THEN disk[p].c ELSE flush.m[p]]
<1>1. flush \in Flush /\ disk \in [Paths -> File]  BY DEF MirrorTyped, MirrorTypeOK
<1>2. flush.m \in [Paths -> FileContent] /\ \A p \in Paths : disk[p].c \in FileContent
  BY <1>1 DEF Flush, Manifest, File
<1>3. M \in Manifest  BY <1>2 DEF Manifest
<1>4. orphans' = IF flush.pc = "walk" THEN {M} ELSE {}  BY DEF Move
<1>5. faults' = faults + 1 /\ faults < MaxFaults /\ faults \in 0..MaxFaults
  BY DEF Move, Fault, MirrorTyped, MirrorTypeOK
<1>6. faults' \in 0..MaxFaults  BY <1>5, MirrorNames
<1>7. /\ exists' \in BOOLEAN /\ watcher' = [Closed EXCEPT !.open = exists']
      /\ flush' = NoFlush /\ forced' = NoForce /\ event' = exists'
  BY DEF Move
<1> HIDE DEF M
<1> QED  BY <1>3, <1>4, <1>6, <1>7

LEMMA FaultTyped == MirrorTyped /\ Fault => faults' \in 0..MaxFaults /\ faults' # faults
<1> SUFFICES ASSUME MirrorTyped, Fault PROVE faults' \in 0..MaxFaults /\ faults' # faults  OBVIOUS
<1>1. faults' = faults + 1 /\ faults < MaxFaults /\ faults \in 0..MaxFaults
  BY DEF Fault, MirrorTyped, MirrorTypeOK
<1> QED  BY <1>1, MirrorNames

LEMMA WalkMemory ==
  ASSUME MirrorTyped
  PROVE  LET w == [watcher EXCEPT !.cache = flush.cache]
         IN w \in Watcher /\ w.cache = flush.cache /\ w.acked = watcher.acked /\ w.unsure = watcher.unsure
<1>1. watcher \in Watcher /\ flush.cache \in Cache
  BY DEF MirrorTyped, MirrorTypeOK, Flush
<1> QED  BY <1>1 DEF Watcher

Ended == /\ watcher' \in Watcher /\ flush' \in Flush /\ forced' \in Forced
         /\ flush' = NoFlush /\ forced' = IF forced.pc = "own" THEN NoForce ELSE forced

LEMMA SkipDoes ==
  ASSUME MirrorTyped, Skip
  PROVE  /\ Ended /\ Walked /\ flush.m = watcher.acked
         /\ watcher'.cache = flush.cache /\ watcher'.acked = watcher.acked /\ watcher'.unsure = watcher.unsure
         /\ disturbed' = (disturbed \/ watcher.unsure) /\ disturbed' \in BOOLEAN
<1> DEFINE w == [watcher EXCEPT !.cache = flush.cache]
<1>1. w \in Watcher /\ w.cache = flush.cache /\ w.acked = watcher.acked /\ w.unsure = watcher.unsure
  BY WalkMemory
<1>2. Walked /\ flush.m = watcher.acked /\ Over(w, FALSE) /\ disturbed' = (disturbed \/ watcher.unsure)
  BY DEF Skip
<1> HIDE DEF w
<1>3. forced \in Forced  BY DEF MirrorTyped, MirrorTypeOK
<1> QED  BY <1>1, <1>2, <1>3, OverTyped DEF Ended

LEMMA LostDoes ==
  ASSUME MirrorTyped, Lost
  PROVE  /\ Ended /\ Walked
         /\ watcher'.cache = flush.cache /\ watcher'.acked = watcher.acked /\ watcher'.unsure = watcher.unsure
<1> DEFINE w == [watcher EXCEPT !.cache = flush.cache]
<1>1. w \in Watcher /\ w.cache = flush.cache /\ w.acked = watcher.acked /\ w.unsure = watcher.unsure
  BY WalkMemory
<1>2. Walked /\ Over(w, TRUE)  BY DEF Lost
<1> HIDE DEF w
<1>3. forced \in Forced  BY DEF MirrorTyped, MirrorTypeOK
<1> QED  BY <1>1, <1>2, <1>3, OverTyped DEF Ended

LEMMA GiveUpDoes ==
  ASSUME MirrorTyped, GiveUp \/ ServerRestart
  PROVE  Ended /\ flush.pc = "wait" /\ SameMemory(watcher', watcher)
<1>1. flush.pc = "wait" /\ Over(watcher, TRUE)  BY DEF GiveUp, ServerRestart
<1>2. watcher \in Watcher /\ forced \in Forced  BY DEF MirrorTyped, MirrorTypeOK
<1> QED  BY <1>1, <1>2, OverTyped DEF Ended, SameMemory

LEMMA HeldTyped == \A m \in Manifest : Held(m) \subseteq Contents /\ OnDisk(m) \subseteq Contents
BY DEF Manifest, Held, OnDisk, FileContent

LEMMA FlushEndsDoes ==
  ASSUME MirrorTyped, FlushEnds
  PROVE  /\ Ended /\ flush.pc = "put" /\ flush.need = {} /\ watcher'.cache = watcher.cache
         /\ \/ flush.failed # {} /\ watcher'.acked = watcher.acked /\ watcher'.unsure = watcher.unsure
            \/ flush.failed = {} /\ watcher'.acked = flush.m /\ watcher'.unsure = FALSE
<1> DEFINE S == Held(flush.m) \ flush.failed
           w == [watcher EXCEPT !.synced = S]
           v == [watcher EXCEPT !.synced = S, !.acked = flush.m, !.unsure = FALSE]
<1>1. watcher \in Watcher /\ forced \in Forced /\ flush.m \in Manifest
  BY DEF MirrorTyped, MirrorTypeOK, Flush
<1>2. S \subseteq Contents  BY <1>1, HeldTyped
<1>3. flush.pc = "put" /\ flush.need = {}  BY DEF FlushEnds
<1>4. CASE flush.failed # {}
  <2>1. Over(w, TRUE)  BY <1>4 DEF FlushEnds
  <2>2. w \in Watcher /\ SameMemory(w, watcher)
    <3> HIDE DEF S
    <3> QED  BY <1>1, <1>2 DEF Watcher, SameMemory
  <2> HIDE DEF w
  <2> QED  BY <1>1, <1>3, <1>4, <2>1, <2>2, OverTyped DEF Ended, SameMemory
<1>5. CASE flush.failed = {}
  <2>1. Over(v, FALSE)
    <3>1. Over([w EXCEPT !.acked = flush.m, !.unsure = FALSE], FALSE)  BY <1>5 DEF FlushEnds
    <3>2. [w EXCEPT !.acked = flush.m, !.unsure = FALSE] = v  OBVIOUS
    <3> QED  BY <3>1, <3>2
  <2>2. v \in Watcher /\ v.cache = watcher.cache /\ v.acked = flush.m /\ v.unsure = FALSE
    <3> HIDE DEF S
    <3> QED  BY <1>1, <1>2 DEF Watcher
  <2> HIDE DEF v
  <2> QED  BY <1>1, <1>3, <1>5, <2>1, <2>2, OverTyped DEF Ended
<1> QED  BY <1>4, <1>5

LEMMA PutDoes ==
  ASSUME MirrorTyped, NEW c \in Contents, PutBlob(c)
  PROVE  /\ flush.pc = "put" /\ flush' \in Flush /\ stored' \subseteq Contents /\ faults' \in 0..MaxFaults
         /\ flush'.pc = "put" /\ flush'.todo = flush.todo /\ flush'.at = flush.at /\ flush'.m = flush.m
         /\ flush'.cache = flush.cache /\ flush'.slot = flush.slot /\ stored \subseteq stored'
         /\ stored \cup flush.need \cup flush.failed \subseteq stored' \cup flush'.need \cup flush'.failed
<1>1. flush \in Flush /\ stored \subseteq Contents /\ faults \in 0..MaxFaults  BY DEF MirrorTyped, MirrorTypeOK
<1>2. flush.pc = "put" /\ c \in flush.need  BY DEF PutBlob
<1> DEFINE N == flush.need \ {c}  F == flush.failed \cup {c}
<1>3. N \subseteq Contents /\ F \subseteq Contents  BY <1>1 DEF Flush
<1>4. faults' \in 0..MaxFaults  BY <1>1, FaultTyped DEF PutBlob
<1>5. CASE stored' = stored \cup {c} /\ flush' = [flush EXCEPT !.need = N]
  <2> HIDE DEF N
  <2>1. flush' \in Flush  BY <1>1, <1>3, <1>5 DEF Flush
  <2>2. /\ flush'.pc = flush.pc /\ flush'.todo = flush.todo /\ flush'.at = flush.at /\ flush'.m = flush.m
        /\ flush'.cache = flush.cache /\ flush'.slot = flush.slot /\ flush'.need = N /\ flush'.failed = flush.failed
    BY <1>1, <1>5 DEF Flush
  <2> QED  BY <1>1, <1>2, <1>4, <1>5, <2>1, <2>2 DEF N
<1>6. CASE stored' = stored /\ flush' = [flush EXCEPT !.need = N, !.failed = F]
  <2> HIDE DEF N, F
  <2>1. flush' \in Flush  BY <1>1, <1>3, <1>6 DEF Flush
  <2>2. /\ flush'.pc = flush.pc /\ flush'.todo = flush.todo /\ flush'.at = flush.at /\ flush'.m = flush.m
        /\ flush'.cache = flush.cache /\ flush'.slot = flush.slot /\ flush'.need = N /\ flush'.failed = F
    BY <1>1, <1>6 DEF Flush
  <2> QED  BY <1>1, <1>2, <1>4, <1>6, <2>1, <2>2 DEF N, F
<1> QED  BY <1>5, <1>6 DEF PutBlob

AtWork(t) == handler[t].pc # "idle"

LEMMA ArrivesDoes ==
  ASSUME MirrorTyped, NEW s \in Slots, NEW m \in Manifest, NEW inline \in SUBSET Contents,
         Arrives(s, m, inline)
  PROVE  /\ handler' \in [Slots -> Handler]
         /\ handler'[s].pc = "upsert" /\ handler'[s].todo = {p \in Paths : m[p] # Absent} /\ handler'[s].m = m
         /\ \A t \in Slots \ {s} : /\ handler'[t].pc = handler[t].pc /\ handler'[t].late = AtWork(t)
                                   /\ handler'[t].todo = handler[t].todo /\ handler'[t].m = handler[t].m
<1> DEFINE T == {p \in Paths : m[p] # Absent}
           h == [NoHandler EXCEPT !.pc = "upsert", !.todo = T, !.m = m, !.inline = inline]
           l(t) == handler[t].pc # "idle"
           k(t) == [handler[t] EXCEPT !.late = l(t)]
<1>1. handler \in [Slots -> Handler]  BY DEF MirrorTyped, MirrorTypeOK
<1>2. handler' = [t \in Slots |-> IF t = s THEN h ELSE k(t)]  BY DEF Arrives
<1>3. h \in Handler /\ h.pc = "upsert" /\ h.todo = T /\ h.m = m
  <2>1. T \subseteq Paths  OBVIOUS
  <2> HIDE DEF T
  <2> QED  BY <2>1, NothingTyped DEF Handler
<1>4. ASSUME NEW t \in Slots
      PROVE  k(t) \in Handler /\ k(t).pc = handler[t].pc /\ k(t).late = l(t)
             /\ k(t).todo = handler[t].todo /\ k(t).m = handler[t].m
  <2>1. handler[t] \in Handler /\ l(t) \in BOOLEAN  BY <1>1
  <2> HIDE DEF l
  <2> QED  BY <2>1 DEF Handler
<1> HIDE DEF h, k, T
<1>5. handler'[s] = h /\ \A t \in Slots \ {s} : handler'[t] = k(t)  BY <1>2
<1>6. handler' \in [Slots -> Handler]  BY <1>2, <1>3, <1>4
<1> QED  BY <1>3, <1>4, <1>5, <1>6 DEF T, AtWork

LEMMA PostDoes ==
  ASSUME MirrorTyped, NEW s \in Slots, Post(s)
  PROVE  /\ watcher' \in Watcher /\ flush' \in Flush /\ disturbed' \in BOOLEAN
         /\ Walked /\ watcher'.cache = flush.cache /\ watcher'.unsure
         /\ flush'.pc = "wait" /\ flush'.slot = s /\ flush'.todo = flush.todo /\ flush'.at = flush.at /\ flush'.m = flush.m
         /\ flush'.cache = flush.cache
         /\ ~AtWork(s) /\ handler' \in [Slots -> Handler]
         /\ handler'[s].pc = "upsert" /\ handler'[s].todo = {p \in Paths : flush.m[p] # Absent} /\ handler'[s].m = flush.m
         /\ \A t \in Slots \ {s} : /\ handler'[t].pc = handler[t].pc /\ handler'[t].late = AtWork(t)
                                   /\ handler'[t].todo = handler[t].todo /\ handler'[t].m = handler[t].m
         /\ ~disturbed' => orphans = {}
<1>1. flush \in Flush /\ watcher \in Watcher /\ flush.m \in Manifest /\ flush.cache \in Cache
  BY DEF MirrorTyped, MirrorTypeOK, Flush
<1>2. Inline \in SUBSET Contents  BY <1>1, HeldTyped DEF Inline
<1>3. Arrives(s, flush.m, Inline) /\ handler[s].pc = "idle" /\ Walked  BY DEF Post
<1>4. flush' = [flush EXCEPT !.pc = "wait", !.slot = s]  BY DEF Post
<1>5. /\ flush' \in Flush /\ flush'.pc = "wait" /\ flush'.slot = s /\ flush'.todo = flush.todo
      /\ flush'.at = flush.at /\ flush'.m = flush.m /\ flush'.cache = flush.cache
  BY <1>1, <1>4 DEF Flush
<1>6. watcher' = [watcher EXCEPT !.cache = flush.cache, !.unsure = TRUE]  BY DEF Post
<1>7. watcher' \in Watcher /\ watcher'.cache = flush.cache /\ watcher'.unsure = TRUE
  BY <1>1, <1>6 DEF Watcher
<1>8. disturbed' \in BOOLEAN /\ (~disturbed' => orphans = {})
  <2>1. disturbed' = (orphans # {} \/ (disturbed /\ \E t \in Slots : handler[t].pc # "idle"))  BY DEF Post
  <2> QED  BY <2>1, Zenon
<1>9. /\ handler' \in [Slots -> Handler]
      /\ handler'[s].pc = "upsert" /\ handler'[s].todo = {p \in Paths : flush.m[p] # Absent} /\ handler'[s].m = flush.m
      /\ \A t \in Slots \ {s} : /\ handler'[t].pc = handler[t].pc /\ handler'[t].late = AtWork(t)
                                /\ handler'[t].todo = handler[t].todo /\ handler'[t].m = handler[t].m
  BY <1>1, <1>2, <1>3, ArrivesDoes
<1> QED  BY <1>3, <1>5, <1>7, <1>8, <1>9 DEF AtWork

LEMMA UpsertDoes ==
  ASSUME MirrorTyped, NEW s \in Slots, NEW p \in Paths, Upsert(s, p), handler[s].m[p] # Absent
  PROVE  /\ handler' \in [Slots -> Handler] /\ rows' \in Manifest /\ disturbed' \in BOOLEAN
         /\ handler[s].pc = "upsert" /\ p \in handler[s].todo /\ rows' = [rows EXCEPT ![p] = handler[s].m[p]]
         /\ disturbed' = (disturbed \/ handler[s].late)
         /\ \A t \in Slots \ {s} : handler'[t] = handler[t]
         /\ handler'[s].pc = "upsert" /\ handler'[s].late = handler[s].late /\ handler'[s].m = handler[s].m
         /\ handler'[s].todo = handler[s].todo \ {p} /\ handler'[s].inline = handler[s].inline
         /\ handler'[s].need = handler[s].need \cup ({handler[s].m[p]} \ (stored \cup handler[s].inline))
<1> DEFINE h == handler[s]  c == h.m[p]  T == h.todo \ {p}  N == h.need \cup ({c} \ (stored \cup h.inline))
           k == [h EXCEPT !.todo = T, !.need = N]
<1>1. handler \in [Slots -> Handler] /\ rows \in Manifest /\ disturbed \in BOOLEAN
  BY DEF MirrorTyped, MirrorTypeOK
<1>2. h \in Handler  BY <1>1
<1>3. c \in Contents  BY <1>2 DEF Handler, Manifest, FileContent
<1>4. h.pc = "upsert" /\ p \in h.todo /\ rows' = [rows EXCEPT ![p] = c]  BY DEF Upsert
<1>5. handler' = [handler EXCEPT ![s] = k]  BY <1>1 DEF Upsert
<1>6. disturbed' = (disturbed \/ h.late) /\ disturbed' \in BOOLEAN  BY DEF Upsert, Overtaken
<1>7. T \subseteq Paths /\ N \subseteq Contents  BY <1>2, <1>3 DEF Handler
<1>8. /\ k \in Handler /\ k.pc = h.pc /\ k.late = h.late /\ k.m = h.m /\ k.todo = T
      /\ k.inline = h.inline /\ k.need = N
  <2> HIDE DEF h, T, N
  <2> QED  BY <1>2, <1>7 DEF Handler
<1>9. rows' \in Manifest
  <2> HIDE DEF c
  <2> QED  BY <1>1, <1>3, <1>4 DEF Manifest, FileContent
<1> HIDE DEF k
<1>10. handler' \in [Slots -> Handler] /\ handler'[s] = k /\ \A t \in Slots \ {s} : handler'[t] = handler[t]
  BY <1>1, <1>5, <1>8
<1> QED  BY <1>4, <1>6, <1>8, <1>9, <1>10

LEMMA StoreInlineDoes ==
  ASSUME MirrorTyped, NEW s \in Slots, StoreInline(s)
  PROVE  /\ handler' \in [Slots -> Handler] /\ stored' \subseteq Contents
         /\ handler[s].pc = "upsert" /\ handler[s].todo = {} /\ stored' = stored \cup handler[s].inline
         /\ \A t \in Slots \ {s} : handler'[t] = handler[t]
         /\ handler'[s].pc = "tombstone" /\ handler'[s].late = handler[s].late /\ handler'[s].m = handler[s].m
         /\ handler'[s].todo = {} /\ handler'[s].inline = handler[s].inline /\ handler'[s].need = handler[s].need
<1> DEFINE h == handler[s]  k == [h EXCEPT !.pc = "tombstone"]
<1>1. handler \in [Slots -> Handler] /\ stored \subseteq Contents  BY DEF MirrorTyped, MirrorTypeOK
<1>2. h \in Handler  BY <1>1
<1>3. h.pc = "upsert" /\ h.todo = {} /\ stored' = stored \cup h.inline  BY DEF StoreInline
<1>4. handler' = [handler EXCEPT ![s] = k]  BY <1>1 DEF StoreInline
<1>5. stored' \subseteq Contents  BY <1>1, <1>2, <1>3 DEF Handler
<1>6. /\ k \in Handler /\ k.pc = "tombstone" /\ k.late = h.late /\ k.m = h.m /\ k.todo = h.todo
      /\ k.inline = h.inline /\ k.need = h.need
  <2> HIDE DEF h
  <2> QED  BY <1>2 DEF Handler
<1> HIDE DEF k
<1>7. handler' \in [Slots -> Handler] /\ handler'[s] = k /\ \A t \in Slots \ {s} : handler'[t] = handler[t]
  BY <1>1, <1>4, <1>6
<1> QED  BY <1>3, <1>5, <1>6, <1>7

LEMMA TombstoneDoes ==
  ASSUME MirrorTyped, NEW s \in Slots, Tombstone(s)
  PROVE  /\ handler' \in [Slots -> Handler] /\ rows' \in Manifest /\ disturbed' \in BOOLEAN
         /\ watcher' \in Watcher /\ flush' \in Flush
         /\ handler[s].pc = "tombstone" /\ disturbed' = (disturbed \/ handler[s].late)
         /\ \A p \in Paths : rows'[p] = IF handler[s].m[p] = Absent THEN Absent ELSE rows[p]
         /\ handler'[s] = NoHandler /\ \A t \in Slots \ {s} : handler'[t] = handler[t]
         /\ SameMemory(watcher', watcher) /\ watcher'.open = watcher.open /\ watcher'.timer = watcher.timer
         /\ flush'.todo = flush.todo /\ flush'.at = flush.at /\ flush'.m = flush.m /\ flush'.cache = flush.cache
         /\ \/ flush.pc = "wait" /\ flush.slot = s /\ flush'.pc = "put" /\ flush'.need = handler[s].need
            \/ ~(flush.pc = "wait" /\ flush.slot = s) /\ flush' = flush
<1> DEFINE h == handler[s]
<1>1. handler \in [Slots -> Handler] /\ rows \in Manifest /\ flush \in Flush /\ watcher \in Watcher
  BY DEF MirrorTyped, MirrorTypeOK
<1>2. h \in Handler  BY <1>1
<1>3. /\ h.pc = "tombstone" /\ rows' = [p \in Paths |-> IF h.m[p] = Absent THEN Absent ELSE rows[p]]
      /\ handler' = [handler EXCEPT ![s] = NoHandler] /\ disturbed' = (disturbed \/ h.late)
  BY DEF Tombstone, Overtaken
<1>4. handler' \in [Slots -> Handler] /\ handler'[s] = NoHandler /\ \A t \in Slots \ {s} : handler'[t] = handler[t]
  BY <1>1, <1>3, NothingTyped
<1>5. /\ rows' \in Manifest
      /\ \A p \in Paths : rows'[p] = IF h.m[p] = Absent THEN Absent ELSE rows[p]
  <2> HIDE DEF h
  <2> QED  BY <1>1, <1>3 DEF Manifest, FileContent
<1>6. CASE flush.pc = "wait" /\ flush.slot = s
  <2> DEFINE N == h.need
  <2>1. /\ flush' = [flush EXCEPT !.pc = "put", !.slot = Nobody, !.need = N]
        /\ watcher' = [watcher EXCEPT !.negotiated = TRUE]
    BY <1>6 DEF Tombstone
  <2>2. N \subseteq Contents  BY <1>2 DEF Handler
  <2> HIDE DEF N, h
  <2>3. /\ flush' \in Flush /\ flush'.pc = "put" /\ flush'.todo = flush.todo /\ flush'.at = flush.at
        /\ flush'.m = flush.m /\ flush'.cache = flush.cache /\ flush'.need = N
    BY <1>1, <2>1, <2>2 DEF Flush
  <2>4. /\ watcher' \in Watcher /\ SameMemory(watcher', watcher) /\ watcher'.open = watcher.open
        /\ watcher'.timer = watcher.timer
    BY <1>1, <2>1 DEF Watcher, SameMemory
  <2> QED  BY <1>3, <1>4, <1>5, <1>6, <2>3, <2>4 DEF N, h
<1>7. CASE ~(flush.pc = "wait" /\ flush.slot = s)
  <2>1. flush' = flush /\ watcher' = watcher  BY <1>7 DEF Tombstone
  <2> HIDE DEF h
  <2> QED  BY <1>1, <1>3, <1>4, <1>5, <1>7, <2>1 DEF SameMemory, h
<1> QED  BY <1>6, <1>7

(* What a request has still to write is there in its manifest. *)
TodoHolds == \A t \in Slots : \A p \in handler[t].todo : handler[t].m[p] # Absent

SameServer == UNCHANGED <<handler, rows, stored>>

LEMMA SameServerTyped == ASSUME ServerTyped, TodoHolds, SameServer PROVE ServerTyped' /\ TodoHolds'
BY DEF ServerTyped, TodoHolds, SameServer

LEMMA ArrivedTyped ==
  ASSUME MirrorTyped, TodoHolds, NEW s \in Slots, NEW m \in Manifest, UNCHANGED <<rows, stored>>,
         handler' \in [Slots -> Handler],
         handler'[s].todo = {p \in Paths : m[p] # Absent} /\ handler'[s].m = m,
         \A t \in Slots \ {s} : handler'[t].todo = handler[t].todo /\ handler'[t].m = handler[t].m
  PROVE  ServerTyped' /\ TodoHolds'
<1>1. ServerTyped'  BY DEF ServerTyped, MirrorTyped, MirrorTypeOK
<1>2. ASSUME NEW t \in Slots, NEW p \in handler'[t].todo PROVE handler'[t].m[p] # Absent
  <2>1. CASE t = s  BY <1>2, <2>1
  <2>2. CASE t # s  BY <1>2, <2>2 DEF TodoHolds
  <2> QED  BY <2>1, <2>2
<1> QED  BY <1>1, <1>2 DEF TodoHolds

LEMMA WorkedTyped ==
  ASSUME MirrorTyped, TodoHolds, NEW s \in Slots, handler' \in [Slots -> Handler],
         rows' \in Manifest, stored' \subseteq Contents,
         \/ handler'[s] = NoHandler
         \/ handler'[s].todo \subseteq handler[s].todo /\ handler'[s].m = handler[s].m,
         \A t \in Slots \ {s} : handler'[t] = handler[t]
  PROVE  ServerTyped' /\ TodoHolds'
<1>1. ServerTyped'  BY DEF ServerTyped
<1>2. ASSUME NEW t \in Slots, NEW p \in handler'[t].todo PROVE handler'[t].m[p] # Absent
  <2>1. CASE t = s  BY <1>2, <2>1 DEF TodoHolds, NoHandler
  <2>2. CASE t # s  BY <1>2, <2>2 DEF TodoHolds
  <2> QED  BY <2>1, <2>2
<1> QED  BY <1>1, <1>2 DEF TodoHolds

LEMMA MirrorTypedStep == ASSUME MirrorTyped, TodoHolds, [MirrorNext]_mirrorVars PROVE MirrorTyped' /\ TodoHolds'
<1>1. FolderTyped /\ DaemonTyped /\ ServerTyped  BY MirrorParts
<1>2. FolderTyped'  BY FolderStep
<1> SUFFICES DaemonTyped' /\ ServerTyped' /\ TodoHolds'  BY <1>2, MirrorParts DEF MirrorTyped, FolderTyped, DaemonTyped, ServerTyped, MirrorTypeOK
<1>3. Begun \in Flush  BY <1>1, BegunTyped
<1>4. ASSUME NEW p \in Paths, Ripen(p) PROVE DaemonTyped' /\ ServerTyped' /\ TodoHolds'
  BY <1>1, <1>4, SameServerTyped DEF Ripen, server, SameServer, DaemonTyped
<1>5. ASSUME NEW p \in Paths, NEW c \in FileContent, Write(p, c) PROVE DaemonTyped' /\ ServerTyped' /\ TodoHolds'
  BY <1>1, <1>5, WriteDoes, SameServerTyped DEF Write, server, SameServer, DaemonTyped
<1>6. CASE MakeFolder  BY <1>1, <1>6, SameServerTyped DEF MakeFolder, server, SameServer, DaemonTyped
<1>7. CASE Move
  <2>1. DaemonTyped'
    <3>1. UNCHANGED <<told, disturbed>>  BY <1>7 DEF Move
    <3>2. watcher' \in Watcher  BY <1>7, MoveTyped, NewDoes
    <3> QED  BY <1>1, <1>7, <3>1, <3>2, MoveTyped, NothingTyped DEF DaemonTyped
  <2>2. SameServer  BY <1>7 DEF Move, server, SameServer
  <2> QED  BY <1>1, <2>1, <2>2, SameServerTyped
<1>8. CASE Reconcile
  <2>1. watcher' = [Closed EXCEPT !.open = exists] /\ exists \in BOOLEAN  BY <1>1, <1>8 DEF Reconcile, FolderTyped
  <2>2. watcher' \in Watcher  BY <2>1, NewDoes
  <2>3. DaemonTyped'  BY <1>1, <1>8, <2>1, <2>2 DEF Reconcile, DaemonTyped
  <2>4. SameServer  BY <1>8 DEF Reconcile, server, SameServer
  <2> QED  BY <1>1, <2>3, <2>4, SameServerTyped
<1>9. CASE EventArrives
  BY <1>1, <1>9, EventDoes, SameServerTyped DEF EventArrives, server, SameServer, DaemonTyped
<1>10. CASE TimerFires
  BY <1>1, <1>3, <1>10, TimerDoes, SameServerTyped DEF TimerFires, server, SameServer, DaemonTyped
<1>11. CASE FlushNow
  BY <1>1, <1>3, <1>11, ForceDoes, SameServerTyped DEF FlushNow, server, SameServer, DaemonTyped
<1>12. CASE FlushNowAgain
  BY <1>1, <1>3, <1>12, ForceAgainDoes, SameServerTyped DEF FlushNowAgain, server, SameServer, DaemonTyped
<1>13. ASSUME NEW p \in Paths, Stat(p) PROVE DaemonTyped' /\ ServerTyped' /\ TodoHolds'
  BY <1>1, <1>13, StatDoes, SameServerTyped DEF Stat, server, SameServer, DaemonTyped
<1>14. ASSUME NEW p \in Paths, Hash(p) PROVE DaemonTyped' /\ ServerTyped' /\ TodoHolds'
  BY <1>1, <1>14, HashDoes, SameServerTyped DEF Hash, server, SameServer, DaemonTyped
<1>15. CASE Skip
  BY <1>1, <1>15, SkipDoes, SameServerTyped DEF Skip, server, SameServer, DaemonTyped, Ended
<1>16. CASE FlushEnds
  BY <1>1, <1>16, FlushEndsDoes, SameServerTyped DEF FlushEnds, server, SameServer, DaemonTyped, Ended
<1>17. ASSUME NEW s \in Slots, Post(s) PROVE DaemonTyped' /\ ServerTyped' /\ TodoHolds'
  <2>1. DaemonTyped'  BY <1>1, <1>17, PostDoes DEF Post, DaemonTyped
  <2>2. flush.m \in Manifest /\ UNCHANGED <<rows, stored>>  BY <1>1, <1>17 DEF DaemonTyped, Flush, Post
  <2> QED  BY <1>17, <2>1, <2>2, PostDoes, ArrivedTyped
<1>18. ASSUME NEW c \in Contents, PutBlob(c) PROVE DaemonTyped' /\ ServerTyped' /\ TodoHolds'
  <2>1. DaemonTyped'  BY <1>1, <1>18, PutDoes DEF PutBlob, DaemonTyped
  <2>2. UNCHANGED <<handler, rows>>  BY <1>18 DEF PutBlob
  <2> QED  BY <1>1, <1>18, <2>1, <2>2, PutDoes DEF ServerTyped, TodoHolds
<1>19. CASE Lost
  BY <1>1, <1>19, LostDoes, FaultTyped, SameServerTyped DEF Lost, server, SameServer, DaemonTyped, Ended
<1>20. CASE GiveUp
  BY <1>1, <1>20, GiveUpDoes, FaultTyped, SameServerTyped DEF GiveUp, server, SameServer, DaemonTyped, Ended
<1>21. ASSUME NEW s \in Slots, NEW p \in Paths, Upsert(s, p) PROVE DaemonTyped' /\ ServerTyped' /\ TodoHolds'
  <2>1. handler[s].m[p] # Absent  BY <1>21 DEF Upsert, TodoHolds
  <2>2. UNCHANGED <<told, event, watcher, flush, forced, orphans, faults, stored>>  BY <1>21 DEF Upsert, daemon
  <2>3. DaemonTyped'  BY <1>1, <1>21, <2>1, <2>2, UpsertDoes DEF DaemonTyped
  <2>4. handler'[s].todo \subseteq handler[s].todo  BY <1>21, <2>1, UpsertDoes
  <2> QED  BY <1>1, <1>21, <2>1, <2>2, <2>3, <2>4, UpsertDoes, WorkedTyped DEF ServerTyped
<1>22. ASSUME NEW s \in Slots, StoreInline(s) PROVE DaemonTyped' /\ ServerTyped' /\ TodoHolds'
  <2>1. UNCHANGED <<told, event, disturbed, watcher, flush, forced, orphans, faults, rows>>
    BY <1>22 DEF StoreInline, daemon
  <2>2. DaemonTyped'  BY <1>1, <2>1 DEF DaemonTyped
  <2>3. handler'[s].todo \subseteq handler[s].todo  BY <1>22, StoreInlineDoes
  <2> QED  BY <1>1, <1>22, <2>1, <2>2, <2>3, StoreInlineDoes, WorkedTyped DEF ServerTyped
<1>23. ASSUME NEW s \in Slots, Tombstone(s) PROVE DaemonTyped' /\ ServerTyped' /\ TodoHolds'
  <2>1. UNCHANGED <<told, event, forced, orphans, faults, stored>>  BY <1>23 DEF Tombstone, daemon
  <2>2. DaemonTyped'  BY <1>1, <1>23, <2>1, TombstoneDoes DEF DaemonTyped
  <2> QED  BY <1>1, <1>23, <2>1, <2>2, TombstoneDoes, WorkedTyped DEF ServerTyped
<1>24. ASSUME NEW s \in Slots, NEW m \in orphans, PostOrphan(s, m) PROVE DaemonTyped' /\ ServerTyped' /\ TodoHolds'
  <2>1. m \in Manifest /\ {} \in SUBSET Contents  BY <1>1 DEF DaemonTyped
  <2>2. Arrives(s, m, {}) /\ UNCHANGED <<told, event, watcher, flush, forced, rows, stored, disturbed, faults>>
        /\ orphans' = orphans \ {m}
    BY <1>24 DEF PostOrphan
  <2>3. DaemonTyped'  BY <1>1, <2>2 DEF DaemonTyped
  <2> QED  BY <2>1, <2>2, <2>3, ArrivesDoes, ArrivedTyped
<1>25. CASE DaemonRestart
  <2>1. DaemonTyped'  BY <1>1, <1>25, FaultTyped, NothingTyped DEF DaemonRestart, DaemonTyped
  <2>2. SameServer  BY <1>25 DEF DaemonRestart, server, SameServer
  <2> QED  BY <1>1, <2>1, <2>2, SameServerTyped
<1>26. CASE ServerRestart
  <2>1. DaemonTyped'  BY <1>1, <1>26, GiveUpDoes, FaultTyped DEF ServerRestart, DaemonTyped, Ended
  <2>2. handler' = [s \in Slots |-> NoHandler] /\ UNCHANGED <<rows, stored>>  BY <1>26 DEF ServerRestart
  <2>3. ServerTyped'  BY <1>1, <2>2, NothingTyped DEF ServerTyped
  <2>4. TodoHolds'  BY <2>2 DEF TodoHolds, NoHandler
  <2> QED  BY <2>1, <2>3, <2>4
<1>27. CASE UNCHANGED mirrorVars
  BY <1>1, <1>27, SameServerTyped DEF mirrorVars, SameServer, DaemonTyped
<1> QED
  BY <1>4, <1>5, <1>6, <1>7, <1>8, <1>9, <1>10, <1>11, <1>12, <1>13, <1>14, <1>15, <1>16, <1>17, <1>18, <1>19,
     <1>20, <1>21, <1>22, <1>23, <1>24, <1>25, <1>26, <1>27, Zenon
  DEF MirrorNext, FlushStep, ServeStep

(***************************************************************************)
(* What makes a forced flush fresh, on the daemon: an entry of a cache     *)
(* that counts as safe was hashed of the file it still stands for, so that *)
(* every content of a manifest was on disk while the flush went on.        *)
(***************************************************************************)
SafeEntry(e, f) == e.safe => /\ e.stat <= f.stat
                             /\ e.stat = f.stat => ~f.young /\ (e.c # Absent => e.c = f.c)

CachesHold == \A p \in Paths : SafeEntry(watcher.cache[p], disk[p]) /\ SafeEntry(flush.cache[p], disk[p])

LEMMA NoEntrySafe == \A p \in Paths : \A f : SafeEntry(NoCache[p], f)
BY DEF NoCache, NoEntry, SafeEntry

LEMMA CachesKept ==
  ASSUME CachesHold, disk' = disk,
         watcher'.cache \in {watcher.cache, flush.cache, NoCache}, flush'.cache \in {flush.cache, NoCache}
  PROVE  CachesHold'
BY NoEntrySafe DEF CachesHold

LEMMA CachesStep == ASSUME MirrorTyped, TodoHolds, CachesHold, [MirrorNext]_mirrorVars PROVE CachesHold'
<1>1. FolderTyped /\ DaemonTyped  BY MirrorParts
<1>2. disk \in [Paths -> File] /\ watcher.cache \in Cache /\ flush.cache \in Cache
  BY <1>1 DEF FolderTyped, DaemonTyped, Watcher, Flush
<1>3. Begun.cache = NoCache /\ NoFlush.cache = NoCache
  BY <1>1, BegunTyped DEF NoFlush
<1>4. ASSUME NEW p \in Paths, Ripen(p) PROVE CachesHold'
  <2>1. disk' = [disk EXCEPT ![p] = [disk[p] EXCEPT !.young = FALSE]] /\ UNCHANGED <<watcher, flush>>
    BY <1>2, <1>4 DEF Ripen
  <2> DEFINE f == [disk[p] EXCEPT !.young = FALSE]
  <2>2. f.c = disk[p].c /\ f.stat = disk[p].stat /\ f.young = FALSE
    <3>1. disk[p] \in File  BY <1>2
    <3> QED  BY <3>1 DEF File
  <2> HIDE DEF f
  <2>3. \A q \in Paths : disk'[q] = IF q = p THEN f ELSE disk[q]  BY <1>2, <2>1 DEF f
  <2>4. \A e : SafeEntry(e, disk[p]) => SafeEntry(e, f)  BY <2>2 DEF SafeEntry
  <2> QED  BY <2>1, <2>3, <2>4 DEF CachesHold
<1>5. ASSUME NEW p \in Paths, NEW c \in FileContent, Write(p, c) PROVE CachesHold'
  <2>1. PICK s : /\ (s = disk[p].stat /\ disk[p].young) \/ s = disk[p].stat + 1
                 /\ disk' = [disk EXCEPT ![p] = [c |-> c, stat |-> s, young |-> TRUE]]
    BY <1>5 DEF Write
  <2>2. UNCHANGED <<watcher, flush>>  BY <1>5 DEF Write
  <2> DEFINE f == [c |-> c, stat |-> s, young |-> TRUE]
  <2>3. \A q \in Paths : disk'[q] = IF q = p THEN f ELSE disk[q]  BY <1>2, <2>1
  <2>4. f.stat = s  OBVIOUS
  <2> HIDE DEF f
  <2>5. ASSUME NEW e \in Entry, SafeEntry(e, disk[p]) PROVE SafeEntry(e, f)
    <3>1. e.stat \in Nat /\ disk[p].stat \in Nat  BY <1>2, MirrorNames DEF Entry, File
    <3>2. CASE s = disk[p].stat /\ disk[p].young
      <4>1. e.safe => e.stat <= s /\ e.stat # s  BY <2>5, <3>2 DEF SafeEntry
      <4> QED  BY <2>4, <4>1 DEF SafeEntry
    <3>3. CASE s = disk[p].stat + 1
      <4>1. e.safe => e.stat <= disk[p].stat  BY <2>5 DEF SafeEntry
      <4>2. e.safe => e.stat <= s /\ e.stat # s  BY <3>1, <3>3, <4>1
      <4> QED  BY <2>4, <4>2 DEF SafeEntry
    <3> QED  BY <2>1, <3>2, <3>3
  <2>6. \A q \in Paths : watcher.cache[q] \in Entry /\ flush.cache[q] \in Entry  BY <1>2 DEF Cache
  <2>7. ASSUME NEW q \in Paths PROVE SafeEntry(watcher.cache[q], disk'[q]) /\ SafeEntry(flush.cache[q], disk'[q])
    <3>1. SafeEntry(watcher.cache[q], disk[q]) /\ SafeEntry(flush.cache[q], disk[q])  BY DEF CachesHold
    <3>2. CASE q = p  BY <2>3, <2>5, <2>6, <3>1, <3>2
    <3>3. CASE q # p  BY <2>3, <3>1, <3>3
    <3> QED  BY <3>2, <3>3
  <2> QED  BY <2>2, <2>7 DEF CachesHold
<1>6. CASE MakeFolder  BY <1>6, CachesKept DEF MakeFolder
<1>7. CASE Move
  <2>1. flush'.cache = NoCache  BY <1>3, <1>7 DEF Move
  <2>2. watcher'.cache = NoCache  BY <1>7, MoveTyped, NewDoes
  <2> QED  BY <2>1, <2>2, NoEntrySafe DEF CachesHold
<1>8. CASE Reconcile
  <2>1. watcher'.cache = NoCache  BY <1>1, <1>8, NewDoes DEF Reconcile, FolderTyped
  <2> QED  BY <1>8, <2>1, CachesKept DEF Reconcile, folder
<1>9. CASE EventArrives  BY <1>9, EventDoes, CachesKept DEF EventArrives, folder, SameMemory
<1>10. CASE TimerFires  BY <1>3, <1>10, TimerDoes, CachesKept DEF TimerFires, folder, SameMemory
<1>11. CASE FlushNow  BY <1>3, <1>11, ForceDoes, CachesKept DEF FlushNow, folder, SameMemory
<1>12. CASE FlushNowAgain  BY <1>3, <1>12, ForceAgainDoes, CachesKept DEF FlushNowAgain, folder, SameMemory
<1>13. ASSUME NEW p \in Paths, Stat(p) PROVE CachesHold'
  <2>1. UNCHANGED <<disk, watcher>>  BY <1>13 DEF Stat, folder
  <2> DEFINE n == [c |-> Absent, stat |-> disk[p].stat, safe |-> ~disk[p].young]
  <2>2. SafeEntry(n, disk[p])
    <3>1. disk[p].stat \in Nat  BY <1>2, MirrorNames DEF File
    <3>2. n.c = Absent /\ n.stat = disk[p].stat  OBVIOUS
    <3>3. n.safe <=> ~disk[p].young
      <4>1. n.safe = ~disk[p].young  OBVIOUS
      <4> QED  BY <4>1, Zenon
    <3> HIDE DEF n
    <3> QED  BY <3>1, <3>2, <3>3 DEF SafeEntry
  <2> HIDE DEF n
  <2>3. \/ flush'.cache = flush.cache \/ flush'.cache = [flush.cache EXCEPT ![p] = watcher.cache[p]]
        \/ flush'.cache = [flush.cache EXCEPT ![p] = n]
    BY <1>13, StatDoes DEF n
  <2>4. \A q \in Paths : flush'.cache[q] = flush.cache[q] \/ (q = p /\ flush'.cache[q] \in {watcher.cache[p], n})
    BY <1>2, <2>3 DEF Cache
  <2>5. \A q \in Paths : SafeEntry(watcher.cache[q], disk[q]) /\ SafeEntry(flush'.cache[q], disk[q])
    <3> TAKE q \in Paths
    <3>1. SafeEntry(watcher.cache[q], disk[q]) /\ SafeEntry(flush.cache[q], disk[q])  BY DEF CachesHold
    <3>2. CASE flush'.cache[q] = flush.cache[q]  BY <3>1, <3>2
    <3>3. CASE q = p /\ flush'.cache[q] = watcher.cache[p]  BY <3>1, <3>3
    <3>4. CASE q = p /\ flush'.cache[q] = n  BY <2>2, <3>1, <3>4
    <3> QED  BY <2>4, <3>2, <3>3, <3>4
  <2> QED  BY <2>1, <2>5 DEF CachesHold
<1>14. ASSUME NEW p \in Paths, Hash(p) PROVE CachesHold'
  <2>1. UNCHANGED <<disk, watcher>>  BY <1>14 DEF Hash, folder
  <2>2. PICK e \in Entry : /\ flush'.cache = [flush.cache EXCEPT ![p] = e]
                                  /\ \/ ~e.safe
                                     \/ e.c = disk[p].c /\ e.stat = flush.cache[p].stat /\ e.safe = flush.cache[p].safe
    BY <1>14, HashDoes
  <2>3. SafeEntry(flush.cache[p], disk[p])  BY DEF CachesHold
  <2>4. SafeEntry(e, disk[p])  BY <2>2, <2>3 DEF SafeEntry
  <2>5. \A q \in Paths : flush'.cache[q] = IF q = p THEN e ELSE flush.cache[q]  BY <1>2, <2>2 DEF Cache
  <2> QED  BY <2>1, <2>4, <2>5 DEF CachesHold
<1>15. CASE Skip  BY <1>3, <1>15, SkipDoes, CachesKept DEF Skip, folder, Ended
<1>16. CASE FlushEnds  BY <1>3, <1>16, FlushEndsDoes, CachesKept DEF FlushEnds, folder, Ended
<1>17. ASSUME NEW s \in Slots, Post(s) PROVE CachesHold'
  BY <1>17, PostDoes, CachesKept DEF Post, folder
<1>18. ASSUME NEW c \in Contents, PutBlob(c) PROVE CachesHold'
  BY <1>18, PutDoes, CachesKept DEF PutBlob, folder
<1>19. CASE Lost  BY <1>3, <1>19, LostDoes, CachesKept DEF Lost, folder, Ended
<1>20. CASE GiveUp  BY <1>3, <1>20, GiveUpDoes, CachesKept DEF GiveUp, folder, Ended, SameMemory
<1>21. ASSUME NEW s \in Slots, NEW p \in Paths, Upsert(s, p) PROVE CachesHold'
  BY <1>21, CachesKept DEF Upsert, daemon, folder
<1>22. ASSUME NEW s \in Slots, StoreInline(s) PROVE CachesHold'
  BY <1>22, CachesKept DEF StoreInline, daemon, folder
<1>23. ASSUME NEW s \in Slots, Tombstone(s) PROVE CachesHold'
  BY <1>23, TombstoneDoes, CachesKept DEF Tombstone, daemon, folder, SameMemory
<1>24. ASSUME NEW s \in Slots, NEW m \in orphans, PostOrphan(s, m) PROVE CachesHold'
  BY <1>24, CachesKept DEF PostOrphan, folder
<1>25. CASE DaemonRestart
  BY <1>3, <1>25, CachesKept DEF DaemonRestart, folder, Closed
<1>26. CASE ServerRestart
  BY <1>3, <1>26, GiveUpDoes, CachesKept DEF ServerRestart, folder, Ended, SameMemory
<1>27. CASE UNCHANGED mirrorVars  BY <1>27, CachesKept DEF mirrorVars
<1> QED
  BY <1>4, <1>5, <1>6, <1>7, <1>8, <1>9, <1>10, <1>11, <1>12, <1>13, <1>14, <1>15, <1>16, <1>17, <1>18, <1>19,
     <1>20, <1>21, <1>22, <1>23, <1>24, <1>25, <1>26, <1>27, Zenon
  DEF MirrorNext, FlushStep, ServeStep

(* What a forced flush has in its manifest was there since it was asked for. *)
SinceHolds == forced.pc # "idle" => \A p \in Paths : disk[p].c \in forced.since[p]

WalkHolds == /\ flush.pc # "walk" => flush.todo = {} /\ flush.at = Nobody
             /\ flush.at \notin flush.todo
             /\ \A p \in flush.todo : flush.m[p] = Absent

WalkFresh == forced.pc = "own" =>
  /\ flush.pc # "idle"
  /\ \A p \in Paths : p \notin flush.todo /\ p # flush.at => flush.m[p] \in forced.since[p]

(* Before the set is reconciled there is nothing at work. *)
Untold == ~told => ~event /\ ~watcher.open /\ ~watcher.timer /\ flush.pc = "idle" /\ forced.pc = "idle"

WalkInv == SinceHolds /\ WalkHolds /\ WalkFresh /\ Untold

LEMMA WalkKept ==
  ASSUME WalkInv, disk' = disk, forced' = forced,
         flush'.todo = flush.todo /\ flush'.at = flush.at /\ flush'.m = flush.m,
         flush'.pc = "walk" <=> flush.pc = "walk", flush'.pc = "idle" <=> flush.pc = "idle", Untold'
  PROVE  WalkInv'
BY DEF WalkInv, SinceHolds, WalkHolds, WalkFresh

LEMMA WalkBegins ==
  ASSUME MirrorTyped, WalkInv, disk' = disk, flush' = Begun, told,  told' = told,
         \/ forced' = forced /\ forced.pc # "own"
         \/ forced'.since = forced.since /\ forced.pc # "idle"
         \/ forced'.since = Since
  PROVE  WalkInv'
<1>1. FolderTyped  BY MirrorParts
<1>2. /\ flush'.pc = "walk" /\ flush'.at = Nobody /\ flush'.m = Empty
      /\ flush'.todo = {p \in Paths : disk[p].c # Absent}
  BY <1>1, BegunTyped
<1>3. SinceHolds'  BY <1>1, SinceTyped DEF WalkInv, SinceHolds
<1>4. \A p \in Paths : flush'.m[p] = Absent  BY <1>2 DEF Empty
<1>5. Nobody \notin flush'.todo  BY <1>2, MirrorNames
<1>6. WalkHolds'  BY <1>2, <1>4, <1>5 DEF WalkHolds
<1>7. WalkFresh'
  <2> SUFFICES ASSUME forced'.pc = "own", NEW p \in Paths, p \notin flush'.todo PROVE flush'.m[p] \in forced'.since[p]
    BY <1>2 DEF WalkFresh
  <2>1. flush'.m[p] = disk'[p].c  BY <1>2, <1>4
  <2> QED  BY <1>3, <2>1 DEF SinceHolds
<1> QED  BY <1>3, <1>6, <1>7 DEF WalkInv, Untold

LEMMA WalkEnds ==
  ASSUME MirrorTyped, WalkInv, disk' = disk, Ended, flush.pc # "idle", told' = told
  PROVE  WalkInv'
<1>1. told  BY DEF WalkInv, Untold
<1>2. flush'.pc = "idle" /\ flush'.todo = {} /\ flush'.at = Nobody  BY DEF Ended, NoFlush
<1>3. forced'.pc # "own" /\ (forced'.pc # "idle" => forced' = forced)  BY DEF Ended, NoForce
<1> QED  BY <1>1, <1>2, <1>3 DEF WalkInv, SinceHolds, WalkHolds, WalkFresh, Untold

LEMMA WalkGone ==
  ASSUME flush' = NoFlush, forced' = NoForce, Untold'
  PROVE  WalkInv'
BY DEF NoFlush, NoForce, WalkInv, SinceHolds, WalkHolds, WalkFresh

LEMMA WalkStep ==
  ASSUME MirrorTyped, TodoHolds, CachesHold, WalkInv, [MirrorNext]_mirrorVars
  PROVE  WalkInv'
<1>1. FolderTyped /\ DaemonTyped /\ Untold  BY MirrorParts DEF WalkInv
<1>2. flush \in Flush /\ forced \in Forced /\ disk \in [Paths -> File]  BY <1>1 DEF DaemonTyped, FolderTyped
<1>3. flush.m \in [Paths -> FileContent]  BY <1>2 DEF Flush, Manifest
<1>4. ASSUME NEW p \in Paths, Ripen(p) PROVE WalkInv'
  <2>1. disk' = [disk EXCEPT ![p] = [disk[p] EXCEPT !.young = FALSE]] /\ UNCHANGED <<told, event, watcher, flush, forced>>
    BY <1>2, <1>4 DEF Ripen
  <2> DEFINE f == [disk[p] EXCEPT !.young = FALSE]
  <2>2. f.c = disk[p].c
    <3>1. disk[p] \in File  BY <1>2
    <3> QED  BY <3>1 DEF File
  <2> HIDE DEF f
  <2>3. \A q \in Paths : disk'[q].c = disk[q].c  BY <1>2, <2>1, <2>2 DEF f
  <2> QED  BY <2>1, <2>3 DEF WalkInv, SinceHolds, WalkHolds, WalkFresh, Untold
<1>5. ASSUME NEW p \in Paths, NEW c \in FileContent, Write(p, c) PROVE WalkInv'
  <2>1. PICK s : disk' = [disk EXCEPT ![p] = [c |-> c, stat |-> s, young |-> TRUE]]
    BY <1>5 DEF Write
  <2>2. UNCHANGED <<told, watcher, flush>> /\ event' = watcher.open  BY <1>5 DEF Write
  <2>3. \A q \in Paths : disk'[q].c = IF q = p THEN c ELSE disk[q].c  BY <1>2, <2>1
  <2>4. /\ forced'.pc = forced.pc
        /\ forced.pc # "idle" => \A q \in Paths : forced'.since[q] = IF q = p THEN forced.since[q] \cup {c} ELSE forced.since[q]
    BY <1>5, WriteDoes
  <2>5. Untold'  BY <1>1, <2>2, <2>4 DEF Untold
  <2>6. SinceHolds'  BY <2>3, <2>4 DEF WalkInv, SinceHolds
  <2>7. WalkHolds'  BY <2>2 DEF WalkInv, WalkHolds
  <2>8. WalkFresh'  BY <2>2, <2>4 DEF WalkInv, WalkFresh
  <2> QED  BY <2>5, <2>6, <2>7, <2>8 DEF WalkInv
<1>6. CASE MakeFolder  BY <1>1, <1>6, WalkKept DEF MakeFolder, Untold
<1>7. CASE Move  BY <1>7, WalkGone DEF Move, Untold
<1>8. CASE Reconcile
  BY <1>8, WalkKept DEF Reconcile, folder, Untold
<1>9. CASE EventArrives
  BY <1>1, <1>9, EventDoes, WalkKept DEF EventArrives, folder, Untold
<1>10. CASE TimerFires
  <2>1. told /\ UNCHANGED <<told, disk, forced>>  BY <1>1, <1>10, TimerDoes DEF Untold, TimerFires, folder
  <2>2. CASE Busy /\ flush' = flush  BY <2>1, <2>2, WalkKept DEF Untold
  <2>3. CASE ~Busy /\ flush' = Begun
    <3>1. forced.pc # "own"  BY <2>3 DEF Busy, WalkInv, WalkFresh
    <3> QED  BY <2>1, <2>3, <3>1, WalkBegins
  <2> QED  BY <1>10, <2>2, <2>3, TimerDoes
<1>11. CASE FlushNow
  <2>1. told /\ UNCHANGED <<told, disk>>  BY <1>1, <1>11, ForceDoes DEF Untold, FlushNow, folder
  <2>2. forced'.since = Since  BY <1>11, ForceDoes
  <2>3. CASE forced'.pc = "await" /\ flush' = flush
    <3>1. SinceHolds'  BY <1>1, <2>1, <2>2, SinceTyped DEF SinceHolds
    <3> QED  BY <2>1, <2>3, <3>1 DEF WalkInv, WalkHolds, WalkFresh, Untold
  <2>4. CASE flush' = Begun  BY <2>1, <2>2, <2>4, WalkBegins
  <2> QED  BY <1>11, <2>3, <2>4, ForceDoes
<1>12. CASE FlushNowAgain
  <2>1. told  BY <1>1, <1>12, ForceAgainDoes DEF Untold
  <2> QED  BY <1>12, <2>1, ForceAgainDoes, WalkBegins DEF FlushNowAgain, folder
<1>13. ASSUME NEW p \in Paths, Stat(p) PROVE WalkInv'
  <2>1. UNCHANGED <<told, disk, forced, event, watcher>>  BY <1>13 DEF Stat, folder
  <2>2. told /\ Untold'  BY <1>1, <1>13, <2>1, StatDoes DEF Untold
  <2>3. /\ flush'.pc = "walk" /\ flush'.todo = flush.todo \ {p} /\ p \in flush.todo /\ flush.at = Nobody
        /\ flush'.at \in {Nobody, p}
    BY <1>13, StatDoes
  <2>4. \A q \in Paths \ {p} : flush'.m[q] = flush.m[q]  BY <1>3, <1>13, StatDoes
  <2>5. Nobody \notin flush'.todo  BY <1>2, <2>3, MirrorNames DEF Flush
  <2>6. WalkHolds'  BY <1>2, <2>3, <2>4, <2>5 DEF WalkInv, WalkHolds, Flush
  <2>7. SinceHolds'  BY <2>1 DEF WalkInv, SinceHolds
  <2>8. WalkFresh'
    <3> SUFFICES ASSUME forced.pc = "own", NEW q \in Paths, q \notin flush'.todo, q # flush'.at
                 PROVE flush'.m[q] \in forced.since[q]
      BY <2>1, <2>3 DEF WalkFresh
    <3>1. CASE q # p  BY <2>3, <2>4, <3>1, MirrorNames DEF WalkInv, WalkFresh
    <3>2. CASE q = p /\ disk[p].c = Absent /\ flush'.m = flush.m
      <4>1. flush.m[p] = disk[p].c  BY <2>3, <3>2 DEF WalkInv, WalkHolds
      <4> QED  BY <3>2, <4>1 DEF WalkInv, SinceHolds
    <3>3. CASE q = p /\ Trustworthy(watcher.cache[p], disk[p]) /\ flush'.m = [flush.m EXCEPT ![p] = watcher.cache[p].c]
      <4>1. watcher.cache[p].c = disk[p].c  BY <3>3 DEF Trustworthy, CachesHold, SafeEntry
      <4>2. flush'.m[p] = disk[p].c  BY <1>3, <3>3, <4>1
      <4> QED  BY <3>3, <4>2 DEF WalkInv, SinceHolds
    <3> QED  BY <1>13, <3>1, <3>2, <3>3, StatDoes
  <2> QED  BY <2>2, <2>6, <2>7, <2>8 DEF WalkInv
<1>14. ASSUME NEW p \in Paths, Hash(p) PROVE WalkInv'
  <2>1. UNCHANGED <<told, disk, forced, event, watcher>>  BY <1>14 DEF Hash, folder
  <2>2. /\ flush'.pc = flush.pc /\ flush'.todo = flush.todo /\ flush.at = p /\ flush'.at = Nobody
        /\ flush'.m = [flush.m EXCEPT ![p] = disk[p].c]
    BY <1>14, HashDoes
  <2>3. flush.pc = "walk" /\ p \notin flush.todo  BY <2>2, MirrorNames DEF WalkInv, WalkHolds
  <2>4. Nobody \notin flush.todo  BY <1>2, MirrorNames DEF Flush
  <2>5. flush'.m[p] = disk[p].c /\ \A q \in Paths \ {p} : flush'.m[q] = flush.m[q]  BY <1>3, <2>2
  <2>6. WalkHolds'  BY <1>2, <2>2, <2>3, <2>4, <2>5 DEF WalkInv, WalkHolds, Flush
  <2>7. SinceHolds'  BY <2>1 DEF WalkInv, SinceHolds
  <2>8. WalkFresh'  BY <2>1, <2>2, <2>3, <2>5 DEF WalkInv, WalkFresh, SinceHolds
  <2>9. Untold'  BY <1>1, <2>1, <2>2 DEF Untold
  <2> QED  BY <2>6, <2>7, <2>8, <2>9 DEF WalkInv
<1>15. CASE Skip  BY <1>15, SkipDoes, WalkEnds DEF Skip, folder, Walked
<1>16. CASE FlushEnds  BY <1>16, FlushEndsDoes, WalkEnds DEF FlushEnds, folder
<1>17. ASSUME NEW s \in Slots, Post(s) PROVE WalkInv'
  <2>1. UNCHANGED <<told, disk, forced>>  BY <1>17 DEF Post, folder
  <2>2. /\ flush.pc = "walk" /\ flush.todo = {} /\ flush.at = Nobody /\ flush'.pc = "wait" /\ flush'.todo = {}
        /\ flush'.at = Nobody /\ flush'.m = flush.m
    BY <1>17, PostDoes DEF Walked
  <2> QED  BY <1>1, <2>1, <2>2 DEF WalkInv, SinceHolds, WalkHolds, WalkFresh, Untold
<1>18. ASSUME NEW c \in Contents, PutBlob(c) PROVE WalkInv'
  BY <1>1, <1>18, PutDoes, WalkKept DEF PutBlob, folder, Untold
<1>19. CASE Lost  BY <1>19, LostDoes, WalkEnds DEF Lost, folder, Walked
<1>20. CASE GiveUp  BY <1>20, GiveUpDoes, WalkEnds DEF GiveUp, folder
<1>21. ASSUME NEW s \in Slots, NEW p \in Paths, Upsert(s, p) PROVE WalkInv'
  BY <1>1, <1>21, WalkKept DEF Upsert, daemon, folder, Untold
<1>22. ASSUME NEW s \in Slots, StoreInline(s) PROVE WalkInv'
  BY <1>1, <1>22, WalkKept DEF StoreInline, daemon, folder, Untold
<1>23. ASSUME NEW s \in Slots, Tombstone(s) PROVE WalkInv'
  <2>1. UNCHANGED <<told, event, disk, forced>>  BY <1>23 DEF Tombstone, daemon, folder
  <2>2. Untold'  BY <1>1, <1>23, <2>1, TombstoneDoes DEF Untold
  <2> QED  BY <1>23, <2>1, <2>2, TombstoneDoes, WalkKept
<1>24. ASSUME NEW s \in Slots, NEW m \in orphans, PostOrphan(s, m) PROVE WalkInv'
  BY <1>1, <1>24, WalkKept DEF PostOrphan, folder, Untold
<1>25. CASE DaemonRestart
  BY <1>25, WalkGone DEF DaemonRestart, Closed, NoFlush, NoForce, Untold
<1>26. CASE ServerRestart  BY <1>26, GiveUpDoes, WalkEnds DEF ServerRestart, folder
<1>27. CASE UNCHANGED mirrorVars  BY <1>1, <1>27, WalkKept DEF mirrorVars, Untold
<1> QED
  BY <1>4, <1>5, <1>6, <1>7, <1>8, <1>9, <1>10, <1>11, <1>12, <1>13, <1>14, <1>15, <1>16, <1>17, <1>18, <1>19,
     <1>20, <1>21, <1>22, <1>23, <1>24, <1>25, <1>26, <1>27, Zenon
  DEF MirrorNext, FlushStep, ServeStep

(***************************************************************************)
(* And on the server: a request that nothing else overlaps has written     *)
(* what its manifest says, and what was acknowledged stays until the next  *)
(* one.                                                                    *)
(***************************************************************************)
Behind(S) == orphans = {} /\ \A t \in S : AtWork(t) => handler[t].late

Progress(h) ==
  /\ \A p \in Paths : h.m[p] # Absent /\ p \notin h.todo => rows[p] = h.m[p] /\ h.m[p] \in stored \cup h.inline \cup h.need
  /\ h.pc = "tombstone" => h.todo = {} /\ h.inline \subseteq stored

WaitHolds == flush.pc = "wait" =>
  /\ flush.slot \in Slots /\ AtWork(flush.slot) /\ handler[flush.slot].m = flush.m
  /\ ~disturbed => Behind(Slots \ {flush.slot}) /\ Progress(handler[flush.slot])

PutHolds == flush.pc = "put" /\ ~disturbed =>
  /\ Behind(Slots)
  /\ \A p \in Paths : rows[p] = flush.m[p] /\ (rows[p] # Absent => rows[p] \in stored \cup flush.need \cup flush.failed)

UnsureHolds == flush.pc \in {"wait", "put"} => watcher.unsure

AckHolds == watcher.acked # Nobody /\ ~watcher.unsure /\ ~disturbed =>
  /\ Behind(Slots)
  /\ \A p \in Paths : rows[p] = watcher.acked[p] /\ rows[p] \in stored \cup {Absent}

ServerInv == WaitHolds /\ PutHolds /\ UnsureHolds /\ AckHolds

LEMMA ServerKept ==
  ASSUME ServerInv, UNCHANGED <<orphans, handler, rows, stored, disturbed>>, flush' = flush,
         watcher'.acked = watcher.acked /\ watcher'.unsure = watcher.unsure
  PROVE  ServerInv'
BY DEF ServerInv, WaitHolds, PutHolds, UnsureHolds, AckHolds, Behind, Progress, AtWork

LEMMA ServerQuiet ==
  ASSUME ServerInv, flush'.pc \in {"idle", "walk"},
         \/ watcher'.acked = Nobody
         \/ /\ UNCHANGED <<orphans, handler, rows, stored>> /\ (disturbed => disturbed')
            /\ watcher'.acked = watcher.acked /\ watcher'.unsure = watcher.unsure
  PROVE  ServerInv'
<1>1. WaitHolds' /\ PutHolds' /\ UnsureHolds'  BY DEF WaitHolds, PutHolds, UnsureHolds
<1>2. AckHolds'  BY DEF ServerInv, AckHolds, Behind, AtWork
<1> QED  BY <1>1, <1>2 DEF ServerInv

LEMMA UpsertServes ==
  ASSUME MirrorTyped, TodoHolds, ServerInv, NEW s \in Slots, NEW p \in Paths, Upsert(s, p)
  PROVE  ServerInv'
<1>1. UNCHANGED <<orphans, stored, flush, watcher>>  BY DEF Upsert, daemon
<1>2. handler[s].m[p] # Absent  BY DEF Upsert, TodoHolds
<1> DEFINE h == handler[s]  k == handler'[s]
<1>3. /\ h.pc = "upsert" /\ rows' = [rows EXCEPT ![p] = h.m[p]] /\ disturbed' = (disturbed \/ h.late)
      /\ \A t \in Slots \ {s} : handler'[t] = handler[t]
      /\ k.pc = "upsert" /\ k.m = h.m /\ k.todo = h.todo \ {p} /\ k.inline = h.inline
      /\ k.need = h.need \cup ({h.m[p]} \ (stored \cup h.inline))
  BY <1>2, UpsertDoes
<1>4. \A q \in Paths : rows'[q] = IF q = p THEN h.m[p] ELSE rows[q]  BY <1>3 DEF MirrorTyped, MirrorTypeOK, Manifest
<1>5. AtWork(s)  BY <1>3 DEF AtWork
<1>6. ~disturbed' => ~disturbed /\ ~h.late  BY <1>3
<1> HIDE DEF h, k
<1>7. ASSUME ~disturbed', NEW S, s \in S, Behind(S) PROVE FALSE  BY <1>5, <1>6, <1>7 DEF Behind, h
<1>8. WaitHolds'
  <2> SUFFICES ASSUME flush.pc = "wait"
               PROVE  /\ flush.slot \in Slots /\ AtWork(flush.slot)' /\ handler'[flush.slot].m = flush.m
                      /\ ~disturbed' => Behind(Slots \ {flush.slot})' /\ Progress(handler[flush.slot])'
    BY <1>1 DEF WaitHolds
  <2>1. flush.slot \in Slots /\ AtWork(flush.slot) /\ handler[flush.slot].m = flush.m  BY DEF ServerInv, WaitHolds
  <2>2. AtWork(flush.slot)' /\ handler'[flush.slot].m = flush.m  BY <1>1, <1>3, <2>1 DEF AtWork, h, k
  <2>3. ASSUME ~disturbed' PROVE Behind(Slots \ {flush.slot})' /\ Progress(handler[flush.slot])'
    <3>1. Behind(Slots \ {flush.slot}) /\ Progress(handler[flush.slot])  BY <1>6, <2>3 DEF ServerInv, WaitHolds
    <3>2. flush.slot = s  BY <1>7, <2>3, <3>1
    <3>3. Behind(Slots \ {s})'  BY <1>1, <1>3, <3>1, <3>2 DEF Behind, AtWork
    <3>4. ASSUME NEW q \in Paths, k.m[q] # Absent, q \notin k.todo
          PROVE  rows'[q] = k.m[q] /\ k.m[q] \in stored \cup k.inline \cup k.need
      <4>1. CASE q = p  BY <1>3, <1>4, <4>1
      <4>2. CASE q # p  BY <1>3, <1>4, <3>1, <3>2, <3>4, <4>2 DEF Progress, h
      <4> QED  BY <4>1, <4>2
    <3>5. Progress(handler[s])'  BY <1>1, <1>3, <3>4 DEF Progress, k
    <3> QED  BY <1>1, <3>2, <3>3, <3>5
  <2> QED  BY <2>1, <2>2, <2>3
<1>9. PutHolds'  BY <1>1, <1>6, <1>7 DEF ServerInv, PutHolds
<1>10. UnsureHolds'  BY <1>1 DEF ServerInv, UnsureHolds
<1>11. AckHolds'  BY <1>1, <1>6, <1>7 DEF ServerInv, AckHolds
<1> QED  BY <1>8, <1>9, <1>10, <1>11 DEF ServerInv

LEMMA StoreInlineServes ==
  ASSUME MirrorTyped, ServerInv, NEW s \in Slots, StoreInline(s)
  PROVE  ServerInv'
<1>1. UNCHANGED <<orphans, rows, flush, watcher, disturbed>>  BY DEF StoreInline, daemon
<1> DEFINE h == handler[s]  k == handler'[s]
<1>2. /\ h.pc = "upsert" /\ h.todo = {} /\ stored' = stored \cup h.inline
      /\ \A t \in Slots \ {s} : handler'[t] = handler[t]
      /\ k.pc = "tombstone" /\ k.late = h.late /\ k.m = h.m /\ k.todo = {} /\ k.inline = h.inline /\ k.need = h.need
  BY StoreInlineDoes
<1> HIDE DEF h, k
<1>3. \A S \in SUBSET Slots : Behind(S) => Behind(S)'  BY <1>1, <1>2 DEF Behind, AtWork, h, k
<1>4. ASSUME NEW t \in Slots, Progress(handler[t]) PROVE Progress(handler[t])'
  <2>1. CASE t = s  BY <1>1, <1>2, <1>4, <2>1 DEF Progress, h, k
  <2>2. CASE t # s  BY <1>1, <1>2, <1>4, <2>2 DEF Progress
  <2> QED  BY <2>1, <2>2
<1>5. WaitHolds'
  <2> SUFFICES ASSUME flush.pc = "wait"
               PROVE  /\ flush.slot \in Slots /\ AtWork(flush.slot)' /\ handler'[flush.slot].m = flush.m
                      /\ ~disturbed => Behind(Slots \ {flush.slot})' /\ Progress(handler[flush.slot])'
    BY <1>1 DEF WaitHolds
  <2>1. flush.slot \in Slots /\ AtWork(flush.slot) /\ handler[flush.slot].m = flush.m  BY DEF ServerInv, WaitHolds
  <2>2. AtWork(flush.slot)' /\ handler'[flush.slot].m = flush.m  BY <1>1, <1>2, <2>1 DEF AtWork, h, k
  <2>3. ASSUME ~disturbed PROVE Behind(Slots \ {flush.slot})' /\ Progress(handler[flush.slot])'
    <3>1. Behind(Slots \ {flush.slot}) /\ Progress(handler[flush.slot])  BY <2>3 DEF ServerInv, WaitHolds
    <3>2. Behind(Slots \ {flush.slot})'  BY <1>1, <1>2, <3>1 DEF Behind, AtWork, h, k
    <3>3. Progress(handler[flush.slot])'
      <4>1. CASE flush.slot = s  BY <1>1, <1>4, <3>1, <4>1
      <4>2. CASE flush.slot # s  BY <1>1, <1>4, <2>1, <3>1, <4>2
      <4> QED  BY <4>1, <4>2
    <3> QED  BY <3>2, <3>3
  <2> QED  BY <2>1, <2>2, <2>3
<1>6. PutHolds'  BY <1>1, <1>2, <1>3 DEF ServerInv, PutHolds
<1>7. UnsureHolds'  BY <1>1 DEF ServerInv, UnsureHolds
<1>8. AckHolds'  BY <1>1, <1>2, <1>3 DEF ServerInv, AckHolds
<1> QED  BY <1>5, <1>6, <1>7, <1>8 DEF ServerInv

LEMMA TombstoneServes ==
  ASSUME MirrorTyped, ServerInv, NEW s \in Slots, Tombstone(s)
  PROVE  ServerInv'
<1>1. UNCHANGED <<orphans, stored>>  BY DEF Tombstone, daemon
<1> DEFINE h == handler[s]
<1>2. /\ h.pc = "tombstone" /\ disturbed' = (disturbed \/ h.late) /\ flush'.m = flush.m
      /\ watcher'.acked = watcher.acked /\ watcher'.unsure = watcher.unsure
      /\ \A p \in Paths : rows'[p] = IF h.m[p] = Absent THEN Absent ELSE rows[p]
      /\ handler'[s] = NoHandler /\ \A t \in Slots \ {s} : handler'[t] = handler[t]
      /\ \/ flush.pc = "wait" /\ flush.slot = s /\ flush'.pc = "put" /\ flush'.need = h.need
         \/ ~(flush.pc = "wait" /\ flush.slot = s) /\ flush' = flush
  BY TombstoneDoes DEF SameMemory
<1>3. AtWork(s)  BY <1>2 DEF AtWork
<1>4. ~disturbed' => ~disturbed /\ ~h.late  BY <1>2
<1> HIDE DEF h
<1>5. ASSUME ~disturbed', NEW S, s \in S, Behind(S) PROVE FALSE  BY <1>3, <1>4, <1>5 DEF Behind, h
<1>6. WaitHolds'
  <2> SUFFICES ASSUME flush'.pc = "wait"
               PROVE  /\ flush'.slot \in Slots /\ AtWork(flush.slot)' /\ handler'[flush'.slot].m = flush'.m
                      /\ ~disturbed' => Behind(Slots \ {flush.slot})' /\ Progress(handler[flush.slot])'
    BY DEF WaitHolds
  <2>1. flush' = flush /\ flush.pc = "wait" /\ flush.slot # s  BY <1>2
  <2>2. flush.slot \in Slots /\ AtWork(flush.slot) /\ handler[flush.slot].m = flush.m  BY <2>1 DEF ServerInv, WaitHolds
  <2>3. AtWork(flush.slot)' /\ handler'[flush.slot].m = flush.m  BY <1>2, <2>1, <2>2 DEF AtWork
  <2>4. ASSUME ~disturbed' PROVE FALSE
    <3>1. Behind(Slots \ {flush.slot})  BY <1>4, <2>1, <2>4 DEF ServerInv, WaitHolds
    <3> QED  BY <1>5, <2>1, <2>4, <3>1
  <2> QED  BY <2>1, <2>2, <2>3, <2>4
<1>7. PutHolds'
  <2>1. ASSUME flush'.pc = "put", ~disturbed', flush' = flush PROVE FALSE
    <3>1. Behind(Slots)  BY <1>4, <2>1 DEF ServerInv, PutHolds
    <3> QED  BY <1>5, <2>1, <3>1
  <2>2. ASSUME ~disturbed', flush.pc = "wait", flush.slot = s, flush'.need = h.need
        PROVE  /\ Behind(Slots)'
               /\ \A p \in Paths : rows'[p] = flush'.m[p] /\ (rows'[p] # Absent => rows'[p] \in stored' \cup flush'.need)
    <3>1. Behind(Slots \ {s}) /\ Progress(h) /\ h.m = flush.m  BY <1>4, <2>2 DEF ServerInv, WaitHolds, h
    <3>2. Behind(Slots)'
      <4>1. ~AtWork(s)'  BY <1>2 DEF AtWork, NoHandler
      <4> QED  BY <1>1, <1>2, <3>1, <4>1 DEF Behind, AtWork
    <3>3. ASSUME NEW p \in Paths PROVE rows'[p] = h.m[p] /\ (rows'[p] # Absent => rows'[p] \in stored \cup h.need)
      <4>1. CASE h.m[p] = Absent  BY <1>2, <4>1
      <4>2. CASE h.m[p] # Absent
        <5>1. h.todo = {} /\ h.inline \subseteq stored  BY <1>2, <3>1 DEF Progress
        <5>2. rows[p] = h.m[p] /\ h.m[p] \in stored \cup h.inline \cup h.need  BY <3>1, <4>2, <5>1 DEF Progress
        <5> QED  BY <1>2, <4>2, <5>1, <5>2
      <4> QED  BY <4>1, <4>2
    <3> QED  BY <1>1, <1>2, <2>2, <3>1, <3>2, <3>3
  <2>3. flush' = flush \/ (flush.pc = "wait" /\ flush.slot = s /\ flush'.need = h.need)  BY <1>2
  <2> QED  BY <2>1, <2>2, <2>3 DEF PutHolds
<1>8. UnsureHolds'  BY <1>2 DEF ServerInv, UnsureHolds
<1>9. AckHolds'  BY <1>2, <1>4, <1>5 DEF ServerInv, AckHolds
<1> QED  BY <1>6, <1>7, <1>8, <1>9 DEF ServerInv

LEMMA PostServes ==
  ASSUME MirrorTyped, NEW s \in Slots, Post(s)
  PROVE  ServerInv'
<1>1. /\ watcher'.unsure /\ flush'.pc = "wait" /\ flush'.slot = s /\ flush'.m = flush.m
      /\ handler'[s].pc = "upsert" /\ handler'[s].todo = {p \in Paths : flush.m[p] # Absent} /\ handler'[s].m = flush.m
      /\ \A t \in Slots \ {s} : handler'[t].pc = handler[t].pc /\ handler'[t].late = AtWork(t)
      /\ ~disturbed' => orphans = {}
  BY PostDoes
<1>2. orphans' = orphans  BY DEF Post
<1>3. ~disturbed' => Behind(Slots \ {s})'  BY <1>1, <1>2 DEF Behind, AtWork
<1>4. Progress(handler[s])'  BY <1>1 DEF Progress
<1>5. AtWork(s)'  BY <1>1 DEF AtWork
<1>6. WaitHolds'  BY <1>1, <1>3, <1>4, <1>5 DEF WaitHolds
<1> QED  BY <1>1, <1>6 DEF ServerInv, PutHolds, UnsureHolds, AckHolds

LEMMA ServerStep ==
  ASSUME MirrorTyped, TodoHolds, WalkInv, ServerInv, [MirrorNext]_mirrorVars
  PROVE  ServerInv'
<1>1. FolderTyped /\ DaemonTyped  BY MirrorParts
<1>2. Begun.pc = "walk" /\ NoFlush.pc = "idle"  BY <1>1, BegunTyped DEF NoFlush
<1>3. ASSUME NEW p \in Paths, Ripen(p) PROVE ServerInv'
  BY <1>3, ServerKept DEF Ripen, server
<1>4. ASSUME NEW p \in Paths, NEW c \in FileContent, Write(p, c) PROVE ServerInv'
  BY <1>4, ServerKept DEF Write, server
<1>5. CASE MakeFolder  BY <1>5, ServerKept DEF MakeFolder, server
<1>6. CASE Move
  <2>1. watcher'.acked = Nobody /\ flush' = NoFlush  BY <1>6, MoveTyped, NewDoes
  <2> QED  BY <1>2, <2>1, ServerQuiet
<1>7. CASE Reconcile
  <2>1. watcher'.acked = Nobody  BY <1>1, <1>7, NewDoes DEF Reconcile, FolderTyped
  <2>2. flush'.pc = "idle"  BY <1>7 DEF Reconcile, WalkInv, Untold
  <2> QED  BY <2>1, <2>2, ServerQuiet
<1>8. CASE EventArrives  BY <1>8, EventDoes, ServerKept DEF EventArrives, server, SameMemory
<1>9. ASSUME TimerFires \/ FlushNow \/ FlushNowAgain PROVE ServerInv'
  <2>1. UNCHANGED <<orphans, handler, rows, stored, disturbed>>
    BY <1>9 DEF TimerFires, FlushNow, FlushNowAgain, server
  <2>2. watcher'.acked = watcher.acked /\ watcher'.unsure = watcher.unsure
    BY <1>9, TimerDoes, ForceDoes, ForceAgainDoes DEF SameMemory
  <2>3. flush' \in {flush, Begun}  BY <1>9, TimerDoes, ForceDoes, ForceAgainDoes
  <2>4. CASE flush' = flush  BY <2>1, <2>2, <2>4, ServerKept
  <2>5. CASE flush' = Begun  BY <1>2, <2>1, <2>2, <2>5, ServerQuiet
  <2> QED  BY <2>3, <2>4, <2>5
<1>10. ASSUME NEW p \in Paths, Stat(p) PROVE ServerInv'
  BY <1>10, StatDoes, ServerQuiet DEF Stat, server
<1>11. ASSUME NEW p \in Paths, Hash(p) PROVE ServerInv'
  <2>1. flush'.pc = "walk"  BY <1>11, HashDoes, MirrorNames DEF WalkInv, WalkHolds
  <2> QED  BY <1>11, <2>1, ServerQuiet DEF Hash, server
<1>12. CASE Skip  BY <1>2, <1>12, SkipDoes, ServerQuiet DEF Skip, server, Ended
<1>13. CASE FlushEnds
  <2>1. flush.pc = "put" /\ flush.need = {} /\ flush' = NoFlush  BY <1>13, FlushEndsDoes DEF Ended
  <2>2. UNCHANGED <<orphans, handler, rows, stored, disturbed>>  BY <1>13 DEF FlushEnds, server
  <2>3. CASE watcher'.acked = watcher.acked /\ watcher'.unsure = watcher.unsure
    BY <1>2, <2>1, <2>2, <2>3, ServerQuiet
  <2>4. CASE flush.failed = {} /\ watcher'.acked = flush.m
    <3>1. AckHolds'  BY <2>1, <2>2, <2>4 DEF ServerInv, PutHolds, AckHolds, Behind, AtWork
    <3> QED  BY <1>2, <2>1, <3>1 DEF ServerInv, WaitHolds, PutHolds, UnsureHolds
  <2> QED  BY <1>13, <2>3, <2>4, FlushEndsDoes
<1>14. ASSUME NEW s \in Slots, Post(s) PROVE ServerInv'  BY <1>14, PostServes
<1>15. ASSUME NEW c \in Contents, PutBlob(c) PROVE ServerInv'
  <2>1. UNCHANGED <<orphans, handler, rows, disturbed, watcher>>  BY <1>15 DEF PutBlob
  <2>2. /\ flush.pc = "put" /\ flush'.pc = "put" /\ flush'.m = flush.m
        /\ stored \cup flush.need \cup flush.failed \subseteq stored' \cup flush'.need \cup flush'.failed
    BY <1>15, PutDoes
  <2>3. PutHolds'  BY <2>1, <2>2 DEF ServerInv, PutHolds, Behind, AtWork
  <2>4. watcher.unsure  BY <2>2 DEF ServerInv, UnsureHolds
  <2> QED  BY <2>1, <2>2, <2>3, <2>4 DEF ServerInv, WaitHolds, UnsureHolds, AckHolds
<1>16. CASE Lost  BY <1>2, <1>16, LostDoes, ServerQuiet DEF Lost, server, Ended
<1>17. CASE GiveUp  BY <1>2, <1>17, GiveUpDoes, ServerQuiet DEF GiveUp, server, Ended, SameMemory
<1>18. ASSUME NEW s \in Slots, NEW p \in Paths, Upsert(s, p) PROVE ServerInv'  BY <1>18, UpsertServes
<1>19. ASSUME NEW s \in Slots, StoreInline(s) PROVE ServerInv'  BY <1>19, StoreInlineServes
<1>20. ASSUME NEW s \in Slots, Tombstone(s) PROVE ServerInv'  BY <1>20, TombstoneServes
<1>21. ASSUME NEW s \in Slots, NEW m \in orphans, PostOrphan(s, m) PROVE ServerInv'
  <2>1. UNCHANGED <<flush, watcher, rows, stored, disturbed>> /\ handler[s].pc = "idle" /\ Arrives(s, m, {})
    BY <1>21 DEF PostOrphan
  <2>2. m \in Manifest /\ {} \in SUBSET Contents  BY <1>1 DEF DaemonTyped
  <2>3. \A t \in Slots \ {s} : handler'[t].pc = handler[t].pc /\ handler'[t].m = handler[t].m
    BY <2>1, <2>2, ArrivesDoes
  <2>4. orphans # {}  OBVIOUS
  <2>5. WaitHolds'  BY <2>1, <2>3, <2>4 DEF ServerInv, WaitHolds, Behind, AtWork
  <2>6. PutHolds' /\ AckHolds'  BY <2>1, <2>4 DEF ServerInv, PutHolds, AckHolds, Behind
  <2> QED  BY <2>1, <2>5, <2>6 DEF ServerInv, UnsureHolds
<1>22. CASE DaemonRestart  BY <1>2, <1>22, ServerQuiet DEF DaemonRestart, Closed
<1>23. CASE ServerRestart
  <2>1. flush.pc = "wait" /\ flush' = NoFlush /\ watcher'.unsure = watcher.unsure
    BY <1>23, GiveUpDoes DEF Ended, SameMemory
  <2>2. watcher'.unsure  BY <2>1 DEF ServerInv, UnsureHolds
  <2> QED  BY <1>2, <2>1, <2>2 DEF ServerInv, WaitHolds, PutHolds, UnsureHolds, AckHolds
<1>24. CASE UNCHANGED mirrorVars  BY <1>24, ServerKept DEF mirrorVars
<1> QED
  BY <1>3, <1>4, <1>5, <1>6, <1>7, <1>8, <1>9, <1>10, <1>11, <1>12, <1>13, <1>14, <1>15, <1>16, <1>17, <1>18, <1>19,
     <1>20, <1>21, <1>22, <1>23, <1>24, Zenon
  DEF MirrorNext, FlushStep, ServeStep

(***************************************************************************)
(* All of it is inductive, with any number of files, requests, writes and  *)
(* faults.                                                                 *)
(***************************************************************************)
MirrorInv == MirrorTyped /\ TodoHolds /\ CachesHold /\ WalkInv /\ ServerInv

LEMMA MirrorStarts == MirrorInit => MirrorInv
<1> SUFFICES ASSUME MirrorInit PROVE MirrorInv  OBVIOUS
<1>1. /\ told = FALSE /\ event = FALSE /\ watcher = Closed /\ flush = NoFlush /\ forced = NoForce
      /\ handler = [s \in Slots |-> NoHandler]
  BY DEF MirrorInit
<1>2. TodoHolds  BY <1>1 DEF TodoHolds, NoHandler
<1>3. watcher.cache = NoCache /\ flush.cache = NoCache  BY <1>1 DEF Closed, NoFlush
<1>4. CachesHold  BY <1>3, NoEntrySafe DEF CachesHold
<1>5. WalkInv
  BY <1>1 DEF WalkInv, SinceHolds, WalkHolds, WalkFresh, Untold, Closed, NoFlush, NoForce
<1>6. ServerInv
  BY <1>1 DEF ServerInv, WaitHolds, PutHolds, UnsureHolds, AckHolds, Closed, NoFlush
<1> QED  BY <1>2, <1>4, <1>5, <1>6, MirrorStartTyped DEF MirrorInv

LEMMA MirrorStays == MirrorInv /\ [MirrorNext]_mirrorVars => MirrorInv'
BY MirrorTypedStep, CachesStep, WalkStep, ServerStep DEF MirrorInv

LEMMA MirrorAlways == MirrorSpec => []MirrorInv
<1>1. MirrorSpec => MirrorInit /\ [][MirrorNext]_mirrorVars  BY PTL DEF MirrorSpec
<1> QED  BY <1>1, MirrorStarts, MirrorStays, PTL

(* Only the end of a flush lets the report go on without a fault. *)
Fresh == forced.pc = "own" /\ forced' = NoForce /\ faults' = faults /\ Succeeds /\ ~disturbed'
         => \A p \in Paths : rows'[p] \in forced.since[p] /\ rows'[p] \in stored' \cup {Absent}

LEMMA FreshStep == MirrorInv /\ [MirrorNext]_mirrorVars => [Fresh]_mirrorVars
<1> SUFFICES ASSUME MirrorInv, MirrorNext, forced.pc = "own", forced' = NoForce, faults' = faults,
                    Succeeds, ~disturbed', NEW p \in Paths
             PROVE  rows'[p] \in forced.since[p] /\ rows'[p] \in stored' \cup {Absent}
  BY DEF Fresh
<1> USE DEF MirrorInv
<1>1. forced' # forced /\ forced'.pc = "idle"  BY DEF NoForce
<1>2. ~Fault  BY FaultTyped
<1>3. CASE Skip
  <2>1. /\ Walked /\ flush.m = watcher.acked /\ watcher'.acked = watcher.acked
        /\ disturbed' = (disturbed \/ watcher.unsure) /\ UNCHANGED <<rows, stored>>
    BY <1>3, SkipDoes DEF Skip, server
  <2>2. watcher.acked # Nobody  BY <2>1 DEF Succeeds
  <2>3. rows[p] = flush.m[p] /\ rows[p] \in stored \cup {Absent}  BY <2>1, <2>2 DEF ServerInv, AckHolds
  <2>4. flush.m[p] \in forced.since[p]  BY <2>1, MirrorNames DEF Walked, WalkInv, WalkFresh
  <2> QED  BY <2>1, <2>3, <2>4
<1>4. CASE FlushEnds
  <2>1. flush.pc = "put" /\ flush.need = {} /\ flush.failed = {}  BY <1>4, FlushEndsDoes DEF Succeeds
  <2>2. UNCHANGED <<rows, stored, disturbed>>  BY <1>4 DEF FlushEnds, server
  <2>3. rows[p] = flush.m[p] /\ rows[p] \in stored \cup {Absent}  BY <2>1, <2>2 DEF ServerInv, PutHolds
  <2>4. flush.todo = {} /\ flush.at = Nobody  BY <2>1 DEF WalkInv, WalkHolds
  <2>5. flush.m[p] \in forced.since[p]  BY <2>4, MirrorNames DEF WalkInv, WalkFresh
  <2> QED  BY <2>2, <2>3, <2>5
<1>5. ASSUME NEW q \in Paths, NEW c \in FileContent, Write(q, c) PROVE FALSE  BY <1>1, <1>5, WriteDoes
<1>6. ~FlushNow /\ ~FlushNowAgain  BY DEF FlushNow, FlushNowAgain
<1>7. ~Move /\ ~Lost /\ ~GiveUp /\ ~DaemonRestart /\ ~ServerRestart
  BY <1>2 DEF Move, Lost, GiveUp, DaemonRestart, ServerRestart
<1> QED
  BY <1>1, <1>3, <1>4, <1>5, <1>6, <1>7, Zenon
  DEF MirrorNext, FlushStep, ServeStep, Ripen, MakeFolder, Reconcile,
      EventArrives, TimerFires, Stat, Hash, Post, PutBlob, Upsert,
      StoreInline, Tombstone, PostOrphan, daemon

(* MirrorTypeOK: the folder, its watcher, the flushes and the requests have *)
(* their shapes (watcher.ts, gateway/sync.ts).                              *)
THEOREM MirrorTypeOKHolds == MirrorSpec => []MirrorTypeOK
<1>1. MirrorInv => MirrorTypeOK  BY DEF MirrorInv, MirrorTyped
<1> QED  BY <1>1, MirrorAlways, PTL

(* When the flush that a report waits for has come through, and no request was *)
(* overtaken on the way, the server's rows are no older than the moment it was *)
(* asked for, and their bytes are there (watcher.ts flushNow, runFlush;        *)
(* gateway/sync.ts), with any number of files, requests, writes and faults.    *)
THEOREM ForcedFlushIsFreshHolds == MirrorSpec => ForcedFlushIsFresh
<1>1. MirrorSpec => [][MirrorNext]_mirrorVars  BY PTL DEF MirrorSpec
<1>2. MirrorSpec => [][Fresh]_mirrorVars  BY <1>1, FreshStep, MirrorAlways, PTL
<1> QED  BY <1>2 DEF ForcedFlushIsFresh, Fresh
=============================================================================
