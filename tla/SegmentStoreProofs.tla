------------------------- MODULE SegmentStoreProofs -------------------------
(* Safety of SegmentStore, for every value of its constants.                *)
EXTENDS SegmentStoreTypes

-----------------------------------------------------------------------------
(* One writable tail.                                                      *)

\* Rotation seals the only active segment before it adds the new one.
LEMMA RotatedOneTail ==
  ASSUME t \in Table, NEW id \in Nat \ {0}, NEW day \in Int,
         ActiveIsLast(t.segments)
  PROVE  ActiveIsLast(Rotated(id, day).segments)
<1>. DEFINE sealed == Sealed(t.segments)
            new == FreshSegment(id, day)
<1>0. t.segments \in Seq(Segment) /\ Len(t.segments) \in Nat
        /\ \A i \in 1 .. Len(t.segments) : t.segments[i] \in Segment
  BY TableFields
<1>1. sealed \in Seq(Segment) /\ Len(sealed) = Len(t.segments)
  BY <1>0, SealedType
<1>2. \A i \in 1 .. Len(sealed) : sealed[i].state # "ACTIVE"
  BY ZenonT(30), <1>0, <1>1 DEF Sealed, ActiveIsLast, Segment
<1>. HIDE DEF sealed, new
<1>3. Rotated(id, day).segments = Append(sealed, new)
  BY DEF Rotated, Table, sealed, new
<1>. QED BY <1>1, <1>2, <1>3 DEF ActiveIsLast

\* Retention only takes segments out of the active state.
LEMMA RetiredOneTail ==
  ASSUME t \in Table, NEW now, ActiveIsLast(t.segments)
  PROVE  ActiveIsLast(Retired(now).segments)
<1>0. t.segments \in Seq(Segment) /\ Len(t.segments) \in Nat
        /\ \A i \in 1 .. Len(t.segments) : t.segments[i] \in Segment
  BY TableFields
<1>. DEFINE segments == RetiredSegments(now)
<1>1. Len(segments) = Len(t.segments)
        /\ \A i \in 1 .. Len(t.segments) :
             segments[i].state = "ACTIVE" => t.segments[i].state = "ACTIVE"
  BY <1>0 DEF RetiredSegments, Segment
<1>. HIDE DEF segments
<1>2. Retired(now).segments = segments
  BY DEF Retired, Table, segments
<1>. QED BY <1>1, <1>2 DEF ActiveIsLast

\* Recovery leaves every state as the manifest has it.
LEMMA RecoveredOneTail ==
  ASSUME NEW m \in Manifest, NEW indexed, Recovers(m, indexed),
         files \in [DOMAIN files -> File], ActiveIsLast(m.segments)
  PROVE  ActiveIsLast(RecoveredTable(m).segments)
<1>1. m.segments \in Seq(Segment) /\ Len(m.segments) \in Nat
        /\ \A i \in 1 .. Len(m.segments) : m.segments[i] \in Segment
  BY DEF Manifest
<1>2. ASSUME NEW i \in 1 .. Len(m.segments), m.segments[i].state = "ACTIVE"
      PROVE  Scanned(m.segments[i]).state = "ACTIVE"
  <2>1. Exists(Path(m.segments[i]))
    BY <1>2 DEF Recovers, SegmentRecovers
  <2>. QED BY <1>1, <1>2, <2>1, ScannedType
<1>3. RecoveredTable(m).segments = RecoveredSegments(m)
  BY DEF RecoveredTable
<1>. QED BY <1>1, <1>2, <1>3 DEF RecoveredSegments, ActiveIsLast

\* No step leaves a second active segment in memory, staged or on disk.
LEMMA OneTailNext == TypeInv /\ OneTail /\ [Next]_vars => OneTail'
<1>. SUFFICES ASSUME TypeInv, OneTail, [Next]_vars PROVE OneTail'
  OBVIOUS
<1>0. t \in Table /\ staged \in Table /\ frame \in Frame /\ manifest \in Manifest
        /\ files \in [DOMAIN files -> File]
  BY DEF TypeInv, TypeOK
<1>e. ActiveIsLast(NoTable.segments)
  BY DEF ActiveIsLast, NoTable
<1>. USE <1>e DEF OneTail, disk, lock, readers, history, Release
<1>1. CASE UNCHANGED vars
  BY <1>1 DEF vars
<1>2. CASE AppendStep
  <2>1. CASE CreateFile
    <3>. DEFINE day == Day(frame.min)
                id == First(FreeIds(day))
    <3>1. day \in Int /\ id \in Nat \ {0}
      BY <2>1, FreshId
    <3>2. staged' = Rotated(id, day)
      BY <2>1 DEF CreateFile
    <3>. HIDE DEF day, id
    <3>3. ActiveIsLast(staged'.segments)
      BY <1>0, <3>1, <3>2, RotatedOneTail
    <3>. QED BY <2>1, <3>3 DEF CreateFile
  <2>2. CASE Publish
    <3>. DEFINE n == Len(t.segments)
                segments == [t.segments EXCEPT ![n] = Extended(t.segments[n])]
    <3>1. n \in 1 .. n /\ t.segments[n] \in Segment /\ t.segments \in Seq(Segment)
      BY <1>0, <2>2, TableFields DEF Publish, TypeInv, Positions, Writing
    <3>2. Extended(t.segments[n]).state = t.segments[n].state
      BY <3>1 DEF Extended, Segment
    <3>3. ActiveIsLast(segments)
      BY <3>1, <3>2 DEF ActiveIsLast
    <3>4. t'.segments = segments
      BY <1>0, <2>2 DEF Publish, Table
    <3>. HIDE DEF segments
    <3>. QED BY <2>2, <3>3, <3>4 DEF Publish
  <2>3. CASE WriteFails
    BY <1>0, <2>3 DEF WriteFails, ReturnUncertain, Table
  <2>. QED
    BY <1>2, <2>1, <2>2, <2>3
       DEF AppendStep, AppendBegin, RotateFails, IdsExhausted, ReserveFails,
           WritePart, WriteRest, SyncFrame, Return
<1>3. CASE InstallStep
  <2>1. CASE Rename
    BY <2>1 DEF Rename, ManifestOf
  <2>2. CASE InstallFails
    BY <2>2 DEF InstallFails, Return
  <2>3. CASE SyncDirectory
    <3>1. t'.segments \in {staged.segments, t.segments}
      BY ZenonT(30), <1>0, <2>3 DEF SyncDirectory, Table
    <3>2. staged' = NoTable /\ installed' = manifest /\ UNCHANGED manifest
      BY <2>3 DEF SyncDirectory
    <3>. QED BY <3>1, <3>2
  <2>4. CASE SyncDirectoryFails
    BY <1>0, <2>4 DEF SyncDirectoryFails, ReturnUncertain, Table
  <2>. QED BY <1>3, <2>1, <2>2, <2>3, <2>4 DEF InstallStep
<1>4. CASE RetentionStep
  <2>1. ASSUME NEW d \in Retention, SetRetention(d) PROVE OneTail'
    BY <1>0, <2>1 DEF SetRetention, Table
  <2>2. ASSUME NEW now \in 0 .. MaxNow, RetentionApply(now) PROVE OneTail'
    BY <1>0, <2>2, RetiredOneTail DEF RetentionApply
  <2>3. ASSUME NEW r \in Reader, CleanupBegin(r) PROVE OneTail'
    BY <2>3 DEF CleanupBegin
  <2>4. CASE CleanupEnd \/ CleanupFails
    BY ZenonT(30), <1>0, <2>4 DEF CleanupEnd, CleanupFails, CleanupDone, Table
  <2>5. CASE CleanupCheck \/ Unlink
    BY <2>5 DEF CleanupCheck, Unlink
  <2>. QED BY <1>4, <2>1, <2>2, <2>3, <2>4, <2>5 DEF RetentionStep
<1>5. CASE ReaderStep
  BY <1>5 DEF ReaderStep, Acquire, ReleaseSnapshot
<1>6. CASE RecoveryStep
  <2>1. CASE Crash
    BY <2>1 DEF Crash
  <2>2. ASSUME NEW indexed \in SUBSET (1 .. Len(manifest.segments)), Open(indexed)
        PROVE  OneTail'
    <3>1. ActiveIsLast(t'.segments)
      BY Zenon, <1>0, <2>2, RecoveredOneTail DEF Open
    <3>. QED BY Zenon, <2>2, <3>1 DEF Open
  <2>3. ASSUME NEW indexed \in SUBSET (1 .. Len(manifest.segments)),
               OpenInterrupted(indexed) \/ OpenCorrupt(indexed)
        PROVE  OneTail'
    BY <2>3 DEF OpenInterrupted, OpenCorrupt
  <2>. QED BY Zenon, <1>6, <2>1, <2>2, <2>3 DEF RecoveryStep
<1>. QED BY <1>1, <1>2, <1>3, <1>4, <1>5, <1>6 DEF Next

\* One writable tail, for any number of rotations, retirements, failures and
\* restarts: only the last segment of the table, of a staged manifest and of
\* the manifest on disk can be active (create_active, wadb_retention_apply).
THEOREM OneTailAlways == Spec => []OneTail
<1>1. Init => OneTail
  BY DEF Init, OneTail, ActiveIsLast, ManifestOf, NoTable
<1>. QED BY <1>1, OneTailNext, TypeInvariant, PTL DEF Spec

-----------------------------------------------------------------------------
(* What a step does to the frames in the files.                            *)

\* Only write_all changes the frames of a file: a new file has none, and
\* synchronization, truncation of a torn tail and deletion leave them.
LEMMA FramesStep ==
  ASSUME TypeInv, [Next]_vars, ~WriteRest
  PROVE  /\ \A k \in DOMAIN files \cap DOMAIN files' :
              files'[k].frames = files[k].frames
         /\ \A k \in DOMAIN files' \ DOMAIN files : files'[k].frames = << >>
<1>0. files \in [DOMAIN files -> File]
        /\ \A k \in DOMAIN files : files[k] \in File
  BY DEF TypeInv, TypeOK
<1>. DEFINE Goal == /\ \A k \in DOMAIN files \cap DOMAIN files' :
                         files'[k].frames = files[k].frames
                    /\ \A k \in DOMAIN files' \ DOMAIN files :
                         files'[k].frames = << >>
<1>. USE DEF disk, lock, readers, history
<1>1. CASE UNCHANGED files
  BY <1>1
<1>2. CASE CreateFile
  <2>. DEFINE k0 == <<Day(frame.min), First(FreeIds(Day(frame.min)))>>
  <2>1. k0 \notin DOMAIN files
    BY <1>2, FreshId
  <2>2. /\ DOMAIN files' = DOMAIN files \cup {k0}
        /\ files'[k0].frames = << >>
        /\ \A k \in DOMAIN files : k # k0 => files'[k] = files[k]
    <3>. HIDE DEF TypeInv
    <3>. QED BY <1>2 DEF CreateFile
  <2>. HIDE DEF k0
  <2>. QED BY <2>1, <2>2
<1>3. CASE WritePart
  BY <1>0, <1>3 DEF WritePart, File
<1>4. CASE SyncFrame
  BY <1>0, <1>4 DEF SyncFrame, File
<1>5. CASE Unlink \/ CleanupFails
  BY Zenon, <1>1, <1>5 DEF Unlink, CleanupFails
<1>6. ASSUME NEW indexed, Open(indexed) \/ OpenInterrupted(indexed)
      PROVE  Goal
  BY ZenonT(30), <1>0, <1>6 DEF Open, OpenInterrupted, File
<1>7. \/ UNCHANGED files \/ CreateFile \/ WritePart \/ SyncFrame \/ Unlink
      \/ CleanupFails \/ \E indexed : Open(indexed) \/ OpenInterrupted(indexed)
  <2>1. CASE AppendStep
    BY <2>1 DEF AppendStep, AppendBegin, RotateFails, IdsExhausted, ReserveFails,
                WriteFails, Publish
  <2>2. CASE InstallStep
    BY <2>2 DEF InstallStep, Rename, InstallFails, SyncDirectory,
                SyncDirectoryFails
  <2>3. CASE RetentionStep
    BY Zenon, <2>3 DEF RetentionStep, SetRetention, RetentionApply, CleanupBegin,
                CleanupCheck, CleanupEnd
  <2>4. CASE ReaderStep
    BY SMTT(30), <2>4 DEF ReaderStep, Acquire, ReleaseSnapshot
  <2>5. CASE RecoveryStep
    BY <2>5 DEF RecoveryStep, Crash, OpenCorrupt
  <2>6. CASE UNCHANGED vars
    BY <2>6 DEF vars
  <2>. QED BY <2>1, <2>2, <2>3, <2>4, <2>5, <2>6 DEF Next
<1>. QED BY <1>1, <1>2, <1>3, <1>4, <1>5, <1>6, <1>7

-----------------------------------------------------------------------------
(* An uncertain outcome stops mutation.                                    *)

\* A table that needs recovery has no append or installation in progress.
Halted == t.read_only => pc \in {"idle", "cleanup", "unlink"}

\* Every way to set read_only leaves writer_mutex, and every mutation checks it.
LEMMA HaltedNext == TypeInv /\ Halted /\ [Next]_vars => Halted'
<1>. SUFFICES ASSUME TypeInv, Halted, [Next]_vars PROVE Halted'
  OBVIOUS
<1>0. t \in Table
  BY DEF TypeInv, TypeOK
<1>. USE DEF Halted, disk, lock, readers, history, Release
<1>1. CASE UNCHANGED vars
  BY <1>1 DEF vars
<1>2. CASE AppendStep
  BY SMTT(30), <1>0, <1>2 DEF AppendStep, AppendBegin, RotateFails, CreateFile,
              IdsExhausted, ReserveFails, WritePart, WriteRest, WriteFails, SyncFrame,
              Publish, Return, ReturnUncertain
<1>3. CASE InstallStep
  <2>1. CASE Rename \/ InstallFails \/ SyncDirectoryFails
    BY <2>1 DEF Rename, InstallFails, SyncDirectoryFails, Return, ReturnUncertain
  <2>2. CASE SyncDirectory
    <3>1. t'.read_only = t.read_only
      BY Zenon, <1>0, <2>2 DEF SyncDirectory, Table
    <3>. QED BY <2>2, <3>1 DEF SyncDirectory
  <2>. QED BY <1>3, <2>1, <2>2 DEF InstallStep
<1>4. CASE RetentionStep
  BY <1>0, <1>4 DEF RetentionStep, SetRetention, RetentionApply, CleanupBegin,
              CleanupCheck, Unlink, CleanupEnd, CleanupFails, CleanupDone
<1>5. CASE ReaderStep
  BY <1>5 DEF ReaderStep, Acquire, ReleaseSnapshot
<1>6. CASE RecoveryStep
  <2>1. CASE Crash
    BY <2>1 DEF Crash, NoTable
  <2>2. ASSUME NEW indexed, Open(indexed) PROVE Halted'
    BY Zenon, <2>2 DEF Open, RecoveredTable
  <2>3. ASSUME NEW indexed, OpenInterrupted(indexed) \/ OpenCorrupt(indexed)
        PROVE  Halted'
    BY <2>3 DEF OpenInterrupted, OpenCorrupt
  <2>. QED BY <1>6, <2>1, <2>2, <2>3 DEF RecoveryStep
<1>. QED BY <1>1, <1>2, <1>3, <1>4, <1>5, <1>6 DEF Next

\* Only rename changes the manifest.
LEMMA ManifestStep ==
  ASSUME [Next]_vars, ~Rename
  PROVE  UNCHANGED manifest
<1>. USE DEF disk
<1>1. CASE AppendStep
  BY <1>1 DEF AppendStep, AppendBegin, RotateFails, CreateFile, IdsExhausted,
              ReserveFails, WritePart, WriteRest, WriteFails, SyncFrame, Publish
<1>2. CASE InstallStep
  BY <1>2 DEF InstallStep, InstallFails, SyncDirectory, SyncDirectoryFails
<1>3. CASE RetentionStep
  BY Zenon, <1>3 DEF RetentionStep, SetRetention, RetentionApply, CleanupBegin,
              CleanupCheck, Unlink, CleanupEnd, CleanupFails
<1>4. CASE ReaderStep
  BY <1>4 DEF ReaderStep, Acquire, ReleaseSnapshot
<1>5. CASE RecoveryStep
  BY Zenon, <1>5 DEF RecoveryStep, Crash, Open, OpenInterrupted, OpenCorrupt
<1>6. CASE UNCHANGED vars
  BY <1>6 DEF vars
<1>. QED BY <1>1, <1>2, <1>3, <1>4, <1>5, <1>6 DEF Next

-----------------------------------------------------------------------------
(* A table that accepts mutations is as the disk has it.                   *)

\* The manifest m names the table's segments and has its marks.
Records(m, table) ==
  /\ Len(m.segments) = Len(table.segments)
  /\ \A i \in 1 .. Len(table.segments) :
       /\ Path(m.segments[i]) = Path(table.segments[i])
       /\ m.segments[i].state = table.segments[i].state
  /\ m.next_segment_id = table.next_segment_id
  /\ m.preserved_sequence = table.preserved_sequence
  /\ m.preserved_time = table.preserved_time
  /\ m.retention_us = table.retention_us

\* Segment IDs ascend and are below the next one.
Ascending(table) ==
  \A i \in 1 .. Len(table.segments) :
    /\ table.segments[i].id < table.next_segment_id
    /\ \A j \in 1 .. i - 1 : table.segments[j].id < table.segments[i].id

\* The file of the active segment, if any, has n frames more than the table
\* counts, and only an unfinished write may have torn it.
TailFile(fs, table, n, unfinished) ==
  HasActive(table) =>
    LET k == Path(LastSegment(table)) IN
    /\ k \in DOMAIN fs
    /\ Len(fs[k].frames) = LastSegment(table).committed_bytes + n
    /\ fs[k].torn => unfinished

\* What a mutation stages differs from the table only in what it publishes.
Derived(table, next, mutation) ==
  /\ mutation \in {"append", "retain", "configure"}
  /\ mutation # "configure" => next.retention_us = table.retention_us
  /\ mutation # "retain" =>
       /\ next.preserved_sequence = table.preserved_sequence
       /\ next.preserved_time = table.preserved_time
  /\ mutation # "append" => next.next_segment_id = table.next_segment_id
  /\ mutation = "configure" => next.segments = table.segments

\* The table is loaded and accepts mutations.
Running == phase \in {"open", "recovering"} /\ ~t.read_only

\* The frames that are written and not yet published.
Ahead(p) == IF p \in {"sync", "publish"} THEN 1 ELSE 0

\* At every step of a mutation it is known what the manifest and the file of
\* the tail hold: what the table says, or what the mutation has put there.
Known ==
  Running =>
    /\ Ascending(t)
    /\ pc # "dirsync" => Records(manifest, t)
    /\ pc = "dirsync" => manifest = ManifestOf(staged)
    /\ pc \in Installing => /\ Derived(t, staged, job) /\ Ascending(staged)
                            /\ TailFile(files, staged, 0, FALSE)
    /\ TailFile(files, t, Ahead(pc), pc = "writing")
    /\ pc = "unlink" /\ pos # 0 => pos \in RetiredAt(t.segments)

\* Two tables with the same segments and marks.
SameOnDisk(x, y) ==
  /\ x.segments = y.segments /\ x.next_segment_id = y.next_segment_id
  /\ x.preserved_sequence = y.preserved_sequence
  /\ x.preserved_time = y.preserved_time /\ x.retention_us = y.retention_us

\* Such tables agree with the same manifest and the same files.
LEMMA SameKnown ==
  ASSUME NEW x, NEW y, SameOnDisk(x, y), NEW m, NEW fs, NEW n, NEW u
  PROVE  /\ Records(m, x) => Records(m, y)
         /\ Ascending(x) => Ascending(y)
         /\ TailFile(fs, x, n, u) => TailFile(fs, y, n, u)
BY Zenon DEF SameOnDisk, Records, Ascending, TailFile, HasActive, LastSegment

\* A change to other files leaves the tail.
LEMMA TailKept ==
  ASSUME NEW fs, NEW gs, NEW table, NEW n, NEW u, TailFile(fs, table, n, u),
         HasActive(table) =>
           /\ Path(LastSegment(table)) \in DOMAIN gs
           /\ gs[Path(LastSegment(table))] = fs[Path(LastSegment(table))]
  PROVE  TailFile(gs, table, n, u)
BY Zenon DEF TailFile

\* The file of a retired segment is not that of the tail.
LEMMA RetiredNotTail ==
  ASSUME NEW x \in Table, Ascending(x), NEW i \in RetiredAt(x.segments),
         HasActive(x)
  PROVE  Path(x.segments[i]) # Path(LastSegment(x))
<1>1. x.segments \in Seq(Segment) /\ Len(x.segments) \in Nat
        /\ i \in 1 .. Len(x.segments) /\ x.segments[i].state = "RETIRED"
  BY TableFields DEF RetiredAt
<1>2. i # Len(x.segments)
  BY <1>1 DEF HasActive, LastSegment
<1>3. x.segments[i].id \in Nat /\ x.segments[Len(x.segments)].id \in Nat
        /\ Len(x.segments) \in 1 .. Len(x.segments)
  <2>1. Len(x.segments) \in 1 .. Len(x.segments)
    BY <1>1
  <2>2. x.segments[i] \in Segment /\ x.segments[Len(x.segments)] \in Segment
    BY <1>1, <2>1
  <2>. QED BY <2>1, <2>2, SegmentFields
<1>4. x.segments[i].id < x.segments[Len(x.segments)].id
  <2>1. i \in 1 .. Len(x.segments) - 1
    BY <1>1, <1>2
  <2>. QED BY <1>3, <2>1 DEF Ascending
<1>5. x.segments[i].id # x.segments[Len(x.segments)].id
  BY <1>3, <1>4
<1>. QED BY Zenon, <1>5 DEF Path, LastSegment

\* The next segment that cleanup deletes is a retired one.
LEMMA NextIsRetired ==
  ASSUME t \in Table, NEW i \in Nat, NextRetired(i) # 0
  PROVE  NextRetired(i) \in RetiredAt(t.segments)
<1>. DEFINE left == {j \in RetiredAt(t.segments) : j > i}
<1>1. left \in SUBSET Nat
  BY TableFields DEF RetiredAt
<1>2. left # {}
  BY DEF NextRetired
<1>. HIDE DEF left
<1>3. First(left) \in left
  BY Zenon, <1>1, <1>2, FirstIsLeast
<1>4. NextRetired(i) = First(left)
  BY <1>2 DEF NextRetired, left
<1>. QED BY <1>3, <1>4 DEF left

\* A table that takes over the disk state of another agrees with its manifest.
LEMMA RecordsOf ==
  ASSUME NEW x, NEW y, SameOnDisk(x, y)
  PROVE  Records(ManifestOf(x), y)
<1>1. Records(ManifestOf(x), x)
  BY DEF Records, ManifestOf
<1>. QED BY Zenon, <1>1, SameKnown

\* The staged rotation: the fresh ID keeps IDs ascending, and its file is new.
LEMMA RotatedKnown ==
  ASSUME t \in Table, Ascending(t), NEW id \in Nat \ {0}, NEW day \in Int,
         t.next_segment_id <= id
  PROVE  /\ Derived(t, Rotated(id, day), "append")
         /\ Ascending(Rotated(id, day))
         /\ LastSegment(Rotated(id, day)) = FreshSegment(id, day)
<1>. DEFINE sealed == Sealed(t.segments)
            new == FreshSegment(id, day)
            x == Rotated(id, day)
            n == Len(t.segments)
<1>0. /\ t.segments \in Seq(Segment) /\ n \in Nat /\ t.next_segment_id \in Nat
      /\ \A i \in 1 .. n : t.segments[i] \in Segment /\ t.segments[i].id \in Nat
  BY TableFields, SegmentFields
<1>1. sealed \in Seq(Segment) /\ Len(sealed) = n
  BY <1>0, SealedType
<1>2. \A i \in 1 .. n : sealed[i].id = t.segments[i].id
  BY ZenonT(30), <1>0 DEF Sealed, Segment
<1>3. new.id = id /\ new \in Segment
  BY TableFields DEF FreshSegment, Segment, State
<1>. HIDE DEF sealed, new
<1>4. /\ x.segments = Append(sealed, new) /\ x.next_segment_id = id + 1
      /\ x.preserved_sequence = t.preserved_sequence
      /\ x.preserved_time = t.preserved_time /\ x.retention_us = t.retention_us
  BY Zenon DEF Rotated, Table, sealed, new
<1>. HIDE DEF x
<1>5. /\ Len(x.segments) = n + 1 /\ x.segments[n + 1] = new
      /\ \A i \in 1 .. n : x.segments[i].id = t.segments[i].id
  <2>1. \A i \in 1 .. n : Append(sealed, new)[i] = sealed[i]
    BY <1>0, <1>1, <1>3
  <2>2. Len(Append(sealed, new)) = n + 1 /\ Append(sealed, new)[n + 1] = new
    BY <1>0, <1>1, <1>3
  <2>. QED BY Zenon, <1>2, <1>4, <2>1, <2>2
<1>. HIDE DEF n
<1>6. \A i \in 1 .. n : /\ t.segments[i].id < t.next_segment_id
                        /\ \A j \in 1 .. i - 1 : t.segments[j].id < t.segments[i].id
  BY DEF Ascending, n
<1>7. Ascending(x)
  <2>. SUFFICES ASSUME NEW i \in 1 .. n + 1
                PROVE  /\ x.segments[i].id < id + 1
                       /\ \A j \in 1 .. i - 1 : x.segments[j].id < x.segments[i].id
    BY <1>4, <1>5 DEF Ascending
  <2>1. CASE i \in 1 .. n
    <3>1. x.segments[i].id = t.segments[i].id /\ t.segments[i].id < t.next_segment_id
            /\ t.segments[i].id \in Nat
      BY Zenon, <1>0, <1>5, <1>6, <2>1 DEF n
    <3>2. \A j \in 1 .. i - 1 : j \in 1 .. n
      BY <1>0, <2>1 DEF n
    <3>3. \A j \in 1 .. i - 1 : x.segments[j].id < x.segments[i].id
      BY Zenon, <1>5, <1>6, <2>1, <3>1, <3>2
    <3>. QED BY <1>0, <3>1, <3>3
  <2>2. CASE i = n + 1
    <3>1. x.segments[i].id = id
      BY Zenon, <1>3, <1>5, <2>2
    <3>2. 1 .. i - 1 = 1 .. n
      BY <1>0, <2>2 DEF n
    <3>3. ASSUME NEW j \in 1 .. n PROVE x.segments[j].id < id
      <4>1. /\ x.segments[j].id = t.segments[j].id /\ t.segments[j].id \in Nat
            /\ t.segments[j].id < t.next_segment_id
        BY Zenon, <1>0, <1>5, <1>6 DEF n
      <4>. QED BY <1>0, <4>1
    <3>4. id < id + 1
      OBVIOUS
    <3>. QED BY Zenon, <3>1, <3>2, <3>3, <3>4
  <2>. QED BY <1>0, <2>1, <2>2
<1>. QED BY <1>4, <1>5, <1>7 DEF Derived, LastSegment, x, new

\* The staged retirement: IDs stay, and the tail stays or is no longer active.
LEMMA RetiredKnown ==
  ASSUME t \in Table, Ascending(t), NEW now, NEW fs, TailFile(fs, t, 0, FALSE)
  PROVE  /\ Derived(t, Retired(now), "retain") /\ Ascending(Retired(now))
         /\ TailFile(fs, Retired(now), 0, FALSE)
<1>. DEFINE x == Retired(now)
            n == Len(t.segments)
<1>0. /\ t.segments \in Seq(Segment) /\ n \in Nat
      /\ \A i \in 1 .. n : t.segments[i] \in Segment
  BY TableFields
<1>1. /\ x.segments = RetiredSegments(now)
      /\ x.next_segment_id = t.next_segment_id /\ x.retention_us = t.retention_us
  BY Zenon DEF Retired, Table
<1>. HIDE DEF x
<1>2. Len(x.segments) = n
  BY <1>0, <1>1 DEF RetiredSegments
<1>3. \A i \in 1 .. n :
        /\ x.segments[i].id = t.segments[i].id
        /\ x.segments[i].state = "ACTIVE" => x.segments[i] = t.segments[i]
  BY ZenonT(30), <1>0, <1>1 DEF RetiredSegments, Segment
<1>4. Ascending(x)
  <2>. SUFFICES ASSUME NEW i \in 1 .. n
                PROVE  /\ x.segments[i].id < x.next_segment_id
                       /\ \A j \in 1 .. i - 1 : x.segments[j].id < x.segments[i].id
    BY <1>2 DEF Ascending
  <2>1. \A j \in 1 .. i - 1 : j \in 1 .. n
    BY <1>0
  <2>. QED BY Zenon, <1>1, <1>3, <2>1 DEF Ascending
<1>5. HasActive(x) => HasActive(t) /\ LastSegment(x) = LastSegment(t)
  <2>. SUFFICES ASSUME HasActive(x)
                PROVE  HasActive(t) /\ LastSegment(x) = LastSegment(t)
    OBVIOUS
  <2>1. x.segments \in Seq(Segment)
    <3>1. \A i \in 1 .. n : [t.segments[i] EXCEPT !.state = "RETIRED"] \in Segment
      BY Zenon, <1>0, StateType DEF State
    <3>. QED BY <1>0, <1>1, <3>1 DEF RetiredSegments
  <2>2. n \in 1 .. n
    BY <1>0, <1>2, <2>1 DEF HasActive
  <2>3. x.segments[n] = t.segments[n] /\ x.segments[n].state = "ACTIVE"
    BY Zenon, <1>2, <1>3, <2>2 DEF HasActive, LastSegment
  <2>4. t.segments # << >>
    BY <1>0, <2>2
  <2>. QED BY Zenon, <1>2, <2>3, <2>4 DEF HasActive, LastSegment
<1>6. TailFile(fs, x, 0, FALSE)
  BY Zenon, <1>5 DEF TailFile
<1>. QED BY Zenon, <1>1, <1>4, <1>6 DEF Derived, x

\* Recovery: the table is what the manifest and the scanned tail say.
LEMMA RecoveredKnown ==
  ASSUME TypeInv, NEW indexed, Open(indexed)
  PROVE  /\ Ascending(t') /\ Records(manifest, t')
         /\ TailFile(files', t', 0, FALSE)
<1>. DEFINE m == manifest
            n == Len(m.segments)
            x == RecoveredTable(m)
<1>0. /\ m \in Manifest /\ files \in [DOMAIN files -> File]
      /\ Recovers(m, indexed) /\ t' = x
  BY Zenon DEF Open, TypeInv, TypeOK
<1>1. /\ m.segments \in Seq(Segment) /\ n \in Nat
      /\ \A i \in 1 .. n : m.segments[i] \in Segment
  BY <1>0 DEF Manifest
<1>2. /\ x.segments = RecoveredSegments(m)
      /\ x.next_segment_id = m.next_segment_id
      /\ x.preserved_sequence = m.preserved_sequence
      /\ x.preserved_time = m.preserved_time /\ x.retention_us = m.retention_us
  BY Zenon DEF RecoveredTable
<1>. HIDE DEF x
<1>3. Len(x.segments) = n
  BY <1>1, <1>2 DEF RecoveredSegments
<1>4. \A s \in Segment : /\ Scanned(s).id = s.id
                         /\ Scanned(s).day_start = s.day_start
                         /\ Scanned(s).state = s.state
                         /\ Scanned(s).committed_bytes = Len(files[Path(s)].frames)
  BY ZenonT(30) DEF Scanned, Segment
<1>5. \A i \in 1 .. n : x.segments[i] = IF m.segments[i].state = "ACTIVE"
                                        THEN Scanned(m.segments[i])
                                        ELSE m.segments[i]
  BY Zenon, <1>2 DEF RecoveredSegments
<1>6. \A i \in 1 .. n : /\ x.segments[i].id = m.segments[i].id
                        /\ Path(x.segments[i]) = Path(m.segments[i])
                        /\ x.segments[i].state = m.segments[i].state
  BY Zenon, <1>1, <1>4, <1>5 DEF Path
<1>7. Records(m, x)
  BY Zenon, <1>2, <1>3, <1>6 DEF Records
<1>8. Ascending(x)
  <2>. SUFFICES ASSUME NEW i \in 1 .. n
                PROVE  /\ x.segments[i].id < x.next_segment_id
                       /\ \A j \in 1 .. i - 1 : x.segments[j].id < x.segments[i].id
    BY <1>3 DEF Ascending
  <2>1. \A j \in 1 .. i - 1 : j \in 1 .. n
    BY <1>1
  <2>2. /\ m.segments[i].id < m.next_segment_id
        /\ \A j \in 1 .. i - 1 : m.segments[j].id < m.segments[i].id
    BY Zenon, <1>0 DEF Recovers, ManifestValid
  <2>. QED BY Zenon, <1>2, <1>6, <2>1, <2>2
<1>9. TailFile(files', x, 0, FALSE)
  <2>. DEFINE s == m.segments[n]
              k == Path(LastSegment(x))
  <2>. SUFFICES ASSUME HasActive(x)
                PROVE  /\ k \in DOMAIN files' /\ ~files'[k].torn
                       /\ Len(files'[k].frames)
                            = LastSegment(x).committed_bytes + 0
    BY DEF TailFile
  <2>1. n \in 1 .. n
    <3>1. x.segments # << >> /\ x.segments \in Seq(Segment)
      BY Zenon, <1>0, RecoveredType, TableFields DEF HasActive, x
    <3>. QED BY <1>3, <3>1
  <2>2. s.state = "ACTIVE" /\ LastSegment(x) = Scanned(s) /\ k = Path(s)
    BY Zenon, <1>3, <1>5, <1>6, <2>1 DEF HasActive, LastSegment
  <2>3. k \in DOMAIN files
    <3>1. SegmentRecovers(m, n, indexed)
      <4>1. s.state # "RETIRED"
        BY <2>2
      <4>. QED BY Zenon, <1>0, <2>1, <4>1 DEF Recovers
    <3>. QED BY Zenon, <2>2, <3>1 DEF SegmentRecovers, Exists
  <2>4. files[k] \in File /\ Len(files[k].frames) \in Nat
    BY <1>0, <2>3, FileFields
  <2>5. files[k].torn => k \in Torn
    BY Zenon, <2>1, <2>2, <2>3 DEF Torn
  <2>6. /\ k \in DOMAIN files' /\ files'[k].frames = files[k].frames
        /\ ~files'[k].torn
    BY Zenon, <2>3, <2>4, <2>5 DEF Open, File
  <2>7. LastSegment(x).committed_bytes = Len(files[k].frames)
    BY Zenon, <1>1, <1>4, <2>1, <2>2
  <2>. QED BY <2>4, <2>6, <2>7
<1>. QED BY Zenon, <1>0, <1>7, <1>8, <1>9

\* A step that leaves the disk and what the table says of it, outside of the
\* installation of a manifest and the writing of a frame.
LEMMA QuietKnown ==
  ASSUME TypeInv, Known, Running' => Running, SameOnDisk(t, t'),
         UNCHANGED <<files, manifest>>,
         pc \notin {"dirsync", "writing", "sync", "publish"},
         pc' \notin Installing \cup {"writing", "sync", "publish"},
         pc' = "unlink" /\ pos' # 0 => pos' \in RetiredAt(t.segments)
  PROVE  Known'
<1>. SUFFICES ASSUME Running' PROVE Known'
  BY Zenon DEF Known
<1>1. /\ Ascending(t) /\ Records(manifest, t)
      /\ TailFile(files, t, Ahead(pc), pc = "writing")
  BY Zenon DEF Known
<1>2. Ascending(t') /\ Records(manifest, t')
        /\ TailFile(files, t', Ahead(pc), pc = "writing")
  BY Zenon, <1>1, SameKnown
<1>3. Ahead(pc) = 0 /\ Ahead(pc') = 0 /\ pc # "writing" /\ pc' # "writing"
  BY DEF Ahead
<1>4. TailFile(files', t', Ahead(pc'), (pc = "writing")')
  BY Zenon, <1>2, <1>3 DEF TailFile
<1>5. pc' # "dirsync" /\ pc' \notin Installing
  BY DEF Installing
<1>6. pc' = "unlink" /\ pos' # 0 => pos' \in RetiredAt(t'.segments)
  BY Zenon DEF SameOnDisk
<1>. QED BY Zenon, <1>2, <1>4, <1>5, <1>6 DEF Known

\* A step that only deletes the file of a retired segment.
LEMMA UnlinkKnown ==
  ASSUME TypeInv, Known, Unlink \/ CleanupFails
  PROVE  Known'
<1>. SUFFICES ASSUME Running' PROVE Known'
  BY Zenon DEF Known
<1>0. t \in Table /\ pc = "unlink" /\ pos # 0 /\ pos \in Nat
        /\ UNCHANGED manifest /\ phase \in {"open", "recovering"}
  BY Zenon DEF Unlink, CleanupFails, TypeInv, TypeOK, Positions
<1>1. SameOnDisk(t, t') /\ t'.read_only = t.read_only
  BY Zenon, <1>0 DEF Unlink, CleanupFails, CleanupDone, SameOnDisk, Table
<1>2. pc' = "idle" \/ (pc' = "unlink" /\ pos' = NextRetired(pos) /\ t' = t)
  BY Zenon, <1>0 DEF Unlink, CleanupFails, CleanupDone, Release
<1>3. /\ Ascending(t) /\ Records(manifest, t) /\ pos \in RetiredAt(t.segments)
      /\ TailFile(files, t, Ahead(pc), pc = "writing")
  <2>1. Running /\ pc # "dirsync"
    BY <1>0, <1>1 DEF Running
  <2>. QED BY Zenon, <1>0, <2>1 DEF Known
<1>4. HasActive(t) => /\ Path(LastSegment(t)) \in DOMAIN files'
                      /\ files'[Path(LastSegment(t))] = files[Path(LastSegment(t))]
  <2>. SUFFICES ASSUME HasActive(t)
                PROVE  /\ Path(LastSegment(t)) \in DOMAIN files'
                       /\ files'[Path(LastSegment(t))] = files[Path(LastSegment(t))]
    OBVIOUS
  <2>1. Path(t.segments[pos]) # Path(LastSegment(t))
    BY Zenon, <1>0, <1>3, RetiredNotTail
  <2>2. Path(LastSegment(t)) \in DOMAIN files
    BY Zenon, <1>3 DEF TailFile
  <2>. QED BY Zenon, <2>1, <2>2 DEF Unlink, CleanupFails
<1>5. TailFile(files', t, Ahead(pc), pc = "writing")
  BY Zenon, <1>3, <1>4, TailKept
<1>6. Ascending(t') /\ Records(manifest, t')
        /\ TailFile(files', t', Ahead(pc), pc = "writing")
  BY Zenon, <1>1, <1>3, <1>5, SameKnown
<1>7. Ahead(pc) = 0 /\ Ahead(pc') = 0 /\ pc # "writing" /\ pc' # "writing"
        /\ pc' # "dirsync" /\ pc' \notin Installing
  BY <1>0, <1>2 DEF Ahead, Installing
<1>8. TailFile(files', t', Ahead(pc'), (pc = "writing")')
  BY Zenon, <1>6, <1>7 DEF TailFile
<1>9. pc' = "unlink" /\ pos' # 0 => pos' \in RetiredAt(t'.segments)
  <2>. SUFFICES ASSUME pc' = "unlink", pos' # 0
                PROVE  pos' \in RetiredAt(t'.segments)
    OBVIOUS
  <2>1. pos' = NextRetired(pos) /\ t' = t
    BY <1>2
  <2>. QED BY Zenon, <1>0, <2>1, NextIsRetired
<1>. QED BY Zenon, <1>0, <1>6, <1>7, <1>8, <1>9 DEF Known

\* create_active adds a file that no segment has, and stages a table with it.
LEMMA CreateKnown ==
  ASSUME TypeInv, Known, CreateFile
  PROVE  Known'
<1>. SUFFICES ASSUME Running' PROVE Known'
  BY Zenon DEF Known
<1>. DEFINE day == Day(frame.min)
            id == First(FreeIds(day))
            new == [first |-> t.last_sequence + 1, frames |-> << >>,
                    torn |-> FALSE, synced |-> 0]
<1>0. t \in Table /\ pc = "rotate" /\ pc' = "install" /\ job' = job
        /\ UNCHANGED <<t, manifest, phase>> /\ job = "append"
  BY DEF CreateFile, TypeInv, TypeOK, Positions, Writing
<1>1. /\ day \in Int /\ id \in Nat \ {0} /\ t.next_segment_id <= id
      /\ <<day, id>> \notin DOMAIN files
  BY FreshId
<1>2. /\ staged' = Rotated(id, day)
      /\ files' = [k \in DOMAIN files \cup {<<day, id>>} |->
                     IF k = <<day, id>> THEN new ELSE files[k]]
  BY Zenon DEF CreateFile
<1>. HIDE DEF day, id
<1>3. /\ Ascending(t) /\ Records(manifest, t)
      /\ TailFile(files, t, Ahead(pc), pc = "writing")
  <2>1. Running /\ pc # "dirsync"
    BY <1>0 DEF Running
  <2>. QED BY Zenon, <2>1 DEF Known
<1>4. TailFile(files', t, Ahead(pc), pc = "writing")
  <2>1. HasActive(t) => /\ Path(LastSegment(t)) \in DOMAIN files'
                        /\ files'[Path(LastSegment(t))] = files[Path(LastSegment(t))]
    <3>1. HasActive(t) => Path(LastSegment(t)) \in DOMAIN files
      BY Zenon, <1>3 DEF TailFile
    <3>. QED BY Zenon, <1>1, <1>2, <3>1
  <2>. QED BY Zenon, <1>3, <2>1, TailKept
<1>5. /\ Derived(t, staged', "append") /\ Ascending(staged')
      /\ LastSegment(staged') = FreshSegment(id, day)
  BY Zenon, <1>0, <1>1, <1>2, <1>3, RotatedKnown
<1>6. TailFile(files', staged', 0, FALSE)
  <2>1. Path(LastSegment(staged')) = <<day, id>>
          /\ LastSegment(staged').committed_bytes = 0
    BY <1>5 DEF Path, FreshSegment
  <2>2. <<day, id>> \in DOMAIN files' /\ files'[<<day, id>>] = new
    BY Zenon, <1>2
  <2>3. Len(new.frames) = 0 + 0 /\ ~new.torn
    OBVIOUS
  <2>. HIDE DEF new
  <2>. QED BY Zenon, <2>1, <2>2, <2>3 DEF TailFile
<1>7. Ahead(pc) = 0 /\ Ahead(pc') = 0 /\ pc # "writing" /\ pc' # "writing"
        /\ pc' # "dirsync" /\ pc' # "unlink"
  BY <1>0 DEF Ahead
<1>8. TailFile(files', t', Ahead(pc'), (pc = "writing")')
  BY Zenon, <1>0, <1>4, <1>7 DEF TailFile
<1>. QED BY Zenon, <1>0, <1>3, <1>5, <1>6, <1>7, <1>8 DEF Known

\* A mutation of the retention or a retirement stages a table that the files
\* already agree with.
LEMMA StageKnown ==
  ASSUME TypeInv, Known,
         \/ \E d \in Retention : SetRetention(d)
         \/ \E now \in 0 .. MaxNow : RetentionApply(now) /\ pc' = "install"
  PROVE  Known'
<1>. SUFFICES ASSUME Running' PROVE Known'
  BY Zenon DEF Known
<1>0. /\ t \in Table /\ phase = "open" /\ pc = "idle" /\ ~t.read_only
      /\ pc' = "install" /\ UNCHANGED <<t, manifest, files>>
  BY Zenon DEF SetRetention, RetentionApply, TypeInv, TypeOK, disk
<1>1. Ahead(pc) = 0 /\ Ahead(pc') = 0 /\ pc # "writing" /\ pc' # "writing"
        /\ pc # "dirsync" /\ pc' # "dirsync" /\ pc' # "unlink"
  BY <1>0 DEF Ahead
<1>2. /\ Ascending(t) /\ Records(manifest, t)
      /\ TailFile(files, t, Ahead(pc), pc = "writing")
  BY Zenon, <1>0, <1>1 DEF Known, Running
<1>3. TailFile(files, t, 0, FALSE)
  BY Zenon, <1>1, <1>2 DEF TailFile
<1>4. /\ Derived(t, staged', job') /\ Ascending(staged')
      /\ TailFile(files, staged', 0, FALSE)
  <2>1. ASSUME NEW d \in Retention, SetRetention(d)
        PROVE  /\ Derived(t, staged', job') /\ Ascending(staged')
               /\ TailFile(files, staged', 0, FALSE)
    <3>. DEFINE x == [t EXCEPT !.retention_us = d]
    <3>1. staged' = x /\ job' = "configure"
      BY Zenon, <2>1 DEF SetRetention
    <3>2. /\ x.segments = t.segments /\ x.next_segment_id = t.next_segment_id
          /\ x.preserved_sequence = t.preserved_sequence
          /\ x.preserved_time = t.preserved_time
      BY Zenon, <1>0 DEF Table
    <3>. HIDE DEF x
    <3>. QED
      BY <1>2, <1>3, <3>1, <3>2
         DEF Derived, Ascending, TailFile, HasActive, LastSegment
  <2>2. ASSUME NEW now \in 0 .. MaxNow, RetentionApply(now), pc' = "install"
        PROVE  /\ Derived(t, staged', job') /\ Ascending(staged')
               /\ TailFile(files, staged', 0, FALSE)
    <3>1. staged' = Retired(now) /\ job' = "retain"
      BY <2>2 DEF RetentionApply
    <3>. QED BY Zenon, <1>0, <1>2, <1>3, <3>1, RetiredKnown
  <2>. QED BY Zenon, <2>1, <2>2
<1>5. TailFile(files', t', Ahead(pc'), (pc = "writing")')
  BY Zenon, <1>0, <1>1, <1>2 DEF TailFile
<1>. QED BY Zenon, <1>0, <1>1, <1>2, <1>4, <1>5 DEF Known

\* The rename and the synchronization of the directory: the manifest is the
\* staged one, then the table takes over what was staged.
LEMMA InstallKnown ==
  ASSUME TypeInv, Known, Rename \/ SyncDirectory
  PROVE  Known'
<1>. SUFFICES ASSUME Running' PROVE Known'
  BY Zenon DEF Known
<1>0. /\ t \in Table /\ staged \in Table /\ pc \in Installing
      /\ phase \in {"open", "recovering"} /\ UNCHANGED files
  BY DEF Rename, SyncDirectory, TypeInv, TypeOK, Positions, Installing
<1>1. t'.read_only = t.read_only
  BY Zenon, <1>0 DEF Rename, SyncDirectory, Table
<1>2. Running
  BY <1>0, <1>1 DEF Running
<1>3. /\ Ascending(t) /\ Derived(t, staged, job) /\ Ascending(staged)
      /\ TailFile(files, staged, 0, FALSE)
      /\ TailFile(files, t, Ahead(pc), pc = "writing")
  BY Zenon, <1>0, <1>2 DEF Known
<1>4. Ahead(pc) = 0 /\ pc # "writing"
  BY <1>0 DEF Installing, Ahead
<1>5. TailFile(files, t, 0, FALSE)
  BY Zenon, <1>3, <1>4 DEF TailFile
<1>6. CASE Rename
  <2>1. /\ pc' = "dirsync" /\ manifest' = ManifestOf(staged)
        /\ UNCHANGED <<t, staged, job>>
    BY <1>6 DEF Rename
  <2>2. Ahead(pc') = 0 /\ pc' # "writing" /\ pc' # "unlink"
    BY <2>1 DEF Ahead
  <2>3. TailFile(files', t', Ahead(pc'), (pc = "writing")')
    BY Zenon, <1>0, <1>5, <2>1, <2>2 DEF TailFile
  <2>. QED BY Zenon, <1>0, <1>3, <2>1, <2>2, <2>3 DEF Known
<1>7. CASE SyncDirectory
  <2>1. pc = "dirsync" /\ manifest' = manifest /\ pc' \in {"write", "cleanup", "idle"}
    BY <1>7 DEF SyncDirectory, Release
  <2>2. Ahead(pc') = 0 /\ pc' # "writing" /\ pc' # "unlink" /\ pc' # "dirsync"
          /\ pc' \notin Installing
    BY <2>1 DEF Ahead, Installing
  <2>3. manifest = ManifestOf(staged)
    BY <1>2, <2>1 DEF Known
  <2>4. SameOnDisk(staged, t')
    <3>1. CASE job = "append"
      <4>1. t' = [t EXCEPT !.segments = staged.segments,
                           !.next_segment_id = staged.next_segment_id]
        BY <1>7, <3>1 DEF SyncDirectory
      <4>. QED BY Zenon, <1>0, <1>3, <3>1, <4>1 DEF Derived, SameOnDisk, Table
    <3>2. CASE job = "retain"
      <4>1. t' = [t EXCEPT !.segments = staged.segments,
                    !.preserved_sequence = staged.preserved_sequence,
                    !.preserved_time = staged.preserved_time,
                    !.pending_retention = TRUE,
                    !.readable_segments = StillReadable(t, staged.segments)]
        BY <1>7, <3>2 DEF SyncDirectory
      <4>. QED BY Zenon, <1>0, <1>3, <3>2, <4>1 DEF Derived, SameOnDisk, Table
    <3>3. CASE job = "configure"
      <4>1. t' = [t EXCEPT !.retention_us = staged.retention_us]
        BY <1>7, <3>3 DEF SyncDirectory
      <4>. QED BY Zenon, <1>0, <1>3, <3>3, <4>1 DEF Derived, SameOnDisk, Table
    <3>. QED BY <1>3, <3>1, <3>2, <3>3 DEF Derived
  <2>5. Records(manifest', t')
    BY Zenon, <2>1, <2>3, <2>4, RecordsOf
  <2>6. Ascending(t') /\ TailFile(files, t', 0, FALSE)
    BY Zenon, <1>3, <2>4, SameKnown
  <2>7. TailFile(files', t', Ahead(pc'), (pc = "writing")')
    BY Zenon, <1>0, <2>2, <2>6 DEF TailFile
  <2>. QED BY Zenon, <2>2, <2>5, <2>6, <2>7 DEF Known
<1>. QED BY <1>6, <1>7

\* The bytes of a frame go to the file of the tail, and the publication counts
\* them.
LEMMA WriteKnown ==
  ASSUME TypeInv, Known, WritePart \/ WriteRest \/ SyncFrame \/ Publish
  PROVE  Known'
<1>. SUFFICES ASSUME Running' PROVE Known'
  BY Zenon DEF Known
<1>. DEFINE n == Len(t.segments)
            k == ActivePath
<1>0. /\ t \in Table /\ files \in [DOMAIN files -> File] /\ frame \in Frame
      /\ pc \in {"write", "writing", "sync", "publish"}
      /\ pc' \in {"writing", "sync", "publish", "idle"}
      /\ phase \in {"open", "recovering"} /\ UNCHANGED manifest
      /\ t.segments # << >>
  BY DEF WritePart, WriteRest, SyncFrame, Publish, disk, Release, TypeInv, TypeOK,
         Positions, Writing
<1>1. t'.read_only = t.read_only
  BY Zenon, <1>0 DEF WritePart, WriteRest, SyncFrame, Publish, Table
<1>2. Running /\ pc # "dirsync" /\ pc' # "dirsync" /\ pc' \notin Installing
        /\ pc' # "unlink"
  BY <1>0, <1>1 DEF Running, Installing
<1>3. /\ Ascending(t) /\ Records(manifest, t)
      /\ TailFile(files, t, Ahead(pc), pc = "writing")
  BY Zenon, <1>2 DEF Known
<1>4. ASSUME t' = t, TailFile(files', t, Ahead(pc'), (pc = "writing")')
      PROVE  Known'
  BY Zenon, <1>0, <1>2, <1>3, <1>4 DEF Known
<1>5. HasActive(t) => /\ k \in DOMAIN files /\ files[k] \in File
                      /\ files[k].frames \in Seq(Frame)
                      /\ LastSegment(t).committed_bytes \in Nat
  <2>1. n \in 1 .. n /\ t.segments[n] \in Segment
    BY <1>0, TableFields
  <2>2. LastSegment(t).committed_bytes \in Nat
    BY <2>1, SegmentFields DEF LastSegment
  <2>3. HasActive(t) => k \in DOMAIN files
    BY Zenon, <1>3 DEF TailFile, ActivePath
  <2>. QED BY Zenon, <1>0, <2>2, <2>3, FileFields
<1>6. HasActive(t) => Len(files[k].frames) = LastSegment(t).committed_bytes + Ahead(pc)
  BY Zenon, <1>3 DEF TailFile, ActivePath
<1>7. HasActive(t) /\ files[k].torn => pc = "writing"
  BY Zenon, <1>3 DEF TailFile, ActivePath
<1>8. CASE WritePart
  <2>1. pc = "write" /\ pc' = "writing" /\ t' = t /\ Ahead(pc') = Ahead(pc)
    BY <1>8 DEF WritePart, Ahead
  <2>2. HasActive(t) => k \in DOMAIN files' /\ files'[k].frames = files[k].frames
    BY Zenon, <1>5, <1>8 DEF WritePart, File
  <2>3. TailFile(files', t, Ahead(pc'), (pc = "writing")')
    BY Zenon, <1>6, <2>1, <2>2 DEF TailFile, ActivePath
  <2>. QED BY <1>4, <2>1, <2>3
<1>9. CASE WriteRest
  <2>1. pc = "writing" /\ pc' = "sync" /\ t' = t /\ Ahead(pc) = 0 /\ Ahead(pc') = 1
    BY <1>9 DEF WriteRest, Ahead
  <2>2. HasActive(t) => /\ k \in DOMAIN files' /\ ~files'[k].torn
                        /\ files'[k].frames = Append(files[k].frames, frame)
    BY Zenon, <1>5, <1>9 DEF WriteRest, File
  <2>3. HasActive(t) =>
          Len(files'[k].frames) = LastSegment(t).committed_bytes + Ahead(pc')
    <3>. HIDE DEF k
    <3>. QED BY <1>0, <1>5, <1>6, <2>1, <2>2
  <2>4. TailFile(files', t, Ahead(pc'), (pc = "writing")')
    BY Zenon, <2>1, <2>2, <2>3 DEF TailFile, ActivePath
  <2>. QED BY <1>4, <2>1, <2>4
<1>10. CASE SyncFrame
  <2>1. pc = "sync" /\ pc' = "publish" /\ t' = t /\ Ahead(pc') = Ahead(pc)
          /\ pc # "writing"
    BY <1>10 DEF SyncFrame, Ahead
  <2>2. HasActive(t) => /\ k \in DOMAIN files' /\ files'[k].frames = files[k].frames
                        /\ files'[k].torn = files[k].torn
    BY Zenon, <1>5, <1>10 DEF SyncFrame, File
  <2>3. TailFile(files', t, Ahead(pc'), (pc = "writing")')
    BY Zenon, <1>6, <1>7, <2>1, <2>2 DEF TailFile, ActivePath
  <2>. QED BY <1>4, <2>1, <2>3
<1>11. CASE Publish
  <2>. DEFINE s == Extended(t.segments[n])
  <2>1. /\ pc = "publish" /\ pc' = "idle" /\ UNCHANGED files
        /\ Ahead(pc) = 1 /\ Ahead(pc') = 0 /\ pc # "writing"
    BY <1>11 DEF Publish, Ahead, Release, disk
  <2>2. /\ t'.segments = [t.segments EXCEPT ![n] = s]
        /\ t'.next_segment_id = t.next_segment_id
        /\ t'.preserved_sequence = t.preserved_sequence
        /\ t'.preserved_time = t.preserved_time
        /\ t'.retention_us = t.retention_us
    BY Zenon, <1>0, <1>11 DEF Publish, Table
  <2>3. n \in 1 .. n /\ t.segments[n] \in Segment /\ t.segments \in Seq(Segment)
          /\ n \in Nat
    BY <1>0, TableFields
  <2>4. /\ s.id = t.segments[n].id /\ s.day_start = t.segments[n].day_start
        /\ s.state = t.segments[n].state
        /\ s.committed_bytes = t.segments[n].committed_bytes + 1
    BY Zenon, <2>3 DEF Extended, Segment
  <2>. HIDE DEF s
  <2>5. /\ Len(t'.segments) = n /\ t'.segments[n] = s
        /\ \A i \in 1 .. n : i # n => t'.segments[i] = t.segments[i]
    BY <2>2, <2>3
  <2>. HIDE DEF n
  <2>6. \A i \in 1 .. n : /\ t'.segments[i].id = t.segments[i].id
                          /\ Path(t'.segments[i]) = Path(t.segments[i])
                          /\ t'.segments[i].state = t.segments[i].state
    BY Zenon, <2>4, <2>5 DEF Path
  <2>7. Ascending(t')
    <3>1. \A i \in 1 .. n : \A j \in 1 .. i - 1 : j \in 1 .. n
      BY <2>3
    <3>. QED BY Zenon, <1>3, <2>2, <2>5, <2>6, <3>1 DEF Ascending, n
  <2>8. Records(manifest', t')
    BY Zenon, <1>0, <1>3, <2>2, <2>5, <2>6 DEF Records, n
  <2>9. TailFile(files', t', Ahead(pc'), (pc = "writing")')
    <3>1. HasActive(t') => HasActive(t)
      BY Zenon, <1>0, <2>3, <2>5, <2>6 DEF HasActive, LastSegment, n
    <3>2. Path(LastSegment(t')) = k
            /\ LastSegment(t').committed_bytes = LastSegment(t).committed_bytes + 1
      BY Zenon, <2>3, <2>4, <2>5, <2>6 DEF LastSegment, ActivePath, n
    <3>3. HasActive(t) => Len(files[k].frames) = LastSegment(t').committed_bytes + 0
      <4>. HIDE DEF k
      <4>. QED BY <1>5, <1>6, <2>1, <3>2
    <3>. QED BY Zenon, <1>5, <1>7, <2>1, <3>1, <3>2, <3>3 DEF TailFile
  <2>. QED BY Zenon, <1>2, <2>7, <2>8, <2>9 DEF Known
<1>. QED BY <1>8, <1>9, <1>10, <1>11

\* Every step keeps what is known of the disk.
LEMMA KnownNext == TypeInv /\ Known /\ [Next]_vars => Known'
<1>. SUFFICES ASSUME TypeInv, Known, [Next]_vars PROVE Known'
  OBVIOUS
<1>0. t \in Table
  BY DEF TypeInv, TypeOK
<1>s. SameOnDisk(t, t)
  BY DEF SameOnDisk
<1>. USE DEF disk, lock, readers, history
<1>1. CASE UNCHANGED vars
  BY Zenon, <1>1 DEF vars, Known, Running
<1>2. CASE AppendStep
  <2>1. ASSUME NEW n \in 1 .. MaxRows, NEW lo \in Time, NEW hi \in Time,
               NEW limit \in BOOLEAN, AppendBegin(n, lo, hi, limit)
        PROVE  Known'
    <3>1. /\ pc = "idle" /\ pc' \in {"rotate", "write"}
          /\ UNCHANGED <<files, manifest, phase, t>>
      BY <2>1 DEF AppendBegin
    <3>. QED BY <1>s, <3>1, QuietKnown DEF Installing, Running
  <2>2. CASE RotateFails \/ IdsExhausted \/ ReserveFails
    <3>1. /\ pc \in {"rotate", "write"} /\ pc' = "idle"
          /\ UNCHANGED <<files, manifest, phase, t>>
      BY <2>2 DEF RotateFails, IdsExhausted, ReserveFails, Return, Release
    <3>. QED BY <1>s, <3>1, QuietKnown DEF Installing, Running
  <2>3. CASE WriteFails
    <3>1. t'.read_only
      BY Zenon, <1>0, <2>3 DEF WriteFails, ReturnUncertain, Table
    <3>. QED BY <3>1 DEF Known, Running
  <2>. QED BY Zenon, <1>2, <2>1, <2>2, <2>3, CreateKnown, WriteKnown DEF AppendStep
<1>3. CASE InstallStep
  <2>1. CASE InstallFails
    <3>1. pc = "install" /\ pc' = "idle" /\ UNCHANGED <<files, manifest, phase, t>>
      BY <2>1 DEF InstallFails, Return, Release
    <3>. QED BY <1>s, <3>1, QuietKnown DEF Installing, Running
  <2>2. CASE SyncDirectoryFails
    <3>1. t'.read_only
      BY Zenon, <1>0, <2>2 DEF SyncDirectoryFails, ReturnUncertain, Table
    <3>. QED BY <3>1 DEF Known, Running
  <2>. QED BY Zenon, <1>3, <2>1, <2>2, InstallKnown DEF InstallStep
<1>4. CASE RetentionStep
  <2>1. ASSUME NEW now \in 0 .. MaxNow, RetentionApply(now), pc' # "install"
        PROVE  Known'
    <3>1. pc = "idle" /\ pc' = "cleanup" /\ UNCHANGED <<files, manifest, phase, t>>
      BY <2>1 DEF RetentionApply
    <3>. QED BY <1>s, <3>1, QuietKnown DEF Installing, Running
  <2>2. ASSUME NEW r \in Reader, CleanupBegin(r) PROVE Known'
    <3>1. pc = "idle" /\ pc' = "cleanup" /\ UNCHANGED <<files, manifest, phase, t>>
      BY <2>2 DEF CleanupBegin
    <3>. QED BY <1>s, <3>1, QuietKnown DEF Installing, Running
  <2>3. CASE CleanupCheck
    <3>1. /\ pc = "cleanup" /\ UNCHANGED <<files, manifest, t>>
          /\ phase \in {"open", "recovering"}
          /\ pc' = "idle" \/ (pc' = "unlink" /\ pos' = NextRetired(0))
      BY <2>3 DEF CleanupCheck, Release, TypeInv, TypeOK, Positions
    <3>2. pc' = "unlink" /\ pos' # 0 => pos' \in RetiredAt(t.segments)
      BY <1>0, <3>1, NextIsRetired
    <3>. QED BY <1>s, <3>1, <3>2, QuietKnown DEF Installing, Running
  <2>4. CASE CleanupEnd
    <3>1. /\ pc = "unlink" /\ pc' = "idle" /\ UNCHANGED <<files, manifest>>
          /\ phase \in {"open", "recovering"}
      BY <2>4 DEF CleanupEnd, CleanupDone, Release, TypeInv, TypeOK, Positions
    <3>2. SameOnDisk(t, t') /\ t'.read_only = t.read_only
      BY Zenon, <1>0, <2>4 DEF CleanupEnd, CleanupDone, SameOnDisk, Table
    <3>. QED BY <3>1, <3>2, QuietKnown DEF Installing, Running
  <2>. QED BY Zenon, <1>4, <2>1, <2>2, <2>3, <2>4, UnlinkKnown, StageKnown
           DEF RetentionStep
<1>5. CASE ReaderStep
  BY Zenon, <1>5 DEF ReaderStep, Acquire, ReleaseSnapshot, Known, Running
<1>6. CASE RecoveryStep
  <2>1. CASE Crash
    BY <2>1 DEF Crash, Known, Running
  <2>2. ASSUME NEW indexed, Open(indexed) PROVE Known'
    <3>1. /\ Ascending(t') /\ Records(manifest, t')
          /\ TailFile(files', t', 0, FALSE)
      BY Zenon, <2>2, RecoveredKnown
    <3>2. pc' \in {"idle", "cleanup"} /\ UNCHANGED manifest
      BY Zenon, <2>2 DEF Open, TypeInv, Positions
    <3>3. Ahead(pc') = 0 /\ pc' # "writing" /\ pc' # "dirsync" /\ pc' # "unlink"
            /\ pc' \notin Installing
      BY <3>2 DEF Ahead, Installing
    <3>4. TailFile(files', t', Ahead(pc'), (pc = "writing")')
      BY Zenon, <3>1, <3>3 DEF TailFile
    <3>. QED BY Zenon, <3>1, <3>2, <3>3, <3>4 DEF Known
  <2>3. ASSUME NEW indexed, OpenInterrupted(indexed) \/ OpenCorrupt(indexed)
        PROVE  Known'
    BY <2>3 DEF OpenInterrupted, OpenCorrupt, Known, Running
  <2>. QED BY Zenon, <1>6, <2>1, <2>2, <2>3 DEF RecoveryStep
<1>. QED BY <1>1, <1>2, <1>3, <1>4, <1>5, <1>6 DEF Next

\* Between mutations, a table that accepts them is as the disk has it, and while
\* it accepts none no frame is written and no manifest installed, whatever fails,
\* retries or runs beside it: an outcome that leaves the disk in doubt stops
\* mutation until the table has been reopened (protect_uncertain, create_active,
\* wadb_commit_requests, the checks of every mutation).
THEOREM UncertainStops == Spec => UncertainStopsMutation
<1>1. Init => Halted /\ Known
  BY DEF Init, Halted, NoTable, Known, Running
<1>2. TypeInv /\ Halted /\ [Next]_vars =>
        [t.read_only /\ phase' # "closed" =>
           /\ manifest' = manifest
           /\ \A k \in DOMAIN files \cap DOMAIN files' :
                files'[k].frames = files[k].frames]_vars
  <2>. SUFFICES ASSUME TypeInv, Halted, [Next]_vars, t.read_only
                PROVE  /\ manifest' = manifest
                       /\ \A k \in DOMAIN files \cap DOMAIN files' :
                            files'[k].frames = files[k].frames
    OBVIOUS
  <2>1. ~Rename /\ ~WriteRest
    BY DEF Halted, Rename, WriteRest
  <2>. QED BY <2>1, FramesStep, ManifestStep
<1>3. TypeInv /\ Known => (phase = "open" /\ pc = "idle" /\ ~t.read_only => Settled)
  <2>. SUFFICES ASSUME TypeInv, Known, phase = "open", pc = "idle", ~t.read_only
                PROVE  Settled
    OBVIOUS
  <2>1. Records(manifest, t) /\ TailFile(files, t, Ahead(pc), pc = "writing")
    BY Zenon DEF Known, Running
  <2>2. Ahead(pc) = 0 /\ pc # "writing"
    BY DEF Ahead
  <2>3. HasActive(t) =>
          /\ Exists(ActivePath) /\ ~files[ActivePath].torn
          /\ Len(files[ActivePath].frames) = LastSegment(t).committed_bytes + 0
    BY Zenon, <2>1, <2>2 DEF TailFile, Exists, ActivePath
  <2>4. HasActive(t) => LastSegment(t).committed_bytes \in Nat
    <3>. SUFFICES ASSUME HasActive(t)
                  PROVE  LastSegment(t).committed_bytes \in Nat
      OBVIOUS
    <3>1. LastSegment(t) \in Segment
      BY TableFields DEF HasActive, LastSegment, TypeInv, TypeOK
    <3>. QED BY <3>1, SegmentFields
  <2>5. HasActive(t) => LastSegment(t).committed_bytes + 0
                          = LastSegment(t).committed_bytes
    BY <2>4
  <2>. QED BY Zenon, <2>1, <2>3, <2>5 DEF Settled, Records
<1>. QED
  BY <1>1, <1>2, <1>3, HaltedNext, KnownNext, TypeInvariant, PTL
     DEF Spec, UncertainStopsMutation

-----------------------------------------------------------------------------
(* A definite failure leaves nothing behind.                               *)

StoredTag(x) ==
  \E k \in DOMAIN files : \E j \in 1 .. Len(files[k].frames) :
    files[k].frames[j].tag = x

\* The current group has the latest tag, and that tag is in no file before
\* its frame has been written; no rejected tag is in a file.
TagInv ==
  /\ \A x \in Nat : StoredTag(x) => x <= attempts /\ x \notin rejected
  /\ \A x \in rejected : x <= attempts
  /\ job = "append" => frame.tag = attempts /\ attempts \notin rejected
  /\ job = "append" /\ pc \in {"rotate", "install", "dirsync", "write", "writing"}
       => ~StoredTag(attempts)

\* Only write_all adds a tag to the files, that of the current group.
LEMMA TagStep ==
  ASSUME TypeInv, [Next]_vars, NEW x \in Nat, StoredTag(x)'
  PROVE  StoredTag(x) \/ (WriteRest /\ x = frame.tag)
<1>0. files \in [DOMAIN files -> File] /\ frame \in Frame
        /\ \A k \in DOMAIN files : files[k].frames \in Seq(Frame)
  BY FileFields DEF TypeInv, TypeOK
<1>1. PICK k \in DOMAIN files' : \E j \in 1 .. Len(files'[k].frames) :
        files'[k].frames[j].tag = x
  BY DEF StoredTag
<1>2. CASE ~WriteRest
  <2>1. k \in DOMAIN files
    <3>1. CASE k \notin DOMAIN files
      <4>1. files'[k].frames = << >>
        BY <1>2, <3>1, FramesStep
      <4>. QED BY <1>1, <4>1
    <3>. QED BY <3>1
  <2>2. files'[k].frames = files[k].frames
    BY <1>2, <2>1, FramesStep
  <2>. QED BY <1>1, <2>1, <2>2 DEF StoredTag
<1>3. CASE WriteRest
  <2>1. k \in DOMAIN files
    BY <1>3 DEF WriteRest
  <2>2. \/ files'[k].frames = files[k].frames
        \/ files'[k].frames = Append(files[k].frames, frame)
    BY <1>0, <1>3, <2>1 DEF WriteRest, File
  <2>3. CASE files'[k].frames = files[k].frames
    BY <1>1, <2>1, <2>3 DEF StoredTag
  <2>4. CASE files'[k].frames = Append(files[k].frames, frame)
    <3>. DEFINE frames == files[k].frames
    <3>1. frames \in Seq(Frame) /\ Len(frames) \in Nat
      BY <1>0, <2>1
    <3>2. PICK j \in 1 .. Len(Append(frames, frame)) :
            Append(frames, frame)[j].tag = x
      BY SMTT(30), <1>1, <2>4
    <3>3. CASE j = Len(frames) + 1
      BY <1>3, <3>1, <3>2, <3>3
    <3>4. CASE j # Len(frames) + 1
      <4>1. j \in 1 .. Len(frames) /\ frames[j].tag = x
        BY <3>1, <3>2, <3>4
      <4>. QED BY <2>1, <4>1 DEF StoredTag
    <3>. QED BY <3>3, <3>4
  <2>. QED BY <2>2, <2>3, <2>4
<1>. QED BY <1>2, <1>3

\* Every step keeps rejected groups out of the files.
LEMMA TagNext == TypeInv /\ TagInv /\ [Next]_vars => TagInv'
<1>. SUFFICES ASSUME TypeInv, TagInv, [Next]_vars PROVE TagInv'
  OBVIOUS
<1>0. attempts \in Nat /\ rejected \subseteq Nat /\ frame.tag \in Nat
  BY FrameFields DEF TypeInv, TypeOK
<1>1. \A x \in Nat : StoredTag(x)' => StoredTag(x) \/ (WriteRest /\ x = frame.tag)
  BY TagStep
<1>2. pc \in {"rotate", "write", "writing"} => job = "append"
  BY DEF TypeInv, Positions, Writing
<1>. USE <1>0, <1>1 DEF TagInv, disk, lock, readers, history, Release
<1>3. CASE UNCHANGED <<attempts, rejected, job, frame, pc>> /\ ~WriteRest
  BY <1>3
<1>4. CASE AppendStep
  <2>1. ASSUME NEW n \in 1 .. MaxRows, NEW lo \in Time, NEW hi \in Time,
               NEW limit \in BOOLEAN, AppendBegin(n, lo, hi, limit)
        PROVE  TagInv'
    <3>1. /\ attempts' = attempts + 1 /\ rejected' = rejected
          /\ frame'.tag = attempts + 1 /\ pc = "idle"
      BY <2>1 DEF AppendBegin
    <3>2. ~WriteRest
      BY <3>1 DEF WriteRest
    <3>. QED BY <3>1, <3>2
  <2>2. CASE RotateFails \/ IdsExhausted \/ ReserveFails
    <3>1. /\ attempts' = attempts /\ job' = "none" /\ ~WriteRest
          /\ rejected' \subseteq rejected \cup {frame.tag}
          /\ pc \in {"rotate", "write"}
      BY <2>2 DEF RotateFails, IdsExhausted, ReserveFails, Return, WriteRest
    <3>. QED BY <1>2, <3>1
  <2>3. CASE CreateFile \/ WritePart
    <3>1. /\ UNCHANGED <<attempts, rejected, job, frame>> /\ ~WriteRest
          /\ pc \in {"rotate", "write"}
      BY <2>3 DEF CreateFile, WritePart, WriteRest
    <3>. QED BY <1>2, <3>1
  <2>4. CASE WriteRest
    <3>1. UNCHANGED <<attempts, rejected, job, frame>> /\ pc' = "sync"
            /\ pc = "writing"
      BY <2>4 DEF WriteRest
    <3>. QED BY <1>2, <3>1
  <2>5. CASE WriteFails \/ Publish
    <3>1. UNCHANGED <<attempts, rejected>> /\ job' = "none" /\ pc' = "idle"
      BY <2>5 DEF WriteFails, ReturnUncertain, Publish
    <3>2. ~WriteRest
      BY <3>1 DEF WriteRest
    <3>. QED BY <3>1, <3>2
  <2>6. CASE SyncFrame
    <3>1. UNCHANGED <<attempts, rejected, job, frame>> /\ pc' = "publish"
      BY <2>6 DEF SyncFrame
    <3>2. ~WriteRest
      BY <3>1 DEF WriteRest
    <3>. QED BY <3>1, <3>2
  <2>. QED BY SMTT(30), <1>4, <2>1, <2>2, <2>3, <2>4, <2>5, <2>6 DEF AppendStep
<1>5. CASE InstallStep
  <2>0. ~WriteRest
    BY <1>5 DEF InstallStep, Rename, InstallFails, SyncDirectory,
                SyncDirectoryFails, WriteRest
  <2>1. CASE Rename
    BY <2>0, <2>1 DEF Rename
  <2>2. CASE InstallFails
    BY <2>0, <2>2 DEF InstallFails, Return
  <2>3. CASE SyncDirectory
    BY <2>0, <2>3 DEF SyncDirectory
  <2>4. CASE SyncDirectoryFails
    BY <2>0, <2>4 DEF SyncDirectoryFails, ReturnUncertain
  <2>. QED BY <1>5, <2>1, <2>2, <2>3, <2>4 DEF InstallStep
<1>6. CASE RetentionStep
  <2>1. /\ UNCHANGED <<attempts, rejected>> /\ ~WriteRest
        /\ \/ job' # "append"
           \/ UNCHANGED <<job, frame>> /\ pc' = "unlink"
    BY <1>6 DEF RetentionStep, SetRetention, RetentionApply, CleanupBegin,
                CleanupCheck, Unlink, CleanupEnd, CleanupFails, CleanupDone,
                WriteRest
  <2>. QED BY <2>1
<1>7. CASE ReaderStep
  <2>1. UNCHANGED <<attempts, rejected, job, frame, pc, files>>
    BY <1>7 DEF ReaderStep, Acquire, ReleaseSnapshot
  <2>. QED BY <1>3, <2>1 DEF WriteRest
<1>8. CASE RecoveryStep
  <2>1. /\ UNCHANGED <<attempts, rejected>>
        /\ \/ job' # "append"
           \/ UNCHANGED <<job, frame, pc>>
        /\ pc' # "sync"
    BY Zenon, <1>8 DEF RecoveryStep, Crash, Open, OpenInterrupted, OpenCorrupt,
                TypeInv, Positions
  <2>2. ~WriteRest
    BY <2>1 DEF WriteRest
  <2>. QED BY <2>1, <2>2
<1>9. CASE UNCHANGED vars
  <2>1. UNCHANGED <<attempts, rejected, job, frame, pc>> /\ ~WriteRest
    BY <1>9 DEF vars, WriteRest
  <2>. QED BY <1>3, <2>1
<1>. QED BY <1>4, <1>5, <1>6, <1>7, <1>8, <1>9 DEF Next

\* A group that failed with a definite status is in no segment file, ever: no
\* restart, retry or later append can bring back rows whose client was told
\* that they were not stored (wadb_commit_requests, create_active).
THEOREM RejectedStaysOut == Spec => []RejectedNeverStored
<1>1. Init => TagInv
  BY DEF Init, TagInv, StoredTag
<1>2. TypeInv /\ TagInv => RejectedNeverStored
  <2>. SUFFICES ASSUME TypeInv, TagInv, NEW k \in DOMAIN files,
                       NEW j \in 1 .. Len(files[k].frames)
                PROVE  files[k].frames[j].tag \notin rejected
    BY DEF RejectedNeverStored
  <2>1. files[k].frames \in Seq(Frame)
    BY SMTT(30), FileFields DEF TypeInv, TypeOK
  <2>2. files[k].frames[j].tag \in Nat
    BY SMTT(30), <2>1, FrameFields
  <2>3. StoredTag(files[k].frames[j].tag)
    BY DEF StoredTag
  <2>. QED BY <2>2, <2>3 DEF TagInv
<1>. QED BY <1>1, <1>2, TagNext, TypeInvariant, PTL DEF Spec

=============================================================================
