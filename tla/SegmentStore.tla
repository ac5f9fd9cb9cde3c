---------------------------- MODULE SegmentStore ----------------------------
(***************************************************************************)
(* The durable storage of one table: the segment log, the manifest, the    *)
(* commit protocol, recovery on open, retention and reader pins.           *)
(* Source: src/storage/segments.c, retention.c, metadata.c (manifest),     *)
(* platform/files.c and query/snapshot.c.                                  *)
(*                                                                         *)
(* Whatever holds writer_mutex is described by pc, job, frame, staged and  *)
(* pos; pc = "idle" means that the mutex is free.  Each step up to the     *)
(* next system call or the next use of db->mutex is one action, so readers *)
(* (which take db->mutex only) and crashes interleave at those points.     *)
(*                                                                         *)
(* The disk is modelled as the kernel sees it, with what is known to be on *)
(* the device beside it:                                                   *)
(*   - a file holds complete frames, perhaps a torn tail; its first        *)
(*     `synced' frames were covered by a successful synchronization;       *)
(*   - manifest is the installed one, installed the one on the device.     *)
(* Sizes count frames: the segment header is 0 bytes, each frame one.      *)
(* Indexes are derived data and are left out, except that saving one fails.*)
(***************************************************************************)
EXTENDS Integers, Sequences, FiniteSets

CONSTANTS
  Reader,          \* the threads that take snapshots
  DayLength,       \* WADB_DAY_US
  MaxTime,         \* bound: the largest ingestion time
  MaxNow,          \* bound: the largest time given to wadb_retention_apply
  Retention,       \* bound: the retention durations that may be configured
  MaxRows,         \* bound: rows in one append group
  MaxSequence,     \* UINT64_MAX for row sequences
  MaxSegmentId,    \* UINT64_MAX for segment IDs
  TargetBytes,     \* options.segment_target_bytes, in frames
  MaxAttempts,     \* bound: append groups in a behaviour
  MaxSnapshots,    \* bound: snapshots taken in a behaviour
  Faults,          \* may system calls and allocations fail
  Crashes          \* may the process die

ASSUME SizesAssumption ==
  /\ DayLength \in Nat \ {0}
  /\ MaxRows \in Nat \ {0}
  /\ MaxTime \in Nat
  /\ MaxNow \in Nat
  /\ MaxSequence \in Nat
  /\ MaxSegmentId \in Nat
  /\ TargetBytes \in Nat
  /\ MaxAttempts \in Nat
  /\ MaxSnapshots \in Nat

ASSUME ModeAssumption ==
  /\ Retention \in SUBSET Nat
  /\ Faults \in BOOLEAN
  /\ Crashes \in BOOLEAN

VARIABLES
  \* the disk
  files,           \* segment files by <<day_start, id>>
  manifest,        \* the table's manifest, as installed by rename
  installed,       \* the manifest on the device
  \* the process
  phase,           \* closed, recovering, open, or corrupt (wadb_open failed)
  t,               \* the wadb_table
  pc, job, frame, staged, pos,   \* the holder of writer_mutex
  snap,            \* the segments each reader's snapshot copied
  pinned,          \* the readers that hold a snapshot
  owed,            \* the readers whose release has to run the cleanup
  \* observation
  acked,           \* frames acknowledged to their clients
  rejected,        \* groups that failed with a definite status
  uncertain,       \* groups that failed with WADB_INDETERMINATE
  attempts, snapshots

disk == <<files, manifest, installed>>
lock == <<pc, job, frame, staged, pos>>
readers == <<snap, pinned, owed, snapshots>>
history == <<acked, rejected, uncertain, attempts>>
vars == <<disk, phase, t, lock, readers, history>>

-----------------------------------------------------------------------------
Time == 0 .. MaxTime
Day(time) == time - (time % DayLength)
State == {"ACTIVE", "SEALED", "RETIRED"}

\* wadb_segment_meta; last_sequence = 0 means empty.
Segment == [id : Nat \ {0}, day_start : Int, first_sequence : Nat \ {0},
            last_sequence : Nat, min_time : Nat, max_time : Nat,
            committed_bytes : Nat, state : State]

\* The rows of one group, written by one wadb_commit_requests; tag tells
\* groups apart that reuse the sequences of a lost one.
Frame == [first : Nat, last : Nat, min : Nat, max : Nat, tag : Nat]

File == [first : Nat, frames : Seq(Frame), torn : BOOLEAN, synced : Nat]

Manifest == [segments : Seq(Segment), next_segment_id : Nat \ {0},
             preserved_sequence : Nat, preserved_time : Nat,
             retention_us : Nat]

\* wadb_table; the array readable_segments, always ascending, is a set.
Table == [segments : Seq(Segment), next_segment_id : Nat \ {0},
          preserved_sequence : Nat, preserved_time : Nat,
          retention_us : Nat, last_sequence : Nat, last_time : Nat,
          read_only : BOOLEAN, pending_retention : BOOLEAN,
          readable_segments : SUBSET Nat]

NoTable == [segments |-> << >>, next_segment_id |-> 1,
            preserved_sequence |-> 0, preserved_time |-> 0,
            retention_us |-> 0, last_sequence |-> 0, last_time |-> 0,
            read_only |-> FALSE, pending_retention |-> FALSE,
            readable_segments |-> {}]

NoFrame == [first |-> 0, last |-> 0, min |-> 0, max |-> 0, tag |-> 0]

\* wadb_save_manifest: what of the (staged) table the manifest records.
ManifestOf(table) ==
  [segments |-> table.segments, next_segment_id |-> table.next_segment_id,
   preserved_sequence |-> table.preserved_sequence,
   preserved_time |-> table.preserved_time,
   retention_us |-> table.retention_us]

\* The first and the last position of a nonempty set of positions.
First(positions) == CHOOSE i \in positions : \A j \in positions : i <= j
Last(positions) == CHOOSE i \in positions : \A j \in positions : j <= i

\* wadb_segment_path: partition directory and file name.
Path(s) == <<s.day_start, s.id>>
LastSegment(table) == table.segments[Len(table.segments)]
HasActive(table) ==
  table.segments # << >> /\ LastSegment(table).state = "ACTIVE"
Exists(k) == k \in DOMAIN files
RetiredAt(segments) ==
  {i \in 1 .. Len(segments) : segments[i].state = "RETIRED"}

-----------------------------------------------------------------------------
(* Leaving a mutation: writer_mutex is released and a status returned.     *)

Release ==
  /\ pc' = "idle" /\ job' = "none" /\ frame' = NoFrame
  /\ staged' = NoTable /\ pos' = 0

\* The mutation fails with a definite status: nothing it may have written can
\* ever be committed.
Return ==
  /\ Release
  /\ rejected' = IF job = "append" THEN rejected \cup {frame.tag}
                                   ELSE rejected
  /\ UNCHANGED <<t, acked, uncertain, attempts>>

\* Mutant: the table is not closed to mutation.
ReturnUncertainOpen ==
  /\ Release
  /\ uncertain' = IF job = "append" THEN uncertain \cup {frame.tag}
                                    ELSE uncertain
  /\ UNCHANGED <<t, acked, rejected, attempts>>

\* protect_uncertain, and the equivalent in create_active and
\* wadb_commit_requests: an uncertain outcome stops mutation.
ReturnUncertain ==
  /\ Release
  /\ t' = [t EXCEPT !.read_only = TRUE]
  /\ uncertain' = IF job = "append" THEN uncertain \cup {frame.tag}
                                    ELSE uncertain
  /\ UNCHANGED <<acked, rejected, attempts>>

-----------------------------------------------------------------------------
(* Append: wadb_commit_requests and create_active.                         *)

\* The group does not fit the active segment by size.
TooLarge ==
  /\ LastSegment(t).last_sequence # 0
  /\ LastSegment(t).committed_bytes >= TargetBytes

NeedsFresh(time) ==
  \/ ~HasActive(t)
  \/ LastSegment(t).day_start # Day(time)
  \/ TooLarge

\* A group of n rows with ingestion times lo .. hi enters
\* wadb_commit_requests.  The writer thread has clamped lo to last_time and
\* keeps a group within a day.  limit: the symbols do not fit the active
\* segment's dictionary, so the group is retried on a fresh one.  The early
\* returns (a table that needs recovery, sequences exhausted, a group that no
\* frame can hold, no memory) change nothing and are not steps.
AppendBegin(n, lo, hi, limit) ==
  /\ phase = "open" /\ pc = "idle" /\ attempts < MaxAttempts
  /\ t.last_time <= lo /\ lo <= hi /\ Day(lo) = Day(hi)
  /\ ~t.read_only
  /\ t.last_sequence + n <= MaxSequence
  /\ attempts' = attempts + 1
  /\ frame' = [first |-> t.last_sequence + 1, last |-> t.last_sequence + n,
               min |-> lo, max |-> hi, tag |-> attempts + 1]
  /\ job' = "append"
  /\ pc' = IF limit \/ NeedsFresh(lo) THEN "rotate" ELSE "write"
  /\ UNCHANGED <<disk, phase, t, staged, pos, readers, acked, rejected,
                 uncertain>>

\* create_active up to the creation of the file fails: saving the old segment's
\* index, the partition directory, the synchronization of the table's directory,
\* which covers the manifest in force, or the file.  The index may be renamed
\* and its directory not synchronized: that status is passed on, but the table
\* stays writable.
RotateFails ==
  /\ pc = "rotate" /\ Faults /\ t.next_segment_id # MaxSegmentId
  /\ \/ Return /\ installed' \in {installed, manifest}
     \/ /\ HasActive(t)
        /\ Release
        /\ uncertain' = uncertain \cup {frame.tag}
        /\ UNCHANGED <<installed, t, acked, rejected, attempts>>
  /\ UNCHANGED <<files, manifest, phase, readers>>

\* The IDs from next_segment_id on whose path is free in the partition.
FreeIds(day) ==
  {i \in t.next_segment_id .. MaxSegmentId - 1 : ~Exists(<<day, i>>)}

\* Mutant: the old tail is not sealed.
SealedNot(segments) == segments

\* The active segment, which is the last, becomes sealed.
Sealed(segments) ==
  [i \in 1 .. Len(segments) |->
     IF i = Len(segments) /\ segments[i].state = "ACTIVE"
     THEN [segments[i] EXCEPT !.state = "SEALED"] ELSE segments[i]]

FreshSegment(id, day) ==
  [id |-> id, day_start |-> day, first_sequence |-> t.last_sequence + 1,
   last_sequence |-> 0, min_time |-> 0, max_time |-> 0,
   committed_bytes |-> 0, state |-> "ACTIVE"]

\* The staged table: the active segment sealed, the new one after it.
Rotated(id, day) ==
  [t EXCEPT !.segments = Append(Sealed(@), FreshSegment(id, day)),
            !.next_segment_id = id + 1]

\* The table's directory is synchronized; open(O_CREAT | O_EXCL), skipping
\* orphans; the header is written and synchronized, and the partition directory.
CreateFile ==
  LET day == Day(frame.min) IN
  /\ pc = "rotate"
  /\ FreeIds(day) # {}
  /\ LET id == First(FreeIds(day))
         new == [first |-> t.last_sequence + 1, frames |-> << >>,
                 torn |-> FALSE, synced |-> 0]
     IN /\ files' = [k \in DOMAIN files \cup {<<day, id>>} |->
                       IF k = <<day, id>> THEN new ELSE files[k]]
        /\ staged' = Rotated(id, day)
  /\ installed' = manifest
  /\ pc' = "install"
  /\ UNCHANGED <<manifest, phase, t, job, frame, pos, readers, history>>

\* No ID is left, or every remaining one names an orphan, which is found out
\* after the directory has been synchronized.
IdsExhausted ==
  /\ pc = "rotate"
  /\ FreeIds(Day(frame.min)) = {}
  /\ Return
  /\ installed' = IF t.next_segment_id = MaxSegmentId THEN installed ELSE manifest
  /\ UNCHANGED <<files, manifest, phase, readers>>

-----------------------------------------------------------------------------
(* Installing a manifest: wadb_save_manifest and wadb_atomic_file, for     *)
(* create_active, wadb_set_retention and wadb_retention_apply alike.       *)

\* The temporary file is complete and synchronized; rename installs it.
Rename ==
  /\ pc = "install"
  /\ manifest' = ManifestOf(staged)
  /\ pc' = "dirsync"
  /\ UNCHANGED <<files, installed, phase, t, job, frame, staged, pos, readers,
                 history>>

\* The new segment's header or the temporary file cannot be written, or the
\* rename fails: a new segment's file stays behind as an orphan.
InstallFails ==
  /\ pc = "install" /\ Faults
  /\ Return
  /\ UNCHANGED <<disk, phase, readers>>

\* Mutant: readers keep seeing retired segments.
StillReadableAll(table, segments) == table.readable_segments

\* The positions of readable_segments that retention leaves.
StillReadable(table, segments) ==
  {i \in table.readable_segments : segments[i].state # "RETIRED"}

\* The directory is synchronized: the manifest is safe, and the caller
\* publishes what it staged under db->mutex.
SyncDirectory ==
  /\ pc = "dirsync"
  /\ installed' = manifest
  /\ \/ /\ job = "append"
        /\ t' = [t EXCEPT !.segments = staged.segments,
                          !.next_segment_id = staged.next_segment_id]
        /\ pc' = "write" /\ staged' = NoTable /\ UNCHANGED <<job, frame, pos>>
     \/ /\ job = "retain"
        /\ t' = [t EXCEPT
                   !.segments = staged.segments,
                   !.preserved_sequence = staged.preserved_sequence,
                   !.preserved_time = staged.preserved_time,
                   !.pending_retention = TRUE,
                   !.readable_segments = StillReadable(t, staged.segments)]
        /\ pc' = "cleanup" /\ staged' = NoTable /\ UNCHANGED <<job, frame, pos>>
     \/ /\ job = "configure"
        /\ t' = [t EXCEPT !.retention_us = staged.retention_us]
        /\ Release
  /\ UNCHANGED <<files, manifest, phase, readers, history>>

SyncDirectoryFails ==
  /\ pc = "dirsync" /\ Faults
  /\ ReturnUncertain
  /\ UNCHANGED <<disk, phase, readers>>

-----------------------------------------------------------------------------
(* The frame itself: write_all, fdatasync, publication.                    *)

ActivePath == Path(LastSegment(t))

\* index_reserve or readable_reserve fails: the new segment stays empty.
ReserveFails ==
  /\ pc = "write" /\ Faults
  /\ Return
  /\ UNCHANGED <<disk, phase, readers>>

\* The first bytes of the frame reach the file.
WritePart ==
  /\ pc = "write"
  /\ files' = [files EXCEPT ![ActivePath].torn = TRUE]
  /\ pc' = "writing"
  /\ UNCHANGED <<manifest, installed, phase, t, job, frame, staged, pos,
                 readers, history>>

WriteRest ==
  /\ pc = "writing"
  /\ files' = [files EXCEPT ![ActivePath].torn = FALSE,
                            ![ActivePath].frames = Append(@, frame)]
  /\ pc' = "sync"
  /\ UNCHANGED <<manifest, installed, phase, t, job, frame, staged, pos,
                 readers, history>>

\* Mutant: a failed write is reported as a definite failure.
WriteFailsDefinitely ==
  /\ pc \in {"write", "writing", "sync"} /\ Faults
  /\ Return
  /\ UNCHANGED <<disk, phase, readers>>

\* write fails with nothing, or with part of the frame, in the file; or the
\* frame is complete and fdatasync fails.
WriteFails ==
  /\ pc \in {"write", "writing", "sync"} /\ Faults
  /\ ReturnUncertain
  /\ UNCHANGED <<disk, phase, readers>>

\* Mutant: the frame is published without fdatasync.
SyncFrameSkipped ==
  /\ pc = "sync"
  /\ pc' = "publish"
  /\ UNCHANGED <<disk, phase, t, job, frame, staged, pos, readers, history>>

SyncFrame ==
  /\ pc = "sync"
  /\ files' = [files EXCEPT ![ActivePath].synced = Len(files[ActivePath].frames)]
  /\ pc' = "publish"
  /\ UNCHANGED <<manifest, installed, phase, t, job, frame, staged, pos,
                 readers, history>>

\* The active segment's summary after the frame.
Extended(s) ==
  [s EXCEPT !.min_time = IF s.last_sequence = 0 THEN frame.min ELSE @,
            !.max_time = frame.max, !.last_sequence = frame.last,
            !.committed_bytes = @ + 1]

\* Publication under db->mutex, then the receipts.
Publish ==
  LET n == Len(t.segments) IN
  /\ pc = "publish"
  /\ t' = [t EXCEPT
             !.segments = [t.segments EXCEPT ![n] = Extended(t.segments[n])],
             !.readable_segments = IF t.segments[n].last_sequence = 0
                                   THEN t.readable_segments \cup {n}
                                   ELSE t.readable_segments,
             !.last_sequence = frame.last, !.last_time = frame.max]
  /\ acked' = acked \cup {frame}
  /\ Release
  /\ UNCHANGED <<disk, phase, readers, rejected, uncertain, attempts>>

-----------------------------------------------------------------------------
(* Retention: wadb_set_retention, wadb_retention_apply, cleanup.           *)

\* Mutant: the table is not checked for read_only.
SetRetentionUnchecked(duration) ==
  /\ phase = "open" /\ pc = "idle"
  /\ job' = "configure" /\ pc' = "install"
  /\ staged' = [t EXCEPT !.retention_us = duration]
  /\ UNCHANGED <<disk, phase, t, frame, pos, readers, history>>

SetRetention(duration) ==
  /\ phase = "open" /\ pc = "idle" /\ ~t.read_only
  /\ job' = "configure" /\ pc' = "install"
  /\ staged' = [t EXCEPT !.retention_us = duration]
  /\ UNCHANGED <<disk, phase, t, frame, pos, readers, history>>

Cutoff(now) ==
  IF t.retention_us # 0 /\ now >= t.retention_us THEN now - t.retention_us
                                                 ELSE 0

\* preview: the segments every row of which is older than the cutoff.
Eligible(now) ==
  {i \in 1 .. Len(t.segments) :
     /\ t.segments[i].state # "RETIRED"
     /\ t.segments[i].last_sequence # 0
     /\ t.segments[i].max_time < Cutoff(now)}

RetiredSegments(now) ==
  [i \in 1 .. Len(t.segments) |->
     IF i \in Eligible(now) THEN [t.segments[i] EXCEPT !.state = "RETIRED"]
                            ELSE t.segments[i]]

\* Mutants: a watermark is not preserved.
RetiredWithoutTime(now) ==
  LET last == Last(Eligible(now))
  IN [t EXCEPT !.segments = RetiredSegments(now),
               !.preserved_sequence = t.segments[last].last_sequence]

RetiredWithoutSequence(now) ==
  [t EXCEPT !.segments = RetiredSegments(now)]

\* The staged table: eligible segments retired, the watermarks those of the
\* last one the loop retires.
Retired(now) ==
  LET last == Last(Eligible(now))
  IN [t EXCEPT !.segments = RetiredSegments(now),
               !.preserved_sequence = t.segments[last].last_sequence,
               !.preserved_time = t.segments[last].max_time]

RetentionApply(now) ==
  /\ phase = "open" /\ pc = "idle" /\ ~t.read_only
  /\ job' = "retain"
  /\ \/ Eligible(now) = {} /\ pc' = "cleanup" /\ UNCHANGED staged
     \/ Eligible(now) # {} /\ pc' = "install" /\ staged' = Retired(now)
  /\ UNCHANGED <<disk, phase, t, frame, pos, readers, history>>

\* The last reader's release, or recovery, calls wadb_retention_cleanup.
CleanupBegin(r) ==
  /\ phase = "open" /\ pc = "idle" /\ r \in owed
  /\ owed' = owed \ {r}
  /\ job' = "cleanup" /\ pc' = "cleanup"
  /\ UNCHANGED <<disk, phase, t, frame, staged, pos, snap, pinned, snapshots,
                 history>>

\* The next retired segment of the loop after position i; 0 when done.
NextRetired(i) ==
  LET left == {j \in RetiredAt(t.segments) : j > i}
  IN IF left = {} THEN 0 ELSE First(left)

\* The end of a cleanup that ran; pending_retention stays set if it failed.
\* Recovery ignores the outcome and goes on to open the table.
CleanupDone(failed) ==
  /\ Release
  /\ t' = [t EXCEPT !.pending_retention = failed]
  /\ phase' = "open"

\* Mutant: cleanup does not look at the pins.
CleanupCheckUnpinned ==
  /\ pc = "cleanup"
  /\ \/ /\ t.pending_retention
        /\ pos' = NextRetired(0) /\ pc' = "unlink"
        /\ UNCHANGED <<phase, job, frame, staged>>
     \/ /\ ~t.pending_retention
        /\ Release /\ phase' = "open"
  /\ UNCHANGED <<disk, t, readers, history>>

\* Pins are read once, under db->mutex.
CleanupCheck ==
  /\ pc = "cleanup"
  /\ \/ /\ t.pending_retention /\ pinned = {}
        /\ pos' = NextRetired(0) /\ pc' = "unlink"
        /\ UNCHANGED <<phase, job, frame, staged>>
     \/ /\ ~(t.pending_retention /\ pinned = {})
        /\ Release /\ phase' = "open"
  /\ UNCHANGED <<disk, t, readers, history>>

\* unlink, for which a file that is already gone is no error, then the
\* synchronization of the partition directory.
Unlink ==
  /\ pc = "unlink" /\ pos # 0
  /\ files' = [k \in DOMAIN files \ {Path(t.segments[pos])} |-> files[k]]
  /\ pos' = NextRetired(pos)
  /\ UNCHANGED <<manifest, installed, phase, t, pc, job, frame, staged,
                 readers, history>>

CleanupEnd ==
  /\ pc = "unlink" /\ pos = 0
  /\ CleanupDone(FALSE)
  /\ UNCHANGED <<disk, readers, history>>

\* Either call fails.
CleanupFails ==
  /\ pc = "unlink" /\ pos # 0 /\ Faults
  /\ \/ UNCHANGED files
     \/ files' = [k \in DOMAIN files \ {Path(t.segments[pos])} |-> files[k]]
  /\ CleanupDone(TRUE)
  /\ UNCHANGED <<manifest, installed, readers, history>>

-----------------------------------------------------------------------------
(* Readers: wadb_snapshot_acquire and wadb_snapshot_release, for a range   *)
(* that covers every readable segment.                                     *)

Acquire(r) ==
  /\ phase = "open" /\ r \notin pinned \cup owed
  /\ snapshots < MaxSnapshots
  /\ snap' = [snap EXCEPT ![r] =
                {t.segments[i] : i \in t.readable_segments}]
  /\ pinned' = pinned \cup {r}
  /\ snapshots' = snapshots + 1
  /\ UNCHANGED <<disk, phase, t, lock, owed, history>>

\* Mutant: the last reader leaves the deletion to nobody.
ReleaseSnapshotOnly(r) ==
  /\ r \in pinned
  /\ pinned' = pinned \ {r}
  /\ snap' = [snap EXCEPT ![r] = {}]
  /\ UNCHANGED <<disk, phase, t, lock, owed, snapshots, history>>

ReleaseSnapshot(r) ==
  /\ r \in pinned
  /\ pinned' = pinned \ {r}
  /\ snap' = [snap EXCEPT ![r] = {}]
  /\ owed' = IF pinned' = {} /\ t.pending_retention THEN owed \cup {r}
                                                   ELSE owed
  /\ UNCHANGED <<disk, phase, t, lock, snapshots, history>>

\* check_segment: the file of a segment, as the snapshot copied it, is there,
\* has the copied length (exactly, once it is sealed), and its frames continue
\* one another in sequence and time from the first to the copied end.
CheckSegment(s) ==
  LET f == files[Path(s)]
      n == s.committed_bytes
      last_sequence(k) == IF k = 1 THEN s.first_sequence - 1
                                   ELSE f.frames[k - 1].last
      last_time(k) == IF k = 1 THEN s.min_time ELSE f.frames[k - 1].max
  IN /\ Exists(Path(s)) /\ f.first = s.first_sequence
     /\ n <= Len(f.frames)
     /\ s.state = "SEALED" => n = Len(f.frames) /\ ~f.torn
     /\ \A k \in 1 .. n :
          /\ last_sequence(k) # MaxSequence
          /\ f.frames[k].first = last_sequence(k) + 1
          /\ last_time(k) <= f.frames[k].min /\ f.frames[k].max <= s.max_time
          /\ Day(f.frames[k].min) = s.day_start
          /\ k = 1 => f.frames[k].min = s.min_time
     /\ last_sequence(n + 1) = s.last_sequence /\ last_time(n + 1) = s.max_time

\* wadb_integrity_check on a snapshot, within its budgets: the segments, in
\* order, leave no gap, and each checks.  Any other verdict than this one sets
\* read_only.
IntegrityCheck(segments) ==
  \A s \in segments :
    /\ LET earlier == {p \in segments : p.id < s.id}
           before == CHOOSE p \in earlier : \A q \in earlier : q.id <= p.id
       IN earlier # {} => /\ s.first_sequence = before.last_sequence + 1
                          /\ before.max_time <= s.min_time
    /\ CheckSegment(s)

-----------------------------------------------------------------------------
(* Death of the process (an orderly close is one with pc = "idle") and     *)
(* recovery: wadb_load_manifest, wadb_storage_recover, recover_segment.    *)

Crash ==
  /\ Crashes /\ phase # "closed"
  /\ phase' = "closed"
  /\ t' = NoTable
  /\ Release
  /\ snap' = [r \in Reader |-> {}] /\ pinned' = {} /\ owed' = {}
  /\ UNCHANGED <<disk, snapshots, history>>

\* The checks of wadb_load_manifest.
ManifestValid(m) ==
  LET segments == m.segments IN
  \A i \in 1 .. Len(segments) :
    LET s == segments[i] IN
    /\ 0 < s.id /\ s.id < m.next_segment_id
    /\ \A j \in 1 .. i - 1 : segments[j].id < s.id
    /\ 0 <= s.day_start /\ s.day_start % DayLength = 0 /\ s.first_sequence # 0
    /\ IF s.last_sequence # 0
       THEN /\ s.first_sequence <= s.last_sequence
            /\ s.day_start <= s.min_time /\ s.min_time <= s.max_time
            /\ Day(s.max_time) = s.day_start
       ELSE s.min_time = 0 /\ s.max_time = 0 /\ s.committed_bytes = 0
    /\ s.state = "ACTIVE" => i = Len(segments)

\* What scanning the frames of a segment finds.
Scanned(s) ==
  LET frames == files[Path(s)].frames
      n == Len(frames)
  IN [s EXCEPT !.last_sequence = IF n = 0 THEN 0 ELSE frames[n].last,
               !.min_time = IF n = 0 THEN 0 ELSE frames[1].min,
               !.max_time = IF n = 0 THEN 0 ELSE frames[n].max,
               !.committed_bytes = n]

\* Each frame continues the one before it, within the segment's day.
FramesFollow(s) ==
  LET frames == files[Path(s)].frames IN
  \A k \in 1 .. Len(frames) :
    /\ frames[k].first = IF k = 1 THEN s.first_sequence
                                  ELSE frames[k - 1].last + 1
    /\ Day(frames[k].min) = s.day_start
    /\ k > 1 => frames[k - 1].max <= frames[k].min

\* The segments that wadb_storage_recover goes through before position i.
Before(m, i) ==
  {j \in 1 .. i - 1 : /\ m.segments[j].state # "RETIRED"
                      /\ Scanned(m.segments[j]).last_sequence # 0}

\* recover_segment at position i, after every earlier one succeeded:
\* last_sequence and last_time are those of the last nonempty segment before
\* it, or the preserved watermarks.  A sealed segment with a usable index
\* (the positions in indexed) is not scanned.
SegmentRecovers(m, i, indexed) ==
  LET s == m.segments[i]
      f == files[Path(s)]
      before == Before(m, i)
      last == Last(before)
      last_sequence == IF before = {} THEN m.preserved_sequence
                       ELSE Scanned(m.segments[last]).last_sequence
      last_time == IF before = {} THEN m.preserved_time
                   ELSE Scanned(m.segments[last]).max_time
  IN /\ Exists(Path(s))
     /\ Len(f.frames) >= s.committed_bytes
     /\ s.state # "ACTIVE" => Len(f.frames) = s.committed_bytes /\ ~f.torn
     /\ f.first = s.first_sequence
     /\ last_sequence # MaxSequence
     /\ s.first_sequence = last_sequence + 1
     /\ IF s.state # "ACTIVE" /\ i \in indexed
        THEN s.last_sequence # 0 => last_time <= s.min_time
        ELSE /\ FramesFollow(s)
             /\ Len(f.frames) # 0 => last_time <= f.frames[1].min
             /\ IF s.state = "ACTIVE"
                THEN s.last_sequence <= Scanned(s).last_sequence
                ELSE s = Scanned(s)

Recovers(m, indexed) ==
  /\ ManifestValid(m)
  /\ \A i \in 1 .. Len(m.segments) :
       m.segments[i].state # "RETIRED" => SegmentRecovers(m, i, indexed)

\* Mutant: the manifest's summary of the active segment is trusted.
RecoveredSegmentsUnscanned(m) == m.segments

RecoveredSegments(m) ==
  [i \in 1 .. Len(m.segments) |->
     IF m.segments[i].state = "ACTIVE" THEN Scanned(m.segments[i])
                                       ELSE m.segments[i]]

\* The table that recovery builds.
RecoveredTable(m) ==
  LET segments == RecoveredSegments(m)
      readable == {i \in 1 .. Len(segments) : /\ segments[i].state # "RETIRED"
                                              /\ segments[i].last_sequence # 0}
      last == Last(readable)
  IN [segments |-> segments, next_segment_id |-> m.next_segment_id,
      preserved_sequence |-> m.preserved_sequence,
      preserved_time |-> m.preserved_time, retention_us |-> m.retention_us,
      last_sequence |-> IF readable = {} THEN m.preserved_sequence
                        ELSE segments[last].last_sequence,
      last_time |-> IF readable = {} THEN m.preserved_time
                    ELSE segments[last].max_time,
      read_only |-> FALSE,
      pending_retention |-> RetiredAt(segments) # {},
      readable_segments |-> readable]

\* The segment files with a torn tail that recovery truncates.
Torn ==
  {k \in DOMAIN files : /\ files[k].torn
                        /\ \E i \in 1 .. Len(manifest.segments) :
                             /\ manifest.segments[i].state = "ACTIVE"
                             /\ Path(manifest.segments[i]) = k}

\* A torn tail is cut off and the file synchronized; if segments are retired,
\* their deletion is completed before wadb_open returns.
Open(indexed) ==
  /\ phase = "closed"
  /\ Recovers(manifest, indexed)
  /\ t' = RecoveredTable(manifest)
  /\ files' = [k \in DOMAIN files |->
                 IF k \in Torn
                 THEN [files[k] EXCEPT !.torn = FALSE,
                                       !.synced = Len(files[k].frames)]
                 ELSE files[k]]
  /\ IF RetiredAt(manifest.segments) # {}
     THEN phase' = "recovering" /\ pc' = "cleanup" /\ job' = "cleanup"
     ELSE phase' = "open" /\ UNCHANGED <<pc, job>>
  /\ UNCHANGED <<manifest, installed, frame, staged, pos, readers, history>>

\* The truncation happened, the synchronization failed or the process died.
OpenInterrupted(indexed) ==
  /\ phase = "closed" /\ Torn # {} /\ (Faults \/ Crashes)
  /\ Recovers(manifest, indexed)
  /\ files' = [k \in DOMAIN files |->
                 IF k \in Torn THEN [files[k] EXCEPT !.torn = FALSE]
                               ELSE files[k]]
  /\ UNCHANGED <<manifest, installed, phase, t, lock, readers, history>>

\* wadb_open returns WADB_CORRUPT.
OpenCorrupt(indexed) ==
  /\ phase = "closed"
  /\ ~Recovers(manifest, indexed)
  /\ phase' = "corrupt"
  /\ UNCHANGED <<disk, t, lock, readers, history>>

-----------------------------------------------------------------------------
Init ==
  /\ files = << >>
  /\ \E r \in Retention : manifest = ManifestOf([NoTable EXCEPT !.retention_us = r])
  /\ installed = manifest
  /\ phase = "closed" /\ t = NoTable
  /\ pc = "idle" /\ job = "none" /\ frame = NoFrame /\ staged = NoTable
  /\ pos = 0
  /\ snap = [r \in Reader |-> {}] /\ pinned = {} /\ owed = {}
  /\ acked = {} /\ rejected = {} /\ uncertain = {}
  /\ attempts = 0 /\ snapshots = 0

AppendStep ==
  \/ \E n \in 1 .. MaxRows, lo, hi \in Time, limit \in BOOLEAN :
       AppendBegin(n, lo, hi, limit)
  \/ RotateFails \/ CreateFile \/ IdsExhausted
  \/ ReserveFails \/ WritePart \/ WriteRest \/ WriteFails \/ SyncFrame
  \/ Publish

InstallStep ==
  Rename \/ InstallFails \/ SyncDirectory \/ SyncDirectoryFails

RetentionStep ==
  \/ \E d \in Retention : SetRetention(d)
  \/ \E now \in 0 .. MaxNow : RetentionApply(now)
  \/ \E r \in Reader : CleanupBegin(r)
  \/ CleanupCheck \/ Unlink \/ CleanupEnd \/ CleanupFails

ReaderStep == \E r \in Reader : Acquire(r) \/ ReleaseSnapshot(r)

RecoveryStep ==
  \/ Crash
  \/ \E indexed \in SUBSET (1 .. Len(manifest.segments)) :
       Open(indexed) \/ OpenInterrupted(indexed) \/ OpenCorrupt(indexed)

Next ==
  AppendStep \/ InstallStep \/ RetentionStep \/ ReaderStep \/ RecoveryStep

Spec == Init /\ [][Next]_vars

\* The steps of whoever holds writer_mutex.
HolderStep ==
  \/ RotateFails \/ CreateFile \/ IdsExhausted \/ InstallStep
  \/ WritePart \/ WriteRest \/ SyncFrame \/ Publish
  \/ CleanupCheck \/ Unlink \/ CleanupEnd

\* A thread that runs is scheduled, a reader gives its snapshot back, and a
\* thread that waits for writer_mutex gets it if it is released again and again.
Fairness ==
  /\ WF_vars(HolderStep)
  /\ \A r \in Reader : WF_vars(ReleaseSnapshot(r)) /\ SF_vars(CleanupBegin(r))

FairSpec == Spec /\ Fairness

-----------------------------------------------------------------------------
(* Properties.                                                             *)

\* Type invariant: the disk, the table and the holder of writer_mutex have
\* the shapes declared above.
TypeOK ==
  /\ DOMAIN files \subseteq Int \X Nat /\ files \in [DOMAIN files -> File]
  /\ manifest \in Manifest /\ installed \in Manifest
  /\ phase \in {"closed", "recovering", "open", "corrupt"}
  /\ t \in Table /\ staged \in Table
  /\ pc \in {"idle", "rotate", "install", "dirsync", "write",
            "writing", "sync", "publish", "cleanup", "unlink"}
  /\ job \in {"none", "append", "configure", "retain", "cleanup"}
  /\ frame \in Frame /\ pos \in Nat
  /\ snap \in [Reader -> SUBSET Segment]
  /\ pinned \subseteq Reader /\ owed \subseteq Reader
  /\ acked \subseteq Frame
  /\ rejected \subseteq Nat /\ uncertain \subseteq Nat
  /\ attempts \in Nat /\ snapshots \in Nat

ActiveIsLast(segments) ==
  \A i \in 1 .. Len(segments) :
    segments[i].state = "ACTIVE" => i = Len(segments)

\* One writable tail: whatever manifest a crash leaves, in memory, staged or
\* on disk, only its last segment can be active, so recovery never finds two
\* tails to append to (create_active, wadb_retention_apply).
OneTail ==
  /\ ActiveIsLast(t.segments) /\ ActiveIsLast(staged.segments)
  /\ ActiveIsLast(manifest.segments) /\ ActiveIsLast(installed.segments)

\* The synchronized part of a named segment file contains frame f.
Holds(k, f) ==
  Exists(k) /\ \E j \in 1 .. files[k].synced : files[k].frames[j] = f

\* An acknowledged group survives the death of the process: it lies in the
\* synchronized part of a file that the installed manifest names as live,
\* until retention moves the preserved watermark past it
\* (wadb_commit_requests, wadb_retention_apply).  Acknowledged groups never
\* share a sequence, and later sequences never have earlier ingestion times:
\* restarts, truncated tails and the retirement of every row leave the
\* watermarks in force (wadb_storage_recover).
AckedDurable ==
  \A f \in acked :
    /\ \/ f.last <= manifest.preserved_sequence
       \/ \E i \in 1 .. Len(manifest.segments) :
            /\ manifest.segments[i].state # "RETIRED"
            /\ Holds(Path(manifest.segments[i]), f)
    /\ \A g \in acked \ {f} :
         \/ f.last < g.first /\ f.max <= g.min
         \/ g.last < f.first /\ g.max <= f.min

\* A group that failed with a definite status is in no segment file, so no
\* later recovery can bring it back (wadb_commit_requests).
RejectedNeverStored ==
  \A k \in DOMAIN files : \A j \in 1 .. Len(files[k].frames) :
    files[k].frames[j].tag \notin rejected

\* While a snapshot is held, all that it copied can be read from the files,
\* whatever is appended, sealed, retired or deleted meanwhile: an integrity
\* check that works through it at any time finds no gap, no missing or short
\* file and no row out of order, so it never stops a healthy table
\* (wadb_snapshot_acquire, cleanup, wadb_integrity_check).
PinnedReadable == \A r \in pinned : IntegrityCheck(snap[r])

\* What readers see is gap-free: the readable segments, in order, hold exactly
\* the sequences after the preserved watermark up to last_sequence, in the
\* order of ingestion times, and none of them is retired
\* (wadb_commit_requests, wadb_retention_apply, recovery).
ReadableContiguous ==
  LET readable == t.readable_segments
      earlier(i) == {j \in readable : j < i}
  IN /\ \A i \in readable :
          /\ t.segments[i].state # "RETIRED"
          /\ IF earlier(i) = {}
             THEN t.segments[i].first_sequence = t.preserved_sequence + 1
             ELSE LET before == t.segments[Last(earlier(i))] IN
                  /\ t.segments[i].first_sequence = before.last_sequence + 1
                  /\ before.max_time <= t.segments[i].min_time
     /\ t.last_sequence = IF readable = {} THEN t.preserved_sequence
                          ELSE t.segments[Last(readable)].last_sequence

\* The only state that recovery rejects is a manifest with an empty sealed
\* segment that the preserved watermark has passed: every other crash point
\* and failed call leaves a database that opens (recover_segment).
CorruptOnlyWhenStranded ==
  phase = "corrupt" =>
    \E i \in 1 .. Len(manifest.segments) :
      LET s == manifest.segments[i] IN
      /\ s.state = "SEALED" /\ s.last_sequence = 0
      /\ s.first_sequence <= manifest.preserved_sequence

\* The disk is as the table says: the manifest has its segments, watermarks and
\* retention, and the file of its tail has the frames that it counts, whole.
Settled ==
  /\ Len(manifest.segments) = Len(t.segments)
  /\ \A i \in 1 .. Len(t.segments) :
       /\ Path(manifest.segments[i]) = Path(t.segments[i])
       /\ manifest.segments[i].state = t.segments[i].state
  /\ manifest.next_segment_id = t.next_segment_id
  /\ manifest.preserved_sequence = t.preserved_sequence
  /\ manifest.preserved_time = t.preserved_time
  /\ manifest.retention_us = t.retention_us
  /\ HasActive(t) =>
       /\ Exists(ActivePath) /\ ~files[ActivePath].torn
       /\ Len(files[ActivePath].frames) = LastSegment(t).committed_bytes

\* Whatever leaves the disk in doubt closes the table until it is reopened.
\* Between mutations a table that accepts them is as the disk has it, so every
\* outcome that may have put a frame or a manifest there unknown to the table
\* has set read_only; and while read_only is set nothing is appended and no
\* manifest installed (protect_uncertain, create_active, wadb_commit_requests,
\* the checks of every mutation).  The uncertain status of an index saved by a
\* rotation leaves the table open, and the disk as the table says.
UncertainStopsMutation ==
  /\ [](phase = "open" /\ pc = "idle" /\ ~t.read_only => Settled)
  /\ [][t.read_only /\ phase' # "closed" =>
          /\ manifest' = manifest
          /\ \A k \in DOMAIN files \cap DOMAIN files' :
               files'[k].frames = files[k].frames]_vars

RetiredFiles ==
  {i \in RetiredAt(t.segments) : Exists(Path(t.segments[i]))}

\* Retirement completes: once readers let go, the files of retired segments
\* are deleted, whoever of the retention caller and the last reader finds the
\* pins gone (wadb_retention_apply, wadb_snapshot_release, cleanup).
RetirementCompletes == RetiredFiles # {} ~> RetiredFiles = {}

-----------------------------------------------------------------------------
(* Refinement of DurableLog.                                               *)

\* The complete frames of the segments that the manifest names as live.
StoredFrames ==
  UNION {{files[k].frames[j] : j \in 1 .. Len(files[k].frames)} :
           k \in {Path(manifest.segments[i]) :
                     i \in {i \in 1 .. Len(manifest.segments) :
                             manifest.segments[i].state # "RETIRED"}}
                \cap DOMAIN files}

Log == INSTANCE DurableLog WITH
         log <- StoredFrames, low <- manifest.preserved_sequence

\* Segments, manifests, torn tails, restarts and failed calls implement one
\* log: frames enter it at its end only, stay until an expired prefix is
\* retired, and an acknowledged group is in it (the whole storage layer).
ImplementsLog == Log!Spec

-----------------------------------------------------------------------------
(* What the documents say and the code does not do.                        *)

\* docs/failure-testing.md asks every restart to end with the database open
\* and the watermarks in agreement with the manifest.
RestartOpens == phase # "corrupt"

\* docs/architecture.md: "Synchronize the old tail, publish the sealed state"
\* (create_active): a sealed segment has no frame that was never synchronized.
SealedTailSynced ==
  \A i \in 1 .. Len(manifest.segments) :
    LET s == manifest.segments[i] IN
    s.state = "SEALED" /\ Exists(Path(s)) =>
      files[Path(s)].synced = Len(files[Path(s)].frames)

\* docs/architecture.md: retirement first publishes durable tombstones, then
\* deletes (cleanup): no live segment of the manifest on the device has lost
\* its file.
DeletedAfterDurable ==
  \A i \in 1 .. Len(installed.segments) :
    installed.segments[i].state # "RETIRED" =>
      Exists(Path(installed.segments[i]))

\* docs/storage-format.md: the manifest that names a new segment is durable
\* before rows in the segment are acknowledged (create_active).
AckedAfterDurable ==
  \A f \in acked :
    \/ f.last <= installed.preserved_sequence
    \/ \E i \in 1 .. Len(installed.segments) :
         Holds(Path(installed.segments[i]), f)

\* wadb.h: WADB_INDETERMINATE requires recovery, so the table that returned it
\* accepts no mutation before that (create_active, wadb_index_save).
UncertainNeedsRecovery == [][uncertain' # uncertain => t'.read_only]_vars
=============================================================================
