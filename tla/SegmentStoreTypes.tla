-------------------------- MODULE SegmentStoreTypes -------------------------
(* Type correctness of SegmentStore, for every value of its constants, and  *)
(* the lemmas about its operators that the other proofs use.                *)
EXTENDS SegmentStore, TLAPS, WellFoundedInduction

-----------------------------------------------------------------------------
(* First and Last.                                                         *)

\* First(S) is the least element of a nonempty set of naturals: the loops of
\* create_active and cleanup stop at the first free ID or retired segment.
LEMMA FirstIsLeast ==
  ASSUME NEW S \in SUBSET Nat, S # {}
  PROVE  First(S) \in S /\ \A j \in S : First(S) <= j
<1>1. PICK x \in S : \A y \in S : ~(<<y, x>> \in OpToRel(<, Nat))
  BY Zenon, NatLessThanWellFounded, WFMin
<1>2. \A y \in S : x <= y
  <2>1. TAKE y \in S
  <2>2. ~(y < x)
    BY Zenon, <1>1 DEF OpToRel
  <2>. QED BY <2>2
<1>. QED BY Zenon, <1>2 DEF First

\* Last(S) is the greatest element of a nonempty set of positions: the last
\* segment that a loop over the manifest reaches.
LEMMA LastIsGreatest ==
  ASSUME NEW n \in Nat, NEW S \in SUBSET (1 .. n), S # {}
  PROVE  Last(S) \in S /\ \A j \in S : j <= Last(S)
<1>. DEFINE M == {n - i : i \in S}
<1>1. M \in SUBSET Nat /\ M # {}
  <2>1. \A i \in S : i \in 1 .. n /\ n - i \in Nat
    OBVIOUS
  <2>2. PICK i \in S : TRUE
    BY Zenon
  <2>3. n - i \in M
    BY <2>2
  <2>4. \A m \in M : m \in Nat
    BY <2>1
  <2>. QED BY <2>3, <2>4
<1>2. PICK i \in S : First(M) = n - i
  BY ZenonT(30), <1>1, FirstIsLeast
<1>3. \A j \in S : j <= i
  <2>1. TAKE j \in S
  <2>2. First(M) <= n - j
    BY <1>1, FirstIsLeast
  <2>. QED BY <2>2, <1>2
<1>. QED BY Zenon, <1>3 DEF Last

-----------------------------------------------------------------------------
(* Type correctness.                                                       *)

Writing == {"write", "writing", "sync", "publish"}
Installing == {"install", "dirsync"}

\* What typing rests on: positions stay inside the segment array, a staged
\* array has the length its job gives it, a frame has a segment to go to, and
\* nothing holds writer_mutex while the database is closed.
Positions ==
  /\ t.readable_segments \subseteq 1 .. Len(t.segments)
  /\ pc \in Installing /\ job = "append" =>
       Len(staged.segments) = Len(t.segments) + 1
  /\ pc \in Installing /\ job = "retain" =>
       Len(staged.segments) = Len(t.segments)
  /\ pc \in Writing => t.segments # << >>
  /\ pc \in Writing \cup {"rotate"} => job = "append"
  /\ phase \in {"closed", "corrupt"} => pc = "idle"

TypeInv == TypeOK /\ Positions

\* The constants of an empty table and an empty group have their types.
LEMMA NoTableType ==
  NoTable \in Table /\ NoFrame \in Frame /\ NoTable.readable_segments = {}
    /\ NoTable.segments = << >>
BY DEF NoTable, Table, NoFrame, Frame, Segment

\* Day rounds a time to an integer.
LEMMA DayType ==
  ASSUME NEW x \in Nat
  PROVE  Day(x) \in Int
BY SizesAssumption DEF Day

\* The empty database has the types and positions.
LEMMA TypeInit == Init => TypeInv
<1>. SUFFICES ASSUME Init PROVE TypeInv
  OBVIOUS
<1>1. manifest \in Manifest
  BY ModeAssumption, NoTableType DEF Init, ManifestOf, Manifest, Table
<1>2. TypeOK
  BY <1>1, NoTableType DEF Init, TypeOK
<1>3. Positions
  BY NoTableType DEF Init, Positions, Installing, Writing
<1>. QED BY <1>2, <1>3 DEF TypeInv

\* The fields of a table.
LEMMA TableFields ==
  ASSUME NEW x \in Table
  PROVE  /\ x.segments \in Seq(Segment) /\ x.next_segment_id \in Nat \ {0}
         /\ x.preserved_sequence \in Nat /\ x.preserved_time \in Nat
         /\ x.retention_us \in Nat
         /\ x.last_sequence \in Nat /\ x.last_time \in Nat
         /\ x.read_only \in BOOLEAN /\ x.pending_retention \in BOOLEAN
         /\ x.readable_segments \in SUBSET Nat
BY DEF Table

\* The fields of a frame.
LEMMA FrameFields ==
  ASSUME NEW x \in Frame
  PROVE  /\ x.first \in Nat /\ x.last \in Nat /\ x.min \in Nat
         /\ x.max \in Nat /\ x.tag \in Nat
BY DEF Frame

\* The fields of a file.
LEMMA FileFields ==
  ASSUME NEW x \in File
  PROVE  /\ x.first \in Nat /\ x.frames \in Seq(Frame)
         /\ x.torn \in BOOLEAN /\ x.synced \in Nat
BY DEF File

\* The fields of a segment.
LEMMA SegmentFields ==
  ASSUME NEW x \in Segment
  PROVE  /\ x.id \in Nat \ {0} /\ x.day_start \in Int
         /\ x.first_sequence \in Nat \ {0} /\ x.last_sequence \in Nat
         /\ x.min_time \in Nat /\ x.max_time \in Nat
         /\ x.committed_bytes \in Nat /\ x.state \in State
BY DEF Segment

\* A segment whose state changes is a segment.
LEMMA StateType ==
  ASSUME NEW s \in Segment, NEW st \in State
  PROVE  [s EXCEPT !.state = st] \in Segment
BY DEF Segment

\* The summary that publication computes is a segment.
LEMMA ExtendedType ==
  ASSUME NEW s \in Segment, frame \in Frame
  PROVE  Extended(s) \in Segment
<1>1. s.committed_bytes + 1 \in Nat /\ frame.min \in Nat /\ frame.max \in Nat
        /\ frame.last \in Nat /\ s.min_time \in Nat
  BY SegmentFields, FrameFields
<1>. DEFINE min == IF s.last_sequence = 0 THEN frame.min ELSE s.min_time
<1>2. min \in Nat
  BY <1>1
<1>. HIDE DEF min
<1>3. Extended(s) = [s EXCEPT !.min_time = min, !.max_time = frame.max,
                              !.last_sequence = frame.last,
                              !.committed_bytes = s.committed_bytes + 1]
  BY DEF Extended, Segment, min
<1>. QED BY ZenonT(30), <1>1, <1>2, <1>3 DEF Segment

\* Sealing keeps the segments and their positions.
LEMMA SealedType ==
  ASSUME NEW x \in Seq(Segment)
  PROVE  Sealed(x) \in Seq(Segment) /\ Len(Sealed(x)) = Len(x)
<1>1. \A i \in 1 .. Len(x) : x[i] \in Segment
  OBVIOUS
<1>2. \A i \in 1 .. Len(x) : [x[i] EXCEPT !.state = "SEALED"] \in Segment
  BY Zenon, <1>1, StateType DEF State
<1>. QED BY <1>1, <1>2 DEF Sealed

\* Rotation stages one segment more.
LEMMA RotatedType ==
  ASSUME t \in Table, NEW id \in Nat \ {0}, NEW day \in Int
  PROVE  /\ Rotated(id, day) \in Table
         /\ Len(Rotated(id, day).segments) = Len(t.segments) + 1
<1>1. FreshSegment(id, day) \in Segment
  BY TableFields DEF FreshSegment, Segment, State
<1>2. t.segments \in Seq(Segment) /\ Sealed(t.segments) \in Seq(Segment)
        /\ Len(Sealed(t.segments)) = Len(t.segments)
  BY TableFields, SealedType
<1>. DEFINE segments == Append(Sealed(t.segments), FreshSegment(id, day))
<1>3. segments \in Seq(Segment) /\ Len(segments) = Len(t.segments) + 1
  BY <1>1, <1>2
<1>4. id + 1 \in Nat \ {0}
  OBVIOUS
<1>. HIDE DEF segments
<1>5. Rotated(id, day) = [t EXCEPT !.segments = segments,
                                   !.next_segment_id = id + 1]
  BY DEF Rotated, segments
<1>. QED BY ZenonT(30), <1>3, <1>4, <1>5 DEF Table

\* Retention stages as many segments, with the watermarks of one of them.
LEMMA RetiredType ==
  ASSUME t \in Table, NEW now, Eligible(now) # {}
  PROVE  /\ Retired(now) \in Table
         /\ Len(Retired(now).segments) = Len(t.segments)
<1>1. t.segments \in Seq(Segment) /\ Len(t.segments) \in Nat
        /\ \A i \in 1 .. Len(t.segments) : t.segments[i] \in Segment
  BY TableFields
<1>2. \A i \in 1 .. Len(t.segments) :
        [t.segments[i] EXCEPT !.state = "RETIRED"] \in Segment
  BY Zenon, <1>1, StateType DEF State
<1>. DEFINE segments == RetiredSegments(now)
            last == Last(Eligible(now))
<1>3. segments \in Seq(Segment) /\ Len(segments) = Len(t.segments)
  BY <1>1, <1>2 DEF RetiredSegments
<1>4. last \in 1 .. Len(t.segments)
  <2>1. Eligible(now) \in SUBSET (1 .. Len(t.segments))
    BY DEF Eligible
  <2>. QED BY Zenon, <1>1, <2>1, LastIsGreatest
<1>5. t.segments[last].last_sequence \in Nat /\ t.segments[last].max_time \in Nat
  BY <1>1, <1>4, SegmentFields
<1>. HIDE DEF segments, last
<1>6. Retired(now) = [t EXCEPT !.segments = segments,
                        !.preserved_sequence = t.segments[last].last_sequence,
                        !.preserved_time = t.segments[last].max_time]
  BY DEF Retired, segments, last
<1>. QED BY ZenonT(30), <1>3, <1>5, <1>6 DEF Table

\* create_active takes an ID whose path is free.
LEMMA FreshId ==
  ASSUME TypeInv, CreateFile
  PROVE  LET day == Day(frame.min)
             id == First(FreeIds(day))
         IN /\ day \in Int /\ id \in Nat \ {0} /\ t.next_segment_id <= id
            /\ <<day, id>> \notin DOMAIN files
<1>0. frame \in Frame /\ t.next_segment_id \in Nat \ {0}
  BY TableFields DEF TypeInv, TypeOK
<1>. DEFINE day == Day(frame.min)
            id == First(FreeIds(day))
<1>1. day \in Int
  BY <1>0, DayType, FrameFields
<1>2. FreeIds(day) # {}
  BY DEF CreateFile
<1>. HIDE DEF day
<1>3. FreeIds(day) \in SUBSET Nat
  BY <1>0, SizesAssumption DEF FreeIds
<1>4. id \in FreeIds(day)
  BY <1>2, <1>3, FirstIsLeast
<1>. HIDE DEF id
<1>5. id \in Nat \ {0} /\ t.next_segment_id <= id /\ <<day, id>> \notin DOMAIN files
  BY <1>0, <1>4, SizesAssumption DEF FreeIds, Exists
<1>. QED BY <1>1, <1>5 DEF day, id

\* A step of the append path preserves the types.
LEMMA TypeAppend == TypeInv /\ AppendStep => TypeInv'
<1>. SUFFICES ASSUME TypeInv, AppendStep PROVE TypeInv'
  OBVIOUS
<1>0. /\ t \in Table /\ staged \in Table /\ frame \in Frame
      /\ files \in [DOMAIN files -> File]
  BY DEF TypeInv, TypeOK
<1>. USE NoTableType DEF TypeInv, TypeOK, Positions, Installing, Writing, disk,
         lock, readers, history, Release
<1>1. ASSUME NEW n \in 1 .. MaxRows, NEW lo \in Time, NEW hi \in Time,
             NEW limit \in BOOLEAN, AppendBegin(n, lo, hi, limit)
      PROVE  TypeInv'
  <2>1. n \in Nat /\ lo \in Nat /\ hi \in Nat
    BY SMTT(30), SizesAssumption DEF Time
  <2>2. frame' \in Frame
    <3>1. t.last_sequence \in Nat /\ attempts \in Nat
      BY <1>0, TableFields
    <3>. HIDE DEF TypeInv, TypeOK
    <3>. QED BY SMTT(30), <1>1, <2>1, <3>1 DEF AppendBegin, Frame
  <2>3. pc' = "write" => t.segments # << >>
    BY <1>1 DEF AppendBegin, NeedsFresh, HasActive
  <2>. QED BY SMTT(30), <1>1, <2>2, <2>3 DEF AppendBegin
<1>2. CASE RotateFails
  <2>1. frame.tag \in Nat
    BY <1>0, FrameFields
  <2>. QED BY <1>2, <2>1 DEF RotateFails, Return
<1>3. CASE CreateFile
  <2>. DEFINE day == Day(frame.min)
              id == First(FreeIds(day))
  <2>1. day \in Int /\ id \in Nat \ {0}
    <3>. HIDE DEF TypeInv, TypeOK
    <3>. QED BY <1>3, FreshId
  <2>3. files' \in [DOMAIN files' -> File]
        /\ DOMAIN files' = DOMAIN files \cup {<<day, id>>}
    <3>1. t.last_sequence + 1 \in Nat
      BY <1>0, TableFields
    <3>2. [first |-> t.last_sequence + 1, frames |-> << >>, torn |-> FALSE,
           synced |-> 0] \in File
      BY <3>1 DEF File
    <3>. HIDE DEF day, id, TypeInv, TypeOK
    <3>. QED BY <1>0, <1>3, <3>2 DEF CreateFile, day, id
  <2>4. /\ staged' \in Table
        /\ Len(staged'.segments) = Len(t.segments) + 1
    <3>. HIDE DEF day, id, TypeInv, TypeOK
    <3>1. staged' = Rotated(id, day)
      BY <1>3 DEF CreateFile, day, id
    <3>. QED BY <1>0, <2>1, <3>1, RotatedType
  <2>5. DOMAIN files' \subseteq Int \X Nat
    <3>. HIDE DEF day, id
    <3>. QED BY <2>1, <2>3
  <2>6. /\ pc' = "install" /\ installed' = manifest
        /\ UNCHANGED <<manifest, phase, t, job, frame, pos, readers, history>>
    <3>. HIDE DEF TypeInv, TypeOK
    <3>. QED BY <1>3 DEF CreateFile
  <2>7. job = "append" /\ pc = "rotate" /\ phase \notin {"closed", "corrupt"}
    BY <1>3 DEF CreateFile
  <2>. HIDE DEF day, id
  <2>. QED BY <2>3, <2>4, <2>5, <2>6, <2>7
<1>4. CASE IdsExhausted
  BY SMTT(30), <1>0, <1>4, FrameFields DEF IdsExhausted, Return
<1>5. CASE ReserveFails
  BY <1>0, <1>5, FrameFields DEF ReserveFails, Return
<1>6. CASE WritePart
  BY ZenonT(30), <1>6 DEF WritePart, File
<1>7. CASE WriteRest
  <2>1. files' \in [DOMAIN files' -> File] /\ DOMAIN files' = DOMAIN files
    <3>. HIDE DEF TypeInv, TypeOK
    <3>1. \A k \in DOMAIN files : /\ files[k].frames \in Seq(Frame)
                                  /\ Append(files[k].frames, frame) \in Seq(Frame)
      BY <1>0, FileFields
    <3>. QED BY ZenonT(30), <1>0, <1>7, <3>1 DEF WriteRest, File
  <2>. QED BY <1>7, <2>1 DEF WriteRest
<1>8. CASE WriteFails
  <2>1. t' \in Table /\ t'.segments = t.segments
          /\ t'.readable_segments = t.readable_segments
    BY ZenonT(30), <1>0, <1>8 DEF WriteFails, ReturnUncertain, Table
  <2>. QED BY <1>0, <1>8, <2>1, FrameFields DEF WriteFails, ReturnUncertain
<1>9. CASE SyncFrame
  <2>1. files' \in [DOMAIN files' -> File] /\ DOMAIN files' = DOMAIN files
    <3>. HIDE DEF TypeInv, TypeOK
    <3>1. \A k \in DOMAIN files : Len(files[k].frames) \in Nat
      BY <1>0, FileFields
    <3>. QED BY ZenonT(30), <1>0, <1>9, <3>1 DEF SyncFrame, File
  <2>. QED BY SMTT(30), <1>9, <2>1 DEF SyncFrame
<1>10. CASE Publish
  <2>. DEFINE n == Len(t.segments)
  <2>1. n \in 1 .. n /\ t.segments[n] \in Segment
    BY <1>0, <1>10, TableFields DEF Publish
  <2>2. Extended(t.segments[n]) \in Segment
    <3>. HIDE DEF TypeInv, TypeOK, n
    <3>. QED BY <1>0, <2>1, ExtendedType
  <2>3. /\ t' \in Table /\ Len(t'.segments) = n
        /\ t'.readable_segments \subseteq t.readable_segments \cup {n}
    <3>. DEFINE segments == [t.segments EXCEPT ![n] = Extended(t.segments[n])]
                readable == IF t.segments[n].last_sequence = 0
                            THEN t.readable_segments \cup {n}
                            ELSE t.readable_segments
    <3>1. segments \in Seq(Segment) /\ Len(segments) = n
      BY <1>0, <2>1, <2>2, TableFields
    <3>2. frame.last \in Nat /\ frame.max \in Nat /\ n \in Nat
      BY <1>0, FrameFields, TableFields
    <3>3. readable \in SUBSET Nat /\ readable \subseteq t.readable_segments \cup {n}
      BY <1>0, <3>2, TableFields
    <3>. HIDE DEF TypeInv, TypeOK
    <3>4. t' = [t EXCEPT !.segments = segments, !.readable_segments = readable,
                         !.last_sequence = frame.last, !.last_time = frame.max]
      BY <1>10 DEF Publish
    <3>. HIDE DEF segments, readable, n
    <3>. QED BY Zenon, <1>0, <3>1, <3>2, <3>3, <3>4 DEF Table
  <2>. QED BY <1>0, <1>10, <2>1, <2>3 DEF Publish
<1>. QED
  BY SMTT(30), <1>1, <1>2, <1>3, <1>4, <1>5, <1>6, <1>7, <1>8, <1>9, <1>10
     DEF AppendStep

\* A step of a manifest installation preserves the types.
LEMMA TypeInstall == TypeInv /\ InstallStep => TypeInv'
<1>. SUFFICES ASSUME TypeInv, InstallStep PROVE TypeInv'
  OBVIOUS
<1>0. /\ t \in Table /\ staged \in Table /\ frame \in Frame
  BY DEF TypeInv, TypeOK
<1>. USE NoTableType DEF TypeInv, TypeOK, Positions, Installing, Writing, disk,
         lock, readers, history, Release
<1>1. CASE Rename
  <2>1. ManifestOf(staged) \in Manifest
    BY <1>0, TableFields DEF ManifestOf, Manifest
  <2>. QED BY <1>1, <2>1 DEF Rename
<1>2. CASE InstallFails
  BY <1>0, <1>2, FrameFields DEF InstallFails, Return
<1>3. CASE SyncDirectory
  <2>0. /\ staged.segments \in Seq(Segment)
        /\ staged.next_segment_id \in Nat \ {0}
        /\ staged.preserved_sequence \in Nat /\ staged.preserved_time \in Nat
        /\ staged.retention_us \in Nat
    BY <1>0, TableFields
  <2>1. CASE job = "append"
    <3>1. t' \in Table /\ t'.segments = staged.segments
            /\ t'.readable_segments = t.readable_segments
      <4>. HIDE DEF TypeInv, TypeOK
      <4>. QED BY ZenonT(30), <1>0, <1>3, <2>0, <2>1 DEF SyncDirectory, Table
    <3>2. Len(staged.segments) = Len(t.segments) + 1 /\ Len(t.segments) \in Nat
      BY <1>0, <1>3, <2>1, TableFields DEF SyncDirectory
    <3>3. staged.segments # << >> /\ t'.readable_segments \subseteq 1 .. Len(t'.segments)
      BY SMTT(30), <2>0, <3>1, <3>2
    <3>. QED BY <1>3, <2>1, <3>1, <3>3 DEF SyncDirectory
  <2>2. CASE job = "retain"
    <3>. DEFINE readable == StillReadable(t, staged.segments)
    <3>1. readable \in SUBSET Nat /\ readable \subseteq t.readable_segments
      BY <1>0, TableFields DEF StillReadable
    <3>. HIDE DEF readable
    <3>2. t' \in Table /\ t'.segments = staged.segments
            /\ t'.readable_segments \subseteq t.readable_segments
      <4>. HIDE DEF TypeInv, TypeOK, Positions
      <4>1. t' = [t EXCEPT !.segments = staged.segments,
                    !.preserved_sequence = staged.preserved_sequence,
                    !.preserved_time = staged.preserved_time,
                    !.pending_retention = TRUE,
                    !.readable_segments = readable]
        BY <1>3, <2>2 DEF SyncDirectory, readable
      <4>. QED BY Zenon, <1>0, <2>0, <3>1, <4>1 DEF Table
    <3>3. t'.readable_segments \subseteq 1 .. Len(t'.segments)
      BY <1>3, <2>2, <3>2 DEF SyncDirectory
    <3>. QED BY <1>3, <2>2, <3>2, <3>3 DEF SyncDirectory
  <2>3. CASE job = "configure"
    <3>1. t' \in Table /\ t'.segments = t.segments
            /\ t'.readable_segments = t.readable_segments
      <4>. HIDE DEF TypeInv, TypeOK
      <4>. QED BY ZenonT(30), <1>0, <1>3, <2>0, <2>3 DEF SyncDirectory, Table
    <3>. QED BY <1>3, <2>3, <3>1 DEF SyncDirectory
  <2>. QED BY <1>3, <2>1, <2>2, <2>3 DEF SyncDirectory
<1>4. CASE SyncDirectoryFails
  <2>1. t' \in Table /\ t'.segments = t.segments
          /\ t'.readable_segments = t.readable_segments
    BY ZenonT(30), <1>0, <1>4 DEF SyncDirectoryFails, ReturnUncertain, Table
  <2>. QED BY SMTT(30), <1>0, <1>4, <2>1, FrameFields
           DEF SyncDirectoryFails, ReturnUncertain
<1>. QED BY SMTT(30), <1>1, <1>2, <1>3, <1>4 DEF InstallStep

\* A step of retention or cleanup preserves the types.
LEMMA TypeRetention == TypeInv /\ RetentionStep => TypeInv'
<1>. SUFFICES ASSUME TypeInv, RetentionStep PROVE TypeInv'
  OBVIOUS
<1>0. t \in Table /\ files \in [DOMAIN files -> File]
  BY DEF TypeInv, TypeOK
<1>s. t.segments \in Seq(Segment) /\ Len(t.segments) \in Nat
        /\ \A i \in 1 .. Len(t.segments) : t.segments[i] \in Segment
  BY <1>0, TableFields
<1>n. \A i \in Nat : NextRetired(i) \in Nat
  <2>. SUFFICES ASSUME NEW i \in Nat PROVE NextRetired(i) \in Nat
    OBVIOUS
  <2>. DEFINE left == {j \in RetiredAt(t.segments) : j > i}
  <2>1. left \in SUBSET Nat
    BY <1>s DEF RetiredAt
  <2>. HIDE DEF left
  <2>2. left # {} => First(left) \in Nat
    BY Zenon, <2>1, FirstIsLeast
  <2>. QED BY <2>2 DEF NextRetired, left
<1>. USE NoTableType DEF TypeInv, TypeOK, Positions, Installing, Writing, disk,
         lock, readers, history, Release
<1>1. ASSUME NEW d \in Retention, SetRetention(d)
      PROVE  TypeInv'
  <2>1. staged' \in Table
    BY ZenonT(30), <1>0, <1>1, ModeAssumption DEF SetRetention, Table
  <2>. QED BY <1>1, <2>1 DEF SetRetention
<1>2. ASSUME NEW now \in 0 .. MaxNow, RetentionApply(now)
      PROVE  TypeInv'
  <2>1. CASE Eligible(now) = {}
    BY SMTT(30), <1>2, <2>1 DEF RetentionApply
  <2>2. CASE Eligible(now) # {}
    <3>1. staged' \in Table /\ Len(staged'.segments) = Len(t.segments)
      <4>1. staged' = Retired(now)
        BY <1>2, <2>2 DEF RetentionApply
      <4>. QED BY <1>0, <2>2, <4>1, RetiredType
    <3>. QED BY SMTT(30), <1>2, <2>2, <3>1 DEF RetentionApply
  <2>. QED BY SMTT(30), <2>1, <2>2
<1>3. ASSUME NEW r \in Reader, CleanupBegin(r)
      PROVE  TypeInv'
  BY <1>3 DEF CleanupBegin
<1>4. CASE CleanupCheck
  BY <1>4, <1>n DEF CleanupCheck
<1>5. CASE Unlink
  BY <1>5, <1>n DEF Unlink
<1>6. CASE CleanupEnd \/ CleanupFails
  <2>1. t' \in Table /\ t'.segments = t.segments
          /\ t'.readable_segments = t.readable_segments
    BY ZenonT(30), <1>0, <1>6 DEF CleanupEnd, CleanupFails, CleanupDone, Table
  <2>. QED BY <1>6, <2>1 DEF CleanupEnd, CleanupFails, CleanupDone
<1>. QED BY SMTT(30), <1>1, <1>2, <1>3, <1>4, <1>5, <1>6 DEF RetentionStep

\* A step of a reader preserves the types.
LEMMA TypeReader == TypeInv /\ ReaderStep => TypeInv'
<1>. SUFFICES ASSUME TypeInv, NEW r \in Reader, Acquire(r) \/ ReleaseSnapshot(r)
              PROVE  TypeInv'
  BY DEF ReaderStep
<1>. USE DEF TypeInv, TypeOK, Positions, Installing, Writing, disk, lock, history
<1>1. CASE Acquire(r)
  <2>1. {t.segments[i] : i \in t.readable_segments} \in SUBSET Segment
    <3>1. t.segments \in Seq(Segment)
      BY TableFields
    <3>. QED BY <3>1
  <2>. QED BY SMTT(30), <1>1, <2>1 DEF Acquire
<1>2. CASE ReleaseSnapshot(r)
  BY <1>2 DEF ReleaseSnapshot
<1>. QED BY SMTT(30), <1>1, <1>2

\* Scanning a file that is there yields a summary of its segment.
LEMMA ScannedType ==
  ASSUME NEW s \in Segment, files \in [DOMAIN files -> File], Exists(Path(s))
  PROVE  Scanned(s) \in Segment /\ Scanned(s).state = s.state
<1>. DEFINE frames == files[Path(s)].frames
            n == Len(frames)
<1>1. frames \in Seq(Frame)
  BY FileFields DEF Exists
<1>2. n \in Nat /\ \A i \in 1 .. n : frames[i] \in Frame
  BY <1>1
<1>. DEFINE last == IF n = 0 THEN 0 ELSE frames[n].last
            min == IF n = 0 THEN 0 ELSE frames[1].min
            max == IF n = 0 THEN 0 ELSE frames[n].max
<1>3. last \in Nat /\ min \in Nat /\ max \in Nat
  BY SMTT(30), <1>2, FrameFields
<1>. HIDE DEF last, min, max, n
<1>4. Scanned(s) = [s EXCEPT !.last_sequence = last, !.min_time = min,
                      !.max_time = max, !.committed_bytes = n]
  BY DEF Scanned, last, min, max, n
<1>. QED BY ZenonT(30), <1>2, <1>3, <1>4 DEF Segment

\* Recovery builds a table from a manifest that it accepts.
LEMMA RecoveredType ==
  ASSUME NEW m \in Manifest, NEW indexed, Recovers(m, indexed),
         files \in [DOMAIN files -> File]
  PROVE  /\ RecoveredTable(m) \in Table
         /\ RecoveredTable(m).readable_segments
              \subseteq 1 .. Len(RecoveredTable(m).segments)
<1>1. m.segments \in Seq(Segment) /\ Len(m.segments) \in Nat
        /\ \A i \in 1 .. Len(m.segments) : m.segments[i] \in Segment
  BY DEF Manifest
<1>2. ASSUME NEW i \in 1 .. Len(m.segments), m.segments[i].state = "ACTIVE"
      PROVE  Scanned(m.segments[i]) \in Segment
  <2>1. Exists(Path(m.segments[i]))
    BY <1>2 DEF Recovers, SegmentRecovers
  <2>. QED BY <1>1, <2>1, ScannedType
<1>. DEFINE segments == RecoveredSegments(m)
            readable == {i \in 1 .. Len(segments) :
                           /\ segments[i].state # "RETIRED"
                           /\ segments[i].last_sequence # 0}
            last == Last(readable)
<1>3. segments \in Seq(Segment) /\ Len(segments) \in Nat
        /\ \A i \in 1 .. Len(segments) : segments[i] \in Segment
  BY <1>1, <1>2 DEF RecoveredSegments
<1>. HIDE DEF segments
<1>4. readable \in SUBSET Nat /\ readable \subseteq 1 .. Len(segments)
  BY <1>3
<1>. HIDE DEF readable
<1>5. readable # {} => last \in 1 .. Len(segments)
  BY <1>3, <1>4, LastIsGreatest
<1>. HIDE DEF last
<1>. DEFINE sequence == IF readable = {} THEN m.preserved_sequence
                        ELSE segments[last].last_sequence
            time == IF readable = {} THEN m.preserved_time
                    ELSE segments[last].max_time
<1>6. sequence \in Nat /\ time \in Nat
  BY <1>3, <1>5, SegmentFields DEF Manifest
<1>. HIDE DEF sequence, time
<1>7. RecoveredTable(m) =
        [segments |-> segments, next_segment_id |-> m.next_segment_id,
         preserved_sequence |-> m.preserved_sequence,
         preserved_time |-> m.preserved_time, retention_us |-> m.retention_us,
         last_sequence |-> sequence, last_time |-> time, read_only |-> FALSE,
         pending_retention |-> RetiredAt(segments) # {},
         readable_segments |-> readable]
  BY DEF RecoveredTable, segments, readable, last, sequence, time
<1>. QED BY <1>3, <1>4, <1>6, <1>7 DEF Table, Manifest

\* The death of the process and recovery preserve the types.
LEMMA TypeRecovery == TypeInv /\ RecoveryStep => TypeInv'
<1>. SUFFICES ASSUME TypeInv, RecoveryStep PROVE TypeInv'
  OBVIOUS
<1>0. files \in [DOMAIN files -> File] /\ manifest \in Manifest
  BY DEF TypeInv, TypeOK
<1>f. \A k \in DOMAIN files :
        /\ [files[k] EXCEPT !.torn = FALSE, !.synced = Len(files[k].frames)] \in File
        /\ [files[k] EXCEPT !.torn = FALSE] \in File
  <2>1. \A k \in DOMAIN files : Len(files[k].frames) \in Nat
    BY <1>0, FileFields
  <2>. QED BY Zenon, <1>0, <2>1 DEF File
<1>. USE NoTableType DEF TypeInv, TypeOK, Positions, Installing, Writing, disk,
         lock, readers, history, Release
<1>1. CASE Crash
  <2>1. snap' \in [Reader -> SUBSET Segment]
    BY <1>1 DEF Crash
  <2>. QED BY <1>1, <2>1 DEF Crash
<1>2. ASSUME NEW indexed \in SUBSET (1 .. Len(manifest.segments)), Open(indexed)
      PROVE  TypeInv'
  <2>1. t' \in Table /\ t'.readable_segments \subseteq 1 .. Len(t'.segments)
    BY Zenon, <1>0, <1>2, RecoveredType DEF Open
  <2>2. DOMAIN files' = DOMAIN files /\ files' \in [DOMAIN files' -> File]
    BY Zenon, <1>0, <1>2, <1>f DEF Open
  <2>. QED BY Zenon, <1>2, <2>1, <2>2 DEF Open
<1>3. ASSUME NEW indexed \in SUBSET (1 .. Len(manifest.segments)),
             OpenInterrupted(indexed)
      PROVE  TypeInv'
  <2>1. DOMAIN files' = DOMAIN files /\ files' \in [DOMAIN files' -> File]
    BY Zenon, <1>0, <1>3, <1>f DEF OpenInterrupted
  <2>. QED BY <1>3, <2>1 DEF OpenInterrupted
<1>4. ASSUME NEW indexed \in SUBSET (1 .. Len(manifest.segments)),
             OpenCorrupt(indexed)
      PROVE  TypeInv'
  BY SMTT(30), <1>4 DEF OpenCorrupt
<1>. QED BY SMTT(30), <1>1, <1>2, <1>3, <1>4 DEF RecoveryStep

\* Every step preserves the types.
LEMMA TypeNext == TypeInv /\ [Next]_vars => TypeInv'
<1>. SUFFICES ASSUME TypeInv, [Next]_vars PROVE TypeInv'
  OBVIOUS
<1>1. CASE UNCHANGED vars
  BY SMTT(30), <1>1 DEF vars, disk, lock, readers, history, TypeInv, TypeOK,
              Positions, Installing, Writing
<1>. QED BY <1>1, TypeAppend, TypeInstall, TypeRetention, TypeReader, TypeRecovery
         DEF Next

\* Types and positions hold in every behaviour.
LEMMA TypeInvariant == Spec => []TypeInv
BY TypeInit, TypeNext, PTL DEF Spec

\* The disk, the table and the holder of writer_mutex keep their types, for
\* any bounds: no arithmetic on sequences, IDs or positions leaves the naturals
\* and every index into the segment array is in range.
THEOREM TypeCorrect == Spec => []TypeOK
<1>1. TypeInv => TypeOK
  BY DEF TypeInv
<1>. QED BY <1>1, TypeInvariant, PTL

=============================================================================
