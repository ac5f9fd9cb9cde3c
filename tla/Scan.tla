-------------------------------- MODULE Scan --------------------------------
(***************************************************************************)
(* Choosing the segments of a snapshot, scanning them, and paging.         *)
(* Source: src/query/snapshot.c and scan.c, wadb_index_open_bounded,       *)
(* wadb_index_get and wadb_index_lower_bound of src/storage/index.c, and   *)
(* the pages of wadb_query_execute and wadb_cursor_next.                   *)
(*                                                                         *)
(* A behaviour is one cursor, or one scan, over one table: the layout of   *)
(* the table and the options are chosen at the start.  Rows are their      *)
(* sequence numbers, `time' is their ingestion time.  A frame costs one    *)
(* byte per row, and so does rebuilding a segment's index.                 *)
(***************************************************************************)
EXTENDS Integers, Sequences, FiniteSets, SequencesExt

CONSTANTS
  Rows,            \* number of rows in the table
  MaxTime,         \* bound: the times
  Matching,        \* the rows that pass the query's filters
  PageRows,        \* scan.limit of the query, rows per page
  Budgets,         \* choices of scan.max_scan_bytes
  DictionaryBytes  \* of each segment

ASSUME ScanAssumption ==
  /\ Rows \in Nat \ {0} /\ MaxTime \in Nat /\ PageRows \in Nat \ {0}
  /\ Budgets \subseteq Nat /\ DictionaryBytes \in Nat

VARIABLES
  segments,        \* the readable segments: sequences of frames
  time,            \* of each row
  start, end,      \* scan.start_time, scan.end_time
  first_after,     \* scan.after_sequence
  budget,          \* remaining_bytes of the cursor
  snapshot,        \* the segments of the snapshot
  after,           \* the cursor's position
  pc, segment, position,
  bytes_scanned, rebuilt,
  rows,            \* rows of the page so far
  delivered        \* observation: rows of all pages

table == <<segments, time, start, end, first_after>>
scan_vars == <<table, budget, snapshot, after, pc, segment, position, bytes_scanned,
          rebuilt, rows, delivered>>

-----------------------------------------------------------------------------
Row == 1 .. Rows
Time == 0 .. MaxTime

\* A frame is [first, last]; a segment is a sequence of frames.
FirstRow(s) == s[1].first
LastRow(s) == s[Len(s)].last
MinTime(s) == time[FirstRow(s)]
MaxTimeOf(s) == time[LastRow(s)]
Size(s) == LastRow(s) - FirstRow(s) + 1

\* The binary search that snapshot.c, scan.c and index.c all use, from lo to
\* hi; `skip' are the positions that lie before the one looked for.
RECURSIVE Search(_, _, _)
Search(lo, hi, skip) ==
  IF lo >= hi THEN lo
  ELSE LET mid == lo + (hi - lo) \div 2
       IN IF mid \in skip THEN Search(mid + 1, hi, skip) ELSE Search(lo, mid, skip)

\* Mutant: a segment that ends exactly at the start is skipped.
EndsBeforeOrAt(s, a) == MaxTimeOf(s) <= start \/ LastRow(s) <= a

\* A segment, or a frame taken as a segment, that ends before the rows wanted.
EndsBefore(s, a) == MaxTimeOf(s) < start \/ LastRow(s) <= a

\* wadb_snapshot_acquire: the first segment wanted, then the end of those that
\* begin before the end of the interval.
SnapshotOf ==
  LET n == Len(segments)
      first == Search(1, n + 1, {i \in 1 .. n : EndsBefore(segments[i], first_after)})
      upper == Search(first, n + 1, {i \in 1 .. n : MinTime(segments[i]) < end})
  IN IF start = end THEN << >> ELSE SubSeq(segments, first, upper - 1)

Acquire ==
  /\ pc = "acquire"
  /\ snapshot' = SnapshotOf
  /\ pc' = "page"
  /\ UNCHANGED <<table, budget, after, segment, position, bytes_scanned, rebuilt,
                 rows, delivered>>

-----------------------------------------------------------------------------
(* wadb_scan_snapshot.                                                     *)

Skipped(s) == EndsBefore(s, after) \/ MinTime(s) >= end

\* The first segment from number i on that the loop does not pass over.
NotSkipped(i) ==
  CHOOSE j \in i .. Len(snapshot) + 1 :
    /\ j <= Len(snapshot) => ~Skipped(snapshot[j])
    /\ \A k \in i .. j - 1 : Skipped(snapshot[k])

BeginPage ==
  /\ pc = "page"
  /\ segment' = NotSkipped(Search(1, Len(snapshot) + 1,
                   {i \in DOMAIN snapshot : EndsBefore(snapshot[i], after)}))
  /\ bytes_scanned' = 0 /\ rows' = << >>
  /\ pc' = "segment"
  /\ UNCHANGED <<table, budget, snapshot, after, position, rebuilt, delivered>>

\* Position of the first frame wanted: wadb_index_lower_bound.
LowerBound(s) ==
  Search(1, Len(s) + 1, {i \in DOMAIN s : EndsBefore(<<s[i]>>, after)})

\* The segment's index, rebuilt if it is damaged and the budget allows, its
\* dictionary, and the first frame.  (The active segment's index is in memory and
\* is never damaged; the model does not tell it apart.)
OpenSegment(repair) ==
  LET s == snapshot[segment]
      cost == DictionaryBytes + IF repair THEN Size(s) ELSE 0
  IN /\ pc = "segment" /\ segment <= Len(snapshot)
     /\ cost <= budget - bytes_scanned
     /\ bytes_scanned' = bytes_scanned + cost
     /\ rebuilt' = repair
     /\ position' = LowerBound(s)
     /\ pc' = "frame"
     /\ UNCHANGED <<table, budget, snapshot, after, segment, rows, delivered>>

\* A damaged record of the index is found late: rebuilt once per segment.
RepairIndex ==
  /\ pc = "frame" /\ ~rebuilt /\ position <= Len(snapshot[segment])
  /\ Size(snapshot[segment]) <= budget - bytes_scanned
  /\ bytes_scanned' = bytes_scanned + Size(snapshot[segment])
  /\ rebuilt' = TRUE
  /\ UNCHANGED <<table, budget, snapshot, after, pc, segment, position, rows,
                 delivered>>

\* Rows of a frame that are wanted.
Wanted(r) == time[r] >= start /\ time[r] < end /\ r > after /\ r \in Matching

\* The wanted rows of frame f, up to n of them.
Taken(f, n) ==
  LET wanted == SelectSeq([i \in 1 .. f.last - f.first + 1 |-> f.first + i - 1], Wanted)
  IN SubSeq(wanted, 1, IF Len(wanted) < n THEN Len(wanted) ELSE n)

Affordable(f) == f.last - f.first + 1 <= budget - bytes_scanned

ScanFrame ==
  LET f == snapshot[segment][position]
      taken == rows \o Taken(f, PageRows - Len(rows))
  IN /\ pc = "frame" /\ position <= Len(snapshot[segment])
     /\ time[f.first] < end
     /\ Affordable(f)
     /\ bytes_scanned' = bytes_scanned + (f.last - f.first + 1)
     /\ rows' = taken
     /\ position' = position + 1
     /\ pc' = IF Len(taken) = PageRows THEN "full" ELSE "frame"
     /\ UNCHANGED <<table, budget, snapshot, after, segment, rebuilt, delivered>>

\* No frame is left, or the next one begins after the interval.
EndSegment ==
  /\ pc = "frame"
  /\ position <= Len(snapshot[segment]) =>
       time[snapshot[segment][position].first] >= end
  /\ segment' = NotSkipped(segment + 1)
  /\ pc' = "segment"
  /\ UNCHANGED <<table, budget, snapshot, after, position, bytes_scanned, rebuilt,
                 rows, delivered>>

\* The budget, the deadline or a failed call ends the scan and the cursor; the
\* page is freed.  So does a damaged frame or header, which also sets read_only
\* of the table: that is the end "corrupt".
ScanFails ==
  /\ pc \in {"segment", "frame"}
  /\ pc' \in {"failed", "corrupt"}
  /\ rows' = << >> /\ segment' = 1 /\ position' = 1
  /\ bytes_scanned' = 0 /\ rebuilt' = FALSE
  /\ UNCHANGED <<table, budget, snapshot, after, delivered>>

-----------------------------------------------------------------------------
(* Pages: wadb_query_execute and wadb_cursor_next.                         *)

\* A full page that ends at the snapshot's last sequence is the last one.
HasMore == rows[Len(rows)] < Rows

FullPage ==
  /\ pc = "full"
  /\ delivered' = delivered \o rows
  /\ pc' = IF HasMore THEN "page" ELSE "done"
  /\ after' = rows[Len(rows)]
  /\ budget' = budget - bytes_scanned /\ bytes_scanned' = 0
  /\ UNCHANGED <<table, snapshot, segment, position, rebuilt, rows>>

LastPage ==
  /\ pc = "segment" /\ segment > Len(snapshot)
  /\ delivered' = delivered \o rows
  /\ pc' = "done"
  /\ UNCHANGED <<table, budget, snapshot, after, segment, position, bytes_scanned,
                 rebuilt, rows>>

\* The rows i to j in frames and segments that end where `cut' says so.
Frames(cut, i, j) ==
  LET ends == SetToSortSeq({r \in i .. j : r = j \/ cut[r] # "none"}, <)
  IN [k \in DOMAIN ends |-> [first |-> IF k = 1 THEN i ELSE ends[k - 1] + 1,
                             last |-> ends[k]]]
Layout(cut) ==
  LET ends == SetToSortSeq({r \in Row : r = Rows \/ cut[r] = "segment"}, <)
  IN [k \in DOMAIN ends |->
        Frames(cut, IF k = 1 THEN 1 ELSE ends[k - 1] + 1, ends[k])]

ScanInit ==
  /\ time \in {f \in [Row -> Time] : \A r \in 1 .. Rows - 1 : f[r] <= f[r + 1]}
  /\ segments \in {Layout(cut) : cut \in [1 .. Rows - 1 -> {"none", "frame", "segment"}]}
  /\ start \in Time /\ end \in start .. MaxTime + 1
  /\ first_after \in 0 .. Rows /\ after = first_after
  /\ budget \in Budgets
  /\ snapshot = << >> /\ pc = "acquire" /\ segment = 1 /\ position = 1
  /\ bytes_scanned = 0 /\ rebuilt = FALSE /\ rows = << >> /\ delivered = << >>

ScanNext ==
  \/ Acquire \/ BeginPage \/ RepairIndex \/ ScanFrame \/ EndSegment
  \/ \E repair \in BOOLEAN : OpenSegment(repair)
  \/ ScanFails \/ FullPage \/ LastPage

ScanSpec == ScanInit /\ [][ScanNext]_scan_vars

-----------------------------------------------------------------------------
(* Properties.                                                             *)

\* Type invariant; in particular what a page scanned, rebuilt indexes included,
\* stays within what the pages before it left of the budget, from which it is
\* subtracted.
ScanTypeOK ==
  /\ budget \in Nat /\ bytes_scanned \in 0 .. budget
  /\ pc \in {"acquire", "page", "segment", "frame", "full", "done", "failed",
            "corrupt"}
  /\ segment \in 1 .. Rows + 1 /\ position \in 1 .. Rows + 1
  /\ rows \in Seq(Row) /\ Len(rows) <= PageRows

\* The rows asked for: in the interval, after the position, and matching.
Reference ==
  SelectSeq([r \in Row |-> r],
            LAMBDA r : /\ start <= time[r] /\ time[r] < end
                       /\ first_after < r /\ r \in Matching)

\* Pruning whole segments and frames, twice by segment and once by frame, loses
\* no row and adds none: the pages of a cursor are a prefix of the rows asked
\* for, in order and without repetition, and all of them once it ends. No page
\* is bought with bytes beyond the budget, which is unsigned
\* (wadb_snapshot_acquire, wadb_scan_snapshot, wadb_index_lower_bound).
PagesExact ==
  /\ budget >= 0 /\ bytes_scanned <= budget
  /\ IsPrefix(delivered, Reference)
  /\ pc = "done" => delivered = Reference
=============================================================================
