----------------------------- MODULE AppendQueue ----------------------------
(***************************************************************************)
(* The ingestion queue and the group-commit writer thread.                 *)
(* Source: src/ingest/writer.c.                                            *)
(*                                                                         *)
(* Each request is one call of wadb_append_batch, made by a thread of its  *)
(* own.  What runs under db->mutex without waiting is one action.  The     *)
(* commit of one group, wadb_commit_requests, is one step here: its        *)
(* outcomes are those of module SegmentStore, whose AppendBegin assumes    *)
(* what GroupsCommittable states.                                          *)
(*                                                                         *)
(* A row is one byte wide, so that row_bytes is also row_count.  Timing is *)
(* left out: the batch delay may have run out whenever the queue is not    *)
(* empty, and each clock reading is any member of Clock.                   *)
(***************************************************************************)
EXTENDS Integers, Sequences, FiniteSetsExt, Functions

CONSTANTS
  Request,         \* the calls of wadb_append_batch
  Together,        \* bound: the sets of calls made in one behaviour
  Table,           \* the tables
  Maintained,      \* bound: the tables that others change meanwhile
  TableOf,         \* the table of each request
  RowBytes,        \* row_bytes of each request
  Overhead,        \* sizeof(wadb_append_request)
  QueueLimit,      \* options.queue_limit_bytes
  BatchTarget,     \* options.batch_target_bytes
  FrameLimit,      \* WADB_MAX_FRAME_BYTES - 96
  MaxGroup,        \* the length of the array requests (64)
  MaxSequence,     \* UINT64_MAX for row sequences
  DayLength,       \* WADB_DAY_US
  Clock            \* bound: the readings of the clock; negative on failure

ASSUME QueueAssumption ==
  /\ TableOf \in [Request -> Table] /\ RowBytes \in [Request -> Nat \ {0}]
  /\ Overhead \in Nat /\ QueueLimit \in Nat /\ BatchTarget \in Nat \ {0}
  /\ FrameLimit \in Nat /\ MaxGroup \in Nat \ {0} /\ MaxSequence \in Nat
  /\ DayLength \in Nat \ {0} /\ Clock \in SUBSET Int
  /\ \A r \in Request : RowBytes[r] <= FrameLimit
  /\ Together \in SUBSET (SUBSET Request) /\ Maintained \in SUBSET Table

VARIABLES
  state,           \* where each call is
  status,          \* what each call returns
  receipt,         \* wadb_append_receipt of each request
  queue,           \* queue_head ... queue_tail
  queue_bytes, ready_bytes, stopping,
  writer,          \* the writer thread
  batch,           \* the array requests of writer_main
  work,            \* the groups that commit_group has still to commit
  ingestion_time,  \* of each request
  last_sequence, last_time, read_only,     \* of each table
  submitted,       \* observation: the requests in the order of the queue
  doubtful         \* observation: the requests whose frame may be on the disk

counters == <<queue_bytes, ready_bytes>>
tables == <<last_sequence, last_time, read_only, doubtful>>
calls == <<state, status, receipt, ingestion_time, submitted>>
thread == <<writer, batch, work>>
vars == <<calls, queue, counters, stopping, thread, tables>>

-----------------------------------------------------------------------------
Status == {"none", "OK", "INVALID", "LIMIT", "IO", "READ_ONLY", "INDETERMINATE",
           "BACKPRESSURE", "CANCELLED"}
NoReceipt == [first_sequence |-> 0, last_sequence |-> 0]
Charge(r) == RowBytes[r] + Overhead
Day(time) == time \div DayLength

\* The sum of f over S.
Sum(f, S) == MapThenSumSet(LAMBDA x : f[x], S)

\* row_bytes of the first n requests of a group.
Bytes(group, n) == Sum([i \in DOMAIN group |-> RowBytes[group[i]]], 1 .. n)
Rows(group) == Bytes(group, Len(group))

-----------------------------------------------------------------------------
(* wadb_append_batch.                                                      *)

\* The call ends without having been queued.
Refuse(r, result) ==
  /\ state' = [state EXCEPT ![r] = "returned"]
  /\ status' = [status EXCEPT ![r] = result]
  /\ UNCHANGED <<receipt, ingestion_time, submitted, queue, ready_bytes,
                 stopping, thread, tables>>

\* The calls made so far, all of one set of Together.
Made == {r \in Request : state[r] # "idle"}

\* Mutant: the limit is not looked at.
ReserveUnlimited(r) ==
  /\ state[r] = "idle"
  /\ \E set \in Together : Made \cup {r} \subseteq set
  /\ ~stopping
  /\ queue_bytes' = queue_bytes + Charge(r)
  /\ state' = [state EXCEPT ![r] = "preparing"]
  /\ UNCHANGED <<status, receipt, ingestion_time, submitted, queue, ready_bytes,
                 stopping, thread, tables>>

\* The staging memory is reserved before it is allocated.
Reserve(r) ==
  /\ state[r] = "idle"
  /\ \E set \in Together : Made \cup {r} \subseteq set
  /\ \/ /\ stopping
        /\ Refuse(r, "CANCELLED") /\ UNCHANGED queue_bytes
     \/ /\ ~stopping /\ Charge(r) > QueueLimit - queue_bytes
        /\ Refuse(r, "BACKPRESSURE") /\ UNCHANGED queue_bytes
     \/ /\ ~stopping /\ Charge(r) <= QueueLimit - queue_bytes
        /\ queue_bytes' = queue_bytes + Charge(r)
        /\ state' = [state EXCEPT ![r] = "preparing"]
        /\ UNCHANGED <<status, receipt, ingestion_time, submitted, queue,
                       ready_bytes, stopping, thread, tables>>

\* Mutant: the reservation is kept.
PrepareFailsKeeps(r) ==
  /\ state[r] = "preparing"
  /\ Refuse(r, "INVALID") /\ UNCHANGED queue_bytes

\* The rows do not encode, or there is no memory: the reservation is undone.
PrepareFails(r) ==
  /\ state[r] = "preparing"
  /\ queue_bytes' = queue_bytes - Charge(r)
  /\ Refuse(r, "INVALID")

\* pthread_cond_signal(&db->work): only the writer waits on it.
SignalWork == writer' = IF writer = "asleep" THEN "running" ELSE writer

\* Mutant: the writer is not signalled.
EnqueueUnsignalled(r) ==
  /\ state[r] = "preparing"
  /\ state' = [state EXCEPT ![r] = "queued"]
  /\ queue' = Append(queue, r) /\ submitted' = Append(submitted, r)
  /\ ready_bytes' = ready_bytes + RowBytes[r]
  /\ UNCHANGED <<status, receipt, ingestion_time, queue_bytes, stopping, thread,
                 tables>>

Enqueue(r) ==
  /\ state[r] = "preparing"
  /\ state' = [state EXCEPT ![r] = "queued"]
  /\ queue' = Append(queue, r) /\ submitted' = Append(submitted, r)
  /\ ready_bytes' = ready_bytes + RowBytes[r]
  /\ SignalWork
  /\ UNCHANGED <<status, receipt, ingestion_time, queue_bytes, stopping, batch,
                 work, tables>>

\* The call finds its request done and returns its status.
Return(r) ==
  /\ state[r] = "done"
  /\ state' = [state EXCEPT ![r] = "returned"]
  /\ UNCHANGED <<status, receipt, ingestion_time, submitted, queue, counters,
                 stopping, thread, tables>>

-----------------------------------------------------------------------------
(* writer_main: forming a group.                                           *)

Sleep ==
  /\ writer = "running" /\ queue = << >> /\ ~stopping
  /\ writer' = "asleep"
  /\ UNCHANGED <<calls, queue, counters, stopping, batch, work, tables>>

\* pthread_cond_wait may return without a signal.
WakeSpuriously ==
  /\ writer = "asleep"
  /\ writer' = "running"
  /\ UNCHANGED <<calls, queue, counters, stopping, batch, work, tables>>

Exit ==
  /\ writer = "running" /\ queue = << >> /\ stopping
  /\ writer' = "exited"
  /\ UNCHANGED <<calls, queue, counters, stopping, batch, work, tables>>

\* The ingestion time given to the i-th request: the clock reading, unless an
\* earlier request of the table has a later time.
Clamped(table, clock, i) ==
  IF clock[i] < 0 THEN clock[i]
  ELSE Max({last_time[table]} \cup {clock[j] : j \in 1 .. i})

\* Mutant: a group may span two days.
JoinsAnyDay(i, clock) ==
  LET table == TableOf[queue[1]]
      bytes == Bytes(queue, i - 1)
  IN /\ TableOf[queue[i]] = table /\ i <= MaxGroup
     /\ bytes < BatchTarget /\ RowBytes[queue[i]] <= FrameLimit - bytes
     /\ clock[i] >= 0

\* Mutant: the frame limit is not looked at.
JoinsAnySize(i, clock) ==
  LET table == TableOf[queue[1]]
  IN /\ TableOf[queue[i]] = table /\ i <= MaxGroup
     /\ Bytes(queue, i - 1) < BatchTarget /\ clock[i] >= 0
     /\ Day(Clamped(table, clock, i)) = Day(Clamped(table, clock, 1))

\* Mutant: the array of requests may overflow.
JoinsAnyCount(i, clock) ==
  LET table == TableOf[queue[1]]
      bytes == Bytes(queue, i - 1)
  IN /\ TableOf[queue[i]] = table
     /\ bytes < BatchTarget /\ RowBytes[queue[i]] <= FrameLimit - bytes
     /\ clock[i] >= 0
     /\ Day(Clamped(table, clock, i)) = Day(Clamped(table, clock, 1))

\* The i-th request of the queue joins the group of those before it.
Joins(i, clock) ==
  LET table == TableOf[queue[1]]
      bytes == Bytes(queue, i - 1)
  IN /\ TableOf[queue[i]] = table /\ i <= MaxGroup
     /\ bytes < BatchTarget /\ RowBytes[queue[i]] <= FrameLimit - bytes
     /\ clock[i] >= 0
     /\ Day(Clamped(table, clock, i)) = Day(Clamped(table, clock, 1))

\* The loop takes the first n requests of the queue.
Takes(n, clock) ==
  /\ n > 1 => clock[1] >= 0
  /\ \A i \in 2 .. n : Joins(i, clock)
  /\ n < Len(queue) /\ clock[1] >= 0 => ~Joins(n + 1, clock)

Gather(n, clock) ==
  LET group == SubSeq(queue, 1, n)
  IN /\ writer = "running" /\ Takes(n, clock)
     /\ batch' = group /\ work' = <<group>>
     /\ queue' = SubSeq(queue, n + 1, Len(queue))
     /\ ready_bytes' = ready_bytes - Rows(group)
     /\ state' = [r \in Request |-> IF r \in Range(group) THEN "committing"
                                                        ELSE state[r]]
     /\ ingestion_time' =
          [r \in Request |->
             IF r \in Range(group)
             THEN Clamped(TableOf[r], clock,
                          CHOOSE i \in 1 .. n : group[i] = r)
             ELSE ingestion_time[r]]
     /\ writer' = "committing"
     /\ UNCHANGED <<status, receipt, submitted, queue_bytes, stopping, tables>>

-----------------------------------------------------------------------------
(* commit_group, for the group at the head of work.                        *)

Group == Head(work)
GroupTable == TableOf[Group[1]]

\* Every request of the group gets the result.
Answer(result) ==
  /\ status' = [r \in Request |-> IF r \in Range(Group) THEN result ELSE status[r]]
  /\ work' = Tail(work)
  /\ UNCHANGED <<state, ingestion_time, submitted, queue, counters, stopping,
                 writer, batch>>

\* The conditions on which wadb_commit_requests goes on, in its order.
ClockValid == ingestion_time[Group[1]] >= 0
Writable == ~read_only[GroupTable]
SequencesLeft == last_sequence[GroupTable] <= MaxSequence - Rows(Group)

\* The receipt of a request of a committed group.
Receipt(r) ==
  LET i == CHOOSE i \in 1 .. Len(Group) : Group[i] = r
      first == last_sequence[GroupTable] + Bytes(Group, i - 1) + 1
  IN [first_sequence |-> first, last_sequence |-> first + RowBytes[r] - 1]

\* Mutant: a table that needs recovery is written to.
CommitAnyway ==
  /\ writer = "committing" /\ work # << >>
  /\ ClockValid /\ SequencesLeft
  /\ receipt' = [r \in Request |-> IF r \in Range(Group) THEN Receipt(r)
                                                       ELSE receipt[r]]
  /\ last_sequence' = [last_sequence EXCEPT ![GroupTable] = @ + Rows(Group)]
  /\ last_time' = [last_time EXCEPT
                     ![GroupTable] = ingestion_time[Group[Len(Group)]]]
  /\ Answer("OK")
  /\ UNCHANGED <<read_only, doubtful>>

Commit ==
  /\ writer = "committing" /\ work # << >>
  /\ ClockValid /\ Writable /\ SequencesLeft
  /\ receipt' = [r \in Request |-> IF r \in Range(Group) THEN Receipt(r)
                                                       ELSE receipt[r]]
  /\ last_sequence' = [last_sequence EXCEPT ![GroupTable] = @ + Rows(Group)]
  /\ last_time' = [last_time EXCEPT
                     ![GroupTable] = ingestion_time[Group[Len(Group)]]]
  /\ Answer("OK")
  /\ UNCHANGED <<read_only, doubtful>>

\* The clock failed, the table needs recovery, or an allocation or system
\* call failed before the frame was written.
CommitFails ==
  /\ writer = "committing" /\ work # << >>
  /\ Answer(IF ClockValid /\ ~Writable THEN "READ_ONLY" ELSE "IO")
  /\ UNCHANGED <<receipt, tables>>

\* The frame, or the manifest of a new segment, may or may not be durable: the
\* table needs recovery.
CommitUncertain ==
  /\ writer = "committing" /\ work # << >>
  /\ ClockValid /\ Writable /\ SequencesLeft
  /\ read_only' = [read_only EXCEPT ![GroupTable] = TRUE]
  /\ doubtful' = doubtful \cup Range(Group)
  /\ Answer("INDETERMINATE")
  /\ UNCHANGED <<receipt, last_sequence, last_time>>

\* create_active: the index of the old tail may or may not be durable.  Nothing
\* of the group was written, and the table stays writable.
RotationUncertain ==
  /\ writer = "committing" /\ work # << >>
  /\ ClockValid /\ Writable /\ SequencesLeft
  /\ Answer("INDETERMINATE")
  /\ UNCHANGED <<receipt, tables>>

\* Mutant: the second half is committed first.
HalvesSwapped(group) ==
  LET half == Len(group) \div 2
  IN <<SubSeq(group, half + 1, Len(group)), SubSeq(group, 1, half)>>

Halves(group) ==
  LET half == Len(group) \div 2
  IN <<SubSeq(group, 1, half), SubSeq(group, half + 1, Len(group))>>

\* WADB_LIMIT: the sequences run out, or with the symbols that it adds the
\* group does not fit a frame or a dictionary.  Several requests are split.
CommitLimit ==
  /\ writer = "committing" /\ work # << >>
  /\ ClockValid /\ Writable
  /\ \/ /\ Len(Group) > 1
        /\ work' = Halves(Group) \o Tail(work)
        /\ UNCHANGED <<calls, queue, counters, stopping, writer, batch, tables>>
     \/ /\ Len(Group) = 1
        /\ Answer("LIMIT")
        /\ UNCHANGED <<receipt, tables>>

\* The batch is answered: the reservations are given back and the calls woken.
Complete ==
  /\ writer = "committing" /\ work = << >>
  /\ queue_bytes' =
       queue_bytes - Sum([i \in DOMAIN batch |-> Charge(batch[i])], 1 .. Len(batch))
  /\ state' = [r \in Request |-> IF r \in Range(batch) THEN "done" ELSE state[r]]
  /\ writer' = "running" /\ batch' = << >>
  /\ UNCHANGED <<status, receipt, ingestion_time, submitted, queue, ready_bytes,
                 stopping, work, tables>>

-----------------------------------------------------------------------------
\* Another holder of writer_mutex leaves the table in need of recovery.
MetadataUncertain(table) ==
  /\ ~read_only[table]
  /\ read_only' = [read_only EXCEPT ![table] = TRUE]
  /\ UNCHANGED <<calls, queue, counters, stopping, thread, last_sequence,
                 last_time, doubtful>>

\* Mutant: the writer is not signalled.
StopUnsignalled ==
  /\ ~stopping /\ \A r \in Request : state[r] # "preparing"
  /\ stopping' = TRUE
  /\ UNCHANGED <<calls, queue, counters, thread, tables>>

\* wadb_writer_stop.  wadb.h asks callers to finish every operation before
\* wadb_close; a call that has reserved memory must at least be in the queue.
Stop ==
  /\ ~stopping /\ \A r \in Request : state[r] # "preparing"
  /\ stopping' = TRUE
  /\ SignalWork
  /\ UNCHANGED <<calls, queue, counters, batch, work, tables>>

Init ==
  /\ state = [r \in Request |-> "idle"] /\ status = [r \in Request |-> "none"]
  /\ receipt = [r \in Request |-> NoReceipt]
  /\ ingestion_time = [r \in Request |-> 0] /\ submitted = << >>
  /\ queue = << >> /\ queue_bytes = 0 /\ ready_bytes = 0 /\ stopping = FALSE
  /\ writer = "running" /\ batch = << >> /\ work = << >>
  /\ last_sequence = [table \in Table |-> 0]
  /\ last_time = [table \in Table |-> 0]
  /\ read_only = [table \in Table |-> FALSE]
  /\ doubtful = {}

WriterStep ==
  \/ Sleep \/ Exit
  \/ \E n \in 1 .. Len(queue) : \E clock \in [1 .. n + 1 -> Clock] :
       Gather(n, clock)
  \/ Commit \/ CommitFails \/ CommitUncertain \/ RotationUncertain
  \/ CommitLimit \/ Complete

Next ==
  \/ \E r \in Request : Reserve(r) \/ PrepareFails(r) \/ Enqueue(r) \/ Return(r)
  \/ WriterStep \/ WakeSpuriously \/ Stop
  \/ \E table \in Maintained : MetadataUncertain(table)

Spec == Init /\ [][Next]_vars

\* The writer thread and the calls that have begun are scheduled.
Fairness ==
  /\ WF_vars(WriterStep)
  /\ WF_vars(\E r \in Request : Enqueue(r) \/ Return(r))

FairSpec == Spec /\ Fairness

-----------------------------------------------------------------------------
(* Properties.                                                             *)

\* Type invariant: the queue, its counters and the writer's groups have their
\* types; in particular no subtraction from a counter goes below zero.
TypeOK ==
  /\ state \in [Request -> {"idle", "preparing", "queued", "committing", "done",
                            "returned"}]
  /\ status \in [Request -> Status]
  /\ receipt \in [Request -> [first_sequence : Nat, last_sequence : Nat]]
  /\ queue \in Seq(Request) /\ batch \in Seq(Request)
  /\ work \in Seq(Seq(Request)) /\ submitted \in Seq(Request)
  /\ queue_bytes \in Nat /\ ready_bytes \in Nat /\ stopping \in BOOLEAN
  /\ writer \in {"running", "asleep", "committing", "exited"}
  /\ ingestion_time \in [Request -> Int]
  /\ last_sequence \in [Table -> Nat] /\ last_time \in [Table -> Nat]
  /\ read_only \in [Table -> BOOLEAN] /\ doubtful \subseteq Request

In(states) == {r \in Request : state[r] \in states}

\* The byte counters are exact: queue_bytes is what preparing, queued and
\* committing calls have reserved and never exceeds the limit, ready_bytes what
\* is in the queue, whatever fails or is split (wadb_append_batch, writer_main).
BytesAccounted ==
  /\ queue_bytes = Sum([r \in Request |-> Charge(r)],
                       In({"preparing", "queued", "committing"}))
  /\ queue_bytes <= QueueLimit
  /\ ready_bytes = Sum(RowBytes, In({"queued"}))

\* First in, first out: of two acknowledged requests of a table, the one that
\* was queued first has the earlier sequences and no later ingestion time,
\* through batching, splitting and clocks that go back; the receipts leave no
\* gap where a request failed; and after a request that may be in the log
\* nothing queued later is acknowledged, the rest of a split batch included,
\* since recovery may find its sequences in use (writer_main,
\* wadb_commit_requests, commit_group).
ReceiptsInOrder ==
  /\ \A i, j \in 1 .. Len(submitted) :
       LET r == submitted[i]
           s == submitted[j]
       IN i < j /\ TableOf[r] = TableOf[s] /\ status[s] = "OK" =>
            /\ r \notin doubtful
            /\ status[r] = "OK" =>
                 /\ receipt[r].last_sequence < receipt[s].first_sequence
                 /\ ingestion_time[r] <= ingestion_time[s]
  /\ \A table \in Table : \A n \in 1 .. last_sequence[table] :
       \E r \in Request :
         /\ TableOf[r] = table /\ status[r] = "OK"
         /\ n \in receipt[r].first_sequence .. receipt[r].last_sequence

\* Each group still to be committed is one that the storage layer accepts: one
\* table, one frame, one day, times that continue those committed before it.
\* A failed clock makes a group of one (writer_main, commit_group).
GroupsCommittable ==
  \A k \in 1 .. Len(work) :
    LET group == work[k]
        n == Len(group)
        time(i) == ingestion_time[group[i]]
    IN /\ n \in 1 .. MaxGroup /\ Rows(group) <= FrameLimit
       /\ \A i \in 1 .. n : TableOf[group[i]] = TableOf[group[1]]
       /\ \/ n = 1 /\ time(1) < 0
          \/ /\ last_time[TableOf[group[1]]] <= time(1)
             /\ \A i \in 2 .. n : time(i - 1) <= time(i)
             /\ Day(time(1)) = Day(time(n))

\* Nobody waits for ever: every queued call gets its answer, also when the
\* writer is being stopped, and a writer that is stopped drains the queue and
\* can be joined, in whichever order appends and the stop come.  Calls and the
\* stop never go back, so what leads to its end has ended for good
\* (wadb_writer_stop, writer_main, wadb_append_batch).
QueueDrains ==
  <>[](/\ In({"queued", "committing", "done"}) = {}
       /\ stopping => writer = "exited" /\ queue = << >>)
=============================================================================
