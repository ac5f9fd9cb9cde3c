------------------------------ MODULE Cursors -------------------------------
(***************************************************************************)
(* Scan cursors and the snapshot budget that they share with queries.      *)
(* Source: src/query/cursor.c, snapshot.c (budget) and query.c (pages).    *)
(*                                                                         *)
(* Each critical section of db->mutex is one action, as is what a thread   *)
(* does between two of them.  The clock, which the code reads before it    *)
(* takes the mutex, is read in the same step.  An unlinked cursor is       *)
(* destroyed after the mutex was released: until then its snapshot counts. *)
(* What a snapshot pins, and the cleanup its release may run, is in        *)
(* SegmentStore.                                                           *)
(***************************************************************************)
EXTENDS Integers, Sequences, FiniteSetsExt, Functions

CONSTANTS
  Thread,          \* the threads that call the cursor functions
  Ticker,          \* the server's tick thread, one of them
  MaxReaders,      \* options.max_readers
  SnapshotLimit,   \* options.snapshot_limit_bytes
  SnapshotCharge,  \* bound: the sizes of a snapshot
  CursorCharge,    \* plan->allocated_bytes + sizeof(cursor)
  ScanBytes,       \* scan.max_scan_bytes; reading a row costs one
  Ttl,             \* the time to live of a cursor
  MaxId,           \* UINT64_MAX for cursor IDs
  MaxSequence,     \* bound: rows in the table
  MaxTime          \* bound: the time at which the last calls begin

ASSUME CursorsAssumption ==
  /\ Ticker \in Thread /\ MaxReaders \in Nat /\ SnapshotLimit \in Nat
  /\ SnapshotCharge \in SUBSET (Nat \ {0}) /\ CursorCharge \in Nat \ {0}
  /\ ScanBytes \in Nat /\ Ttl \in Nat \ {0} /\ MaxId \in Nat
  /\ MaxSequence \in Nat /\ MaxTime \in Nat

VARIABLES
  cursors,         \* the list db->cursors, as a set
  next_cursor_id, snapshot_bytes, reader_count,
  last_sequence,   \* of the table
  now,             \* the monotonic clock
  at,              \* where each thread is
  mine,            \* the cursor (or bare snapshot) each thread works on
  doomed,          \* the cursors each thread has unlinked and will destroy
  pages,           \* observation: the ranges each cursor's pages covered
  exhausted        \* observation: the cursors whose last page said so

budget == <<snapshot_bytes, reader_count>>
observed == <<pages, exhausted>>
vars == <<cursors, next_cursor_id, budget, last_sequence, now, at, mine, doomed,
          observed>>

-----------------------------------------------------------------------------
Id == 1 .. MaxId

\* A cursor; ID 0 is a snapshot that belongs to no cursor yet.
Cursor == [id : 0 .. MaxId, deadline : Nat, after : Nat, sequence : Nat,
           remaining : Nat, charge : Nat, busy : BOOLEAN]
Nothing == [id |-> 0, deadline |-> 0, after |-> 0, sequence |-> 0,
            remaining |-> 0, charge |-> 0, busy |-> FALSE]

Find(id) == {p \in cursors : p.id = id}
Fits(charge) == charge <= SnapshotLimit - snapshot_bytes

\* The cursors that wadb_cursor_expire unlinks.
Expired == {p \in cursors : ~p.busy /\ p.deadline <= now}

-----------------------------------------------------------------------------
(* Every call starts with wadb_cursor_expire, and destroys what it unlinked*)
(* before it goes on.                                                      *)

Enter(th, next) ==
  /\ at[th] = "idle"
  /\ cursors' = cursors \ Expired
  /\ doomed' = [doomed EXCEPT ![th] = Expired]
  /\ at' = [at EXCEPT ![th] = next]

\* The tick thread, once a second.
Tick ==
  /\ Enter(Ticker, "leave")
  /\ UNCHANGED <<next_cursor_id, budget, last_sequence, now, mine, observed>>

\* wadb_cursor_open, wadb_query and wadb_scan: "open" and "query".
Begin(th, what) ==
  /\ th # Ticker /\ now <= MaxTime
  /\ Enter(th, what)
  /\ UNCHANGED <<next_cursor_id, budget, last_sequence, now, mine, observed>>

BeginNext(th, id) ==
  /\ th # Ticker /\ id <= next_cursor_id
  /\ Enter(th, "next")
  /\ mine' = [mine EXCEPT ![th] = [Nothing EXCEPT !.id = id]]
  /\ UNCHANGED <<next_cursor_id, budget, last_sequence, now, observed>>

\* Mutant: destroying a cursor returns only its snapshot's own bytes.
RefundSnapshot(p) ==
  /\ snapshot_bytes' = snapshot_bytes
       - (IF p.id = 0 THEN p.charge ELSE p.charge - CursorCharge)
  /\ reader_count' = reader_count - 1

\* wadb_snapshot_release.
Refund(p) ==
  /\ snapshot_bytes' = snapshot_bytes - p.charge
  /\ reader_count' = reader_count - 1

Destroy(th) ==
  /\ \E p \in doomed[th] :
       Refund(p) /\ doomed' = [doomed EXCEPT ![th] = @ \ {p}]
  /\ UNCHANGED <<cursors, next_cursor_id, last_sequence, now, at, mine, observed>>

\* Only a call that has nothing left to destroy goes on.
At(th, where) == at[th] = where /\ doomed[th] = {}

Leave(th) ==
  /\ At(th, "leave")
  /\ at' = [at EXCEPT ![th] = "idle"]
  /\ UNCHANGED <<cursors, next_cursor_id, budget, last_sequence, now, mine,
                 doomed, observed>>

-----------------------------------------------------------------------------
(* Opening: wadb_snapshot_acquire, then the cursor's own charge.           *)

\* The snapshot is refused if there are too many or it does not fit, and may
\* fail for want of memory.
Acquire(th, charge) ==
  /\ At(th, "open") \/ At(th, "query")
  /\ \/ /\ reader_count < MaxReaders /\ Fits(charge)
        /\ snapshot_bytes' = snapshot_bytes + charge
        /\ reader_count' = reader_count + 1
        /\ mine' = [mine EXCEPT ![th] =
             [id |-> 0, deadline |-> now + Ttl, after |-> 0,
              sequence |-> last_sequence, remaining |-> ScanBytes,
              charge |-> charge, busy |-> FALSE]]
        /\ at' = [at EXCEPT ![th] = IF @ = "open" THEN "link" ELSE "reading"]
     \/ at' = [at EXCEPT ![th] = "idle"] /\ UNCHANGED <<budget, mine>>
  /\ UNCHANGED <<cursors, next_cursor_id, last_sequence, now, doomed, observed>>

\* The call gives its snapshot, or its cursor, up and returns.
Discard(th, p) ==
  /\ doomed' = [doomed EXCEPT ![th] = {p}]
  /\ at' = [at EXCEPT ![th] = "leave"]
  /\ mine' = [mine EXCEPT ![th] = Nothing]

Link(th) ==
  LET new == [mine[th] EXCEPT !.id = next_cursor_id + 1, !.charge = @ + CursorCharge]
  IN /\ At(th, "link")
     /\ \/ /\ next_cursor_id # MaxId /\ Fits(CursorCharge)
           /\ cursors' = cursors \cup {new}
           /\ next_cursor_id' = next_cursor_id + 1
           /\ snapshot_bytes' = snapshot_bytes + CursorCharge
           /\ at' = [at EXCEPT ![th] = "idle"]
           /\ mine' = [mine EXCEPT ![th] = Nothing]
           /\ UNCHANGED doomed
        \/ /\ ~(next_cursor_id # MaxId /\ Fits(CursorCharge))
           /\ Discard(th, mine[th])
           /\ UNCHANGED <<cursors, next_cursor_id, snapshot_bytes>>
     /\ UNCHANGED <<reader_count, last_sequence, now, observed>>

\* A query ends.
Read(th) ==
  /\ At(th, "reading")
  /\ Discard(th, mine[th])
  /\ UNCHANGED <<cursors, next_cursor_id, budget, last_sequence, now, observed>>

-----------------------------------------------------------------------------
(* wadb_cursor_next and wadb_cursor_close.                                 *)

\* Mutant: a cursor that is in use is handed out again.
PinAnyway(th) ==
  /\ At(th, "next")
  /\ \/ /\ Find(mine[th].id) = {}
        /\ at' = [at EXCEPT ![th] = "idle"] /\ mine' = [mine EXCEPT ![th] = Nothing]
        /\ UNCHANGED cursors
     \/ \E p \in Find(mine[th].id) :
          /\ cursors' = (cursors \ {p}) \cup {[p EXCEPT !.busy = TRUE]}
          /\ mine' = [mine EXCEPT ![th] = [p EXCEPT !.busy = TRUE]]
          /\ at' = [at EXCEPT ![th] = "page"]
  /\ UNCHANGED <<next_cursor_id, budget, last_sequence, now, doomed, observed>>

\* The cursor is gone or busy (EXPIRED, BACKPRESSURE), or is taken for a page.
Pin(th) ==
  /\ At(th, "next")
  /\ \/ /\ \A p \in Find(mine[th].id) : p.busy
        /\ at' = [at EXCEPT ![th] = "idle"] /\ mine' = [mine EXCEPT ![th] = Nothing]
        /\ UNCHANGED cursors
     \/ \E p \in Find(mine[th].id) :
          /\ ~p.busy
          /\ cursors' = (cursors \ {p}) \cup {[p EXCEPT !.busy = TRUE]}
          /\ mine' = [mine EXCEPT ![th] = [p EXCEPT !.busy = TRUE]]
          /\ at' = [at EXCEPT ![th] = "page"]
  /\ UNCHANGED <<next_cursor_id, budget, last_sequence, now, doomed, observed>>

\* wadb_query_execute stopped at row k with its page full, in time, and rows
\* are left.
Page(th, k) ==
  LET p == mine[th] IN
  /\ At(th, "page") /\ now < p.deadline
  /\ p.after < k /\ k < p.sequence /\ k - p.after <= p.remaining
  /\ mine' = [mine EXCEPT ![th].after = k, ![th].remaining = @ - (k - p.after)]
  /\ at' = [at EXCEPT ![th] = "advance"]
  /\ pages' = [pages EXCEPT ![p.id] = Append(@, <<p.after + 1, k>>)]
  /\ UNCHANGED <<cursors, next_cursor_id, budget, last_sequence, now, doomed,
                 exhausted>>

\* It read to the end of the snapshot, in time.
LastPage(th) ==
  LET p == mine[th] IN
  /\ At(th, "page") /\ now < p.deadline /\ p.sequence - p.after <= p.remaining
  /\ at' = [at EXCEPT ![th] = "unlink"]
  /\ pages' = [pages EXCEPT ![p.id] = Append(@, <<p.after + 1, p.sequence>>)]
  /\ exhausted' = exhausted \cup {[id |-> p.id, sequence |-> p.sequence]}
  /\ UNCHANGED <<cursors, next_cursor_id, budget, last_sequence, now, mine, doomed>>

\* The cursor expires before or during the read, or the read fails: no page.
PageFails(th) ==
  /\ At(th, "page")
  /\ at' = [at EXCEPT ![th] = "unlink"]
  /\ UNCHANGED <<cursors, next_cursor_id, budget, last_sequence, now, mine, doomed,
                 observed>>

\* Mutant: the cursor does not remember where the page ended.
AdvancedNot(p, q) == [p EXCEPT !.remaining = q.remaining, !.busy = FALSE]

\* Mutant: the cursor stays in use.
AdvancedBusy(p, q) == [p EXCEPT !.after = q.after, !.remaining = q.remaining]

\* Cursor p after the page that call state q describes.
Advanced(p, q) ==
  [p EXCEPT !.after = q.after, !.remaining = q.remaining, !.busy = FALSE]

Advance(th) ==
  /\ At(th, "advance")
  /\ cursors' = {IF p.id = mine[th].id THEN Advanced(p, mine[th]) ELSE p : p \in cursors}
  /\ at' = [at EXCEPT ![th] = "idle"] /\ mine' = [mine EXCEPT ![th] = Nothing]
  /\ UNCHANGED <<next_cursor_id, budget, last_sequence, now, doomed, observed>>

\* After its last page, or a failure, the cursor is unlinked and destroyed.
Unlink(th) ==
  /\ At(th, "unlink")
  /\ cursors' = cursors \ Find(mine[th].id)
  /\ Discard(th, mine[th])
  /\ UNCHANGED <<next_cursor_id, budget, last_sequence, now, observed>>

\* A busy cursor is refused, an unknown one is already closed.
CloseCursor(th, id) ==
  /\ th # Ticker /\ at[th] = "idle"
  /\ \E p \in Find(id) :
       /\ ~p.busy
       /\ cursors' = cursors \ {p}
       /\ Discard(th, p)
  /\ UNCHANGED <<next_cursor_id, budget, last_sequence, now, observed>>

\* wadb_cursor_clear, from wadb_close: no call is in progress, none follows.
Clear ==
  /\ \A th \in Thread : At(th, "idle")
  /\ cursors' = {}
  /\ snapshot_bytes' = snapshot_bytes - MapThenSumSet(LAMBDA p : p.charge, cursors)
  /\ reader_count' = reader_count - Cardinality(cursors)
  /\ at' = [th \in Thread |-> "closed"]
  /\ UNCHANGED <<next_cursor_id, last_sequence, now, mine, doomed, observed>>

-----------------------------------------------------------------------------
\* The writer publishes a row.
AppendRow ==
  /\ last_sequence < MaxSequence
  /\ last_sequence' = last_sequence + 1
  /\ UNCHANGED <<cursors, next_cursor_id, budget, now, at, mine, doomed, observed>>

TimePasses ==
  /\ now < MaxTime \/ \E p \in cursors : now < p.deadline
  /\ now' = now + 1
  /\ UNCHANGED <<cursors, next_cursor_id, budget, last_sequence, at, mine, doomed,
                 observed>>

Init ==
  /\ cursors = {} /\ next_cursor_id = 0 /\ snapshot_bytes = 0 /\ reader_count = 0
  /\ last_sequence = 0 /\ now = 0
  /\ at = [th \in Thread |-> "idle"] /\ mine = [th \in Thread |-> Nothing]
  /\ doomed = [th \in Thread |-> {}]
  /\ pages = [id \in Id |-> << >>] /\ exhausted = {}

\* The steps that finish a call.
CallStep(th) ==
  \/ Destroy(th) \/ Leave(th)
  \/ \E charge \in SnapshotCharge : Acquire(th, charge)
  \/ Link(th) \/ Read(th) \/ Pin(th)
  \/ \E k \in 1 .. MaxSequence : Page(th, k)
  \/ LastPage(th) \/ PageFails(th) \/ Advance(th) \/ Unlink(th)

Next ==
  \/ Tick \/ Clear \/ AppendRow \/ TimePasses
  \/ \E th \in Thread :
       \/ CallStep(th)
       \/ \E what \in {"open", "query"} : Begin(th, what)
       \/ \E id \in Id : BeginNext(th, id) \/ CloseCursor(th, id)

Spec == Init /\ [][Next]_vars

\* Calls run to their end, the tick thread runs, and time passes.
Fairness ==
  /\ \A th \in Thread : WF_vars(CallStep(th))
  /\ WF_vars(Tick) /\ WF_vars(TimePasses)

FairSpec == Spec /\ Fairness

-----------------------------------------------------------------------------
(* Properties.                                                             *)

\* Type invariant; in particular neither the scan budget of a cursor nor a
\* counter of the database goes below zero, where they would wrap.
TypeOK ==
  /\ cursors \subseteq Cursor /\ next_cursor_id \in 0 .. MaxId
  /\ snapshot_bytes \in Nat /\ reader_count \in Nat
  /\ last_sequence \in Nat /\ now \in Nat
  /\ at \in [Thread -> {"idle", "open", "query", "next", "link", "reading", "page",
                        "advance", "unlink", "leave", "closed"}]
  /\ mine \in [Thread -> Cursor] /\ doomed \in [Thread -> SUBSET Cursor]
  /\ exhausted \subseteq [id : Id, sequence : Nat]

\* The snapshots that are held: by listed cursors, by cursors on their way out
\* and by calls that have not linked theirs.
Live ==
  {<<"listed", p.id, p.charge>> : p \in cursors}
  \cup UNION {{<<th, p.id, p.charge>> : p \in doomed[th]} : th \in Thread}
  \cup {<<th, 0, mine[th].charge>> :
          th \in {th \in Thread : at[th] \in {"link", "reading"}}}

\* The snapshot budget balances and is respected: every failed open, expired,
\* closed or exhausted cursor gives back exactly what it took, once, whichever
\* thread destroys it (wadb_snapshot_acquire, wadb_cursor_open, destroy).
BudgetBalances ==
  /\ snapshot_bytes = MapThenSumSet(LAMBDA s : s[3], Live)
  /\ reader_count = Cardinality(Live)
  /\ snapshot_bytes <= SnapshotLimit /\ reader_count <= MaxReaders

\* The pages of a cursor follow each other without gap or overlap, and a
\* cursor that reports its end has covered its whole snapshot, no matter how
\* calls, expiry and appends interleave.  A cursor that a call reads from stays
\* in the list until that call is done, and no other call reads from it
\* (wadb_cursor_next, wadb_cursor_expire, wadb_cursor_close).
PagesTile ==
  LET paging == {th \in Thread : at[th] \in {"page", "advance", "unlink"}} IN
  /\ \A id \in Id : \A i \in 1 .. Len(pages[id]) :
       pages[id][i][1] = IF i = 1 THEN 1 ELSE pages[id][i - 1][2] + 1
  /\ \A x \in exhausted : pages[x.id][Len(pages[x.id])][2] = x.sequence
  /\ \A th \in paging : \E p \in cursors : p.id = mine[th].id /\ p.busy
  /\ \A th, other \in paging : th # other => mine[th].id # mine[other].id

\* Every cursor's memory and reader slot come back in the end, whether its
\* client reads on, stops or fails (wadb_cursor_expire, called by the tick thread).
CursorsReclaimed ==
  \A id \in Id : (\E p \in cursors : p.id = id)
                   ~> (\A s \in Live : s[2] # id)
=============================================================================
