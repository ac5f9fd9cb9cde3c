----------------------------- MODULE Dictionary -----------------------------
(***************************************************************************)
(* The symbol dictionary of the active segment.                            *)
(* Source: src/storage/dictionary.c, and its use in segments.c.            *)
(*                                                                         *)
(* The writer interns the symbols of a group of rows, then publishes the   *)
(* additions in the group's frame or rolls them back.  A reader, and       *)
(* recovery, rebuild the dictionary from the published frames.  Symbols    *)
(* are found through a hash table with linear probing.  Memory is counted  *)
(* in the units of the four constants below, which stand for the sizes of  *)
(* the C types; first capacities are constants too (16, 32 and 8).         *)
(***************************************************************************)
EXTENDS Integers, Sequences, SequencesExt, FiniteSetsExt, Functions

CONSTANTS
  Field, Text,
  Length,                                   \* of each text
  Hash,                                     \* of each field and text
  Limit,                                    \* options.dictionary_limit_bytes
  FirstCapacity, FirstSlots, FirstColumn,   \* first sizes of the arrays
  SymbolBytes, SlotBytes, IndexBytes        \* sizes of their elements

ASSUME DictionaryAssumption ==
  /\ Length \in [Text -> Nat] /\ Hash \in [Field \X Text -> Nat]
  /\ {Limit, SymbolBytes, SlotBytes, IndexBytes} \subseteq Nat
  /\ {FirstCapacity, FirstSlots, FirstColumn} \subseteq Nat \ {0} /\ FirstSlots > 1

VARIABLES
  d,          \* the dictionary that the group in progress uses
  kept,       \* the table's dictionary while d is a fresh one
  pc,         \* where the writer is
  mark,       \* d->count when the group began
  published   \* the definitions in the active segment's frames

vars == <<d, kept, pc, mark, published>>

-----------------------------------------------------------------------------
Symbol == [field : Field, text : Text, id : Nat]

New == [symbols |-> << >>, capacity |-> 0, slots |-> << >>,
        columns |-> [f \in Field |-> 0], allocated |-> 0]

Count(x) == Len(x.symbols)
InColumn(symbols, f) == Len(SelectSeq(symbols, LAMBDA s : s.field = f))

\* Slot number `step' of the probe sequence of a hash, in a table of n slots.
Slot(n, hash, step) == ((hash + step) % n) + 1
HashOf(s) == Hash[s.field, s.text]

\* A table of slots with symbol number i entered at its first free slot.
Entered(slots, symbols, i) ==
  LET n == Len(slots)
      free == {k \in 0 .. n - 1 : slots[Slot(n, HashOf(symbols[i]), k)] = 0}
  IN [slots EXCEPT ![Slot(n, HashOf(symbols[i]), Min(free))] = i]

\* rehash: all symbols, in order, in a table of n slots.
Rehash(n, symbols) ==
  FoldLeft(LAMBDA slots, i : Entered(slots, symbols, i),
           [k \in 1 .. n |-> 0], [i \in 1 .. Len(symbols) |-> i])

\* Where looking for a symbol stops: at it or at an empty slot.
Stops(x, f, t) ==
  {k \in 0 .. Len(x.slots) - 1 :
     LET i == x.slots[Slot(Len(x.slots), Hash[f, t], k)]
     IN i = 0 \/ (i <= Count(x) /\ x.symbols[i].field = f /\ x.symbols[i].text = t)}

\* The number of the symbol that is found, 0 for none.
Lookup(x, f, t) ==
  IF Stops(x, f, t) = {} THEN 0
  ELSE x.slots[Slot(Len(x.slots), Hash[f, t], Min(Stops(x, f, t)))]

-----------------------------------------------------------------------------
(* wadb_dictionary_intern: sizes, budget, growth in three steps, insertion.*)

Grown(size, needed, first) ==
  IF needed THEN (IF size = 0 THEN first ELSE 2 * size) ELSE size

Capacity(x) == Grown(x.capacity, Count(x) = x.capacity, FirstCapacity)
SlotCount(x) == Grown(Len(x.slots), Len(x.slots) < 2 * (Count(x) + 1), FirstSlots)
ColumnCapacity(x, f) ==
  Grown(x.columns[f], InColumn(x.symbols, f) = x.columns[f], FirstColumn)

Extra(x, f, t) ==
  (Capacity(x) - x.capacity) * SymbolBytes
  + (SlotCount(x) - Len(x.slots)) * SlotBytes
  + (ColumnCapacity(x, f) - x.columns[f]) * IndexBytes + Length[t] + 1

Fits(x, f, t) == Extra(x, f, t) <= Limit - x.allocated

GrowSymbols(x) ==
  [x EXCEPT !.capacity = Capacity(x),
            !.allocated = @ + (Capacity(x) - x.capacity) * SymbolBytes]

GrowSlots(x) ==
  IF SlotCount(x) = Len(x.slots) THEN x
  ELSE [x EXCEPT !.slots = Rehash(SlotCount(x), x.symbols),
                 !.allocated = @ + (SlotCount(x) - Len(x.slots)) * SlotBytes]

GrowColumn(x, f) ==
  [x EXCEPT !.columns[f] = ColumnCapacity(x, f),
            !.allocated = @ + (ColumnCapacity(x, f) - x.columns[f]) * IndexBytes]

\* What an allocation that fails after n others leaves behind.
Partial(x, f, n) ==
  CASE n = 0 -> x
    [] n = 1 -> GrowSymbols(x)
    [] n = 2 -> GrowSlots(GrowSymbols(x))
    [] OTHER -> GrowColumn(GrowSlots(GrowSymbols(x)), f)

Inserted(x, f, t) ==
  LET y == Partial(x, f, 3)
      symbols == Append(y.symbols, [field |-> f, text |-> t,
                                    id |-> InColumn(y.symbols, f) + 1])
  IN [y EXCEPT !.symbols = symbols,
               !.slots = Entered(@, symbols, Len(symbols)),
               !.allocated = @ + Length[t] + 1]

\* Mutant: the hash table keeps what was rolled back.
RolledBackUnhashed(x, n) ==
  [x EXCEPT !.symbols = SubSeq(@, 1, n),
            !.allocated = @ - MapThenSumSet(
               LAMBDA i : Length[x.symbols[i].text] + 1, n + 1 .. Count(x))]

\* Mutant: the memory of the strings is not given back.
RolledBackCharged(x, n) ==
  [x EXCEPT !.symbols = SubSeq(@, 1, n), !.slots = Rehash(Len(@), SubSeq(x.symbols, 1, n))]

\* wadb_dictionary_rollback to the first n symbols; the arrays keep their sizes.
RolledBack(x, n) ==
  [x EXCEPT !.symbols = SubSeq(@, 1, n),
            !.slots = Rehash(Len(@), SubSeq(x.symbols, 1, n)),
            !.allocated = @ - MapThenSumSet(
               LAMBDA i : Length[x.symbols[i].text] + 1, n + 1 .. Count(x))]

\* Mutant: the first addition is left out.
ExportedLate(x, n) == SubSeq(x.symbols, n + 2, Count(x))

\* wadb_dictionary_export: the definitions after the first n.
Exported(x, n) == SubSeq(x.symbols, n + 1, Count(x))

\* wadb_dictionary_apply, definition by definition: a definition must be the next
\* of its column, be new, and fit.  A failed replay stays failed.
Failed == [New EXCEPT !.allocated = -1]

Applied(x, s) ==
  IF x # Failed /\ s.id = InColumn(x.symbols, s.field) + 1
     /\ Lookup(x, s.field, s.text) = 0 /\ Fits(x, s.field, s.text)
  THEN Inserted(x, s.field, s.text) ELSE Failed

Replayed == FoldLeft(Applied, New, published)

-----------------------------------------------------------------------------
(* wadb_commit_requests.                                                   *)

\* The group goes to the active segment, with the table's dictionary.
BeginGroup ==
  /\ pc = "idle"
  /\ pc' = "intern" /\ mark' = Count(d)
  /\ UNCHANGED <<d, kept, published>>

\* It needs a fresh segment: at once, because of the day or the state of the last
\* one, or after the additions or the frame turned out too large for this one.
BeginFresh ==
  /\ pc \in {"idle", "intern"}
  /\ kept' = IF pc = "idle" THEN d ELSE RolledBack(d, mark)
  /\ d' = New /\ mark' = 0 /\ pc' = "fresh"
  /\ UNCHANGED published

\* A symbol that is known gets its ID and changes nothing.
Intern(f, t) ==
  /\ pc \in {"intern", "fresh"} /\ Lookup(d, f, t) = 0 /\ Fits(d, f, t)
  /\ d' = Inserted(d, f, t)
  /\ UNCHANGED <<kept, pc, mark, published>>

\* The group ends with dictionary x rolled back, or freed if it is not the table's.
Ends(x) ==
  /\ d' = IF pc = "fresh" THEN kept ELSE RolledBack(x, mark)
  /\ kept' = New /\ pc' = "idle" /\ mark' = 0
  /\ UNCHANGED published

\* For want of memory in the middle of an intern...
InternFails(f, t, n) ==
  /\ pc \in {"intern", "fresh"} /\ Lookup(d, f, t) = 0 /\ Fits(d, f, t)
  /\ Ends(Partial(d, f, n))

\* ...or because a fresh dictionary is too small too, or later, before its frame
\* is durable.
Abandon == pc # "idle" /\ Ends(d)

\* create_active has succeeded: the fresh dictionary becomes the table's.
CreateActive ==
  /\ pc = "fresh"
  /\ kept' = New /\ published' = << >> /\ pc' = "created"
  /\ UNCHANGED <<d, mark>>

Publish ==
  /\ pc \in {"intern", "created"}
  /\ published' = published \o Exported(d, mark)
  /\ pc' = "idle" /\ mark' = 0
  /\ UNCHANGED <<d, kept>>

\* The process ends, at any point, and the database is opened again:
\* recover_segment.
Reopen ==
  /\ d' = Replayed /\ d' # Failed
  /\ kept' = New /\ pc' = "idle" /\ mark' = 0
  /\ UNCHANGED published

Init == d = New /\ kept = New /\ pc = "idle" /\ mark = 0 /\ published = << >>

Next ==
  \/ BeginGroup \/ BeginFresh \/ Abandon \/ CreateActive \/ Publish \/ Reopen
  \/ \E f \in Field, t \in Text :
       Intern(f, t) \/ \E n \in 0 .. 3 : InternFails(f, t, n)

Spec == Init /\ [][Next]_vars

-----------------------------------------------------------------------------
(* Properties.                                                             *)

\* Type invariant; in particular the memory used stays within the budget, from
\* which it is subtracted.
TypeOK ==
  /\ d.symbols \in Seq(Symbol) /\ d.capacity \in Nat /\ d.columns \in [Field -> Nat]
  /\ d.slots \in Seq(Nat) /\ d.allocated \in 0 .. Limit
  /\ kept.symbols \in Seq(Symbol) /\ kept.allocated \in 0 .. Limit
  /\ pc \in {"idle", "intern", "fresh", "created"}
  /\ mark \in 0 .. Count(d) /\ published \in Seq(Symbol)

\* The memory charged is what the arrays and strings take, after any mixture of
\* growth, allocations that fail halfway and rollbacks (wadb_dictionary_intern,
\* wadb_dictionary_rollback): repeated failed appends do not use up the budget,
\* and it is never exceeded.
AllocatedExact ==
  /\ d.allocated = d.capacity * SymbolBytes + Len(d.slots) * SlotBytes
       + MapThenSumSet(LAMBDA f : d.columns[f], Field) * IndexBytes
       + MapThenSumSet(LAMBDA i : Length[d.symbols[i].text] + 1, 1 .. Count(d))
  /\ d.allocated <= Limit

\* Looking a symbol up ends, and finds it exactly if the dictionary holds it,
\* whatever was rolled back before (wadb_dictionary_intern, rehash).
Findable ==
  \A f \in Field, t \in Text :
    LET held == {i \in 1 .. Count(d) : d.symbols[i].field = f /\ d.symbols[i].text = t}
    IN /\ d.slots # << >> => Stops(d, f, t) # {}
       /\ IF held = {} THEN Lookup(d, f, t) = 0 ELSE held = {Lookup(d, f, t)}

\* What is in the frames rebuilds, within the same budget, the symbols and IDs
\* of which the writer's published rows were encoded: neither a rolled back
\* group nor a memory failure makes a segment that cannot be replayed
\* (wadb_dictionary_export, wadb_dictionary_apply); and all the while every
\* symbol is found under its one ID.
ReplayAgrees ==
  /\ Findable
  /\ Replayed # Failed
  /\ Replayed.symbols = CASE pc = "idle" -> d.symbols
                          [] pc = "fresh" -> kept.symbols
                          [] OTHER -> SubSeq(d.symbols, 1, mark)
=============================================================================
