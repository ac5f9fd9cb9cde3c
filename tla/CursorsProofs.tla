---------------------------- MODULE CursorsProofs ---------------------------
(***************************************************************************)
(* Proof that the pages of a cursor tile its snapshot, for any number of   *)
(* threads, cursors and rows.                                              *)
(***************************************************************************)
EXTENDS Cursors, TLAPS

\* A call that has a cursor for a page.
Paging == {"page", "advance", "unlink"}

\* The last row that the pages of a cursor cover.
Covered(id) == IF pages[id] = << >> THEN 0 ELSE pages[id][Len(pages[id])][2]

\* Where a call can be, and the types of what the proof is about: the counters of the
\* budget are not among it.
Place == {"idle", "open", "query", "next", "link", "reading", "page", "advance",
          "unlink", "leave", "closed"}

Types ==
  /\ cursors \subseteq Cursor /\ next_cursor_id \in 0 .. MaxId
  /\ last_sequence \in Nat /\ now \in Nat
  /\ at \in [Thread -> Place]
  /\ mine \in [Thread -> Cursor]
  /\ pages \in [Id -> Seq(Nat \X Nat)] /\ exhausted \subseteq [id : Id, sequence : Nat]

\* IDs are never used twice, and a cursor that nobody reads from continues where its
\* pages end.
Listed ==
  /\ \A p \in cursors : /\ p.id \in Id /\ p.id <= next_cursor_id
                        /\ p.busy = FALSE => p.after = Covered(p.id)
  /\ \A p, q \in cursors : p.id = q.id => p = q
  /\ \A id \in Id : id > next_cursor_id => pages[id] = << >>

\* A call that reads from a cursor: the cursor is listed and busy, and no other call
\* reads from it.
Reads(th) ==
  /\ at[th] = "link" => mine[th].after = 0
  /\ at[th] \in Paging => \E p \in cursors : p.id = mine[th].id /\ p.busy = TRUE
  /\ at[th] \in {"page", "advance"} => mine[th].after = Covered(mine[th].id)
Alone ==
  \A th, other \in Thread : at[th] \in Paging /\ at[other] \in Paging /\ th # other =>
    mine[th].id # mine[other].id

\* The pages of each cursor follow each other.
Tiles ==
  \A id \in Id : \A i \in 1 .. Len(pages[id]) :
    pages[id][i][1] = IF i = 1 THEN 1 ELSE pages[id][i - 1][2] + 1

\* Nobody reads from a cursor that has reported its end.
Ended(x) ==
  /\ pages[x.id] # << >> /\ Covered(x.id) = x.sequence /\ x.id <= next_cursor_id
  /\ \A p \in cursors : p.id = x.id => p.busy = TRUE
  /\ \A th \in Thread : at[th] \in {"page", "advance"} => mine[th].id # x.id

IInv ==
  /\ Types /\ Listed /\ Alone /\ Tiles
  /\ \A th \in Thread : Reads(th)
  /\ \A x \in exhausted : Ended(x)

-----------------------------------------------------------------------------
(* Types.                                                                  *)

\* What wadb_cursor_open and wadb_cursor_next store in a cursor is a cursor.
LEMMA CursorForms ==
  /\ Nothing \in Cursor
  /\ \A p \in Cursor : [p EXCEPT !.busy = TRUE] \in Cursor
  /\ \A p, q \in Cursor : Advanced(p, q) \in Cursor
<1>1. 0 \in 0 .. MaxId /\ 0 \in Nat  BY CursorsAssumption
<1>2. Nothing \in Cursor  BY <1>1, Zenon DEF Cursor, Nothing
<1>3. ASSUME NEW p \in Cursor  PROVE [p EXCEPT !.busy = TRUE] \in Cursor
  BY Zenon DEF Cursor
<1>4. ASSUME NEW p \in Cursor, NEW q \in Cursor  PROVE Advanced(p, q) \in Cursor
  <2>1. q.after \in Nat /\ q.remaining \in Nat  BY Zenon DEF Cursor
  <2> QED  BY <2>1, Zenon DEF Cursor, Advanced
<1> QED  BY <1>2, <1>3, <1>4, Zenon

\* The fields of a cursor.
LEMMA CursorFields ==
  ASSUME NEW p \in Cursor
  PROVE  /\ p.after \in Nat /\ p.sequence \in Nat /\ p.remaining \in Nat
         /\ p.charge \in Nat /\ p.busy \in BOOLEAN /\ p.id \in 0 .. MaxId
  BY Zenon DEF Cursor

\* Adding a page to those of a cursor.
LEMMA PageType ==
  ASSUME Types, NEW id, NEW page \in Nat \X Nat,
         pages' = [pages EXCEPT ![id] = Append(@, page)]
  PROVE  pages' \in [Id -> Seq(Nat \X Nat)]
<1> DEFINE P == Nat \X Nat
<1>1. pages \in [Id -> Seq(P)]  BY Zenon DEF Types
<1>2. ASSUME NEW s \in Seq(P)  PROVE Append(s, page) \in Seq(P)
  <2>1. page \in P  OBVIOUS
  <2> HIDE DEF P
  <2> QED  BY <2>1
<1> HIDE DEF P
<1>3. pages' \in [Id -> Seq(P)]  BY <1>1, <1>2, Zenon
<1> QED  BY <1>3 DEF P

\* Types holds initially.
LEMMA TypesInit == Init => Types
  BY CursorsAssumption, CursorForms DEF Init, Types, Id, Place

\* Steps of no particular call, and the first and last steps of a call, keep the types.
LEMMA TypesOutside ==
  ASSUME Types, Tick \/ Clear \/ AppendRow \/ TimePasses \/ UNCHANGED vars
  PROVE  Types'
<1>1. CASE Tick
  BY <1>1, CursorsAssumption DEF Tick, Enter, Types, Place, observed
<1>2. CASE Clear
  BY <1>2 DEF Clear, Types, Place, observed
<1>3. CASE AppendRow
  BY <1>3 DEF AppendRow, Types, observed
<1>4. CASE TimePasses
  BY <1>4 DEF TimePasses, Types, observed
<1>5. CASE UNCHANGED vars
  BY <1>5 DEF vars, Types, observed
<1> QED  BY <1>1, <1>2, <1>3, <1>4, <1>5

\* Beginning a call keeps the types.
LEMMA TypesBegin ==
  ASSUME Types, NEW th \in Thread,
         \/ \E what \in {"open", "query"} : Begin(th, what)
         \/ \E id \in Id : BeginNext(th, id) \/ CloseCursor(th, id)
  PROVE  Types'
<1>1. CASE \E what \in {"open", "query"} : Begin(th, what)
  BY <1>1 DEF Begin, Enter, Types, Place, observed
<1>2. CASE \E id \in Id : BeginNext(th, id)
  <2>1. PICK id \in Id : BeginNext(th, id)  BY <1>2
  <2>2. [Nothing EXCEPT !.id = id] \in Cursor
    <3>1. id \in 0 .. MaxId /\ 0 \in Nat  BY CursorsAssumption DEF Id
    <3> QED  BY <3>1, Zenon DEF Nothing, Cursor
  <2> QED  BY <2>1, <2>2 DEF BeginNext, Enter, Types, Place, observed
<1>3. CASE \E id \in Id : CloseCursor(th, id)
  BY <1>3, CursorForms DEF CloseCursor, Discard, Types, Place, observed
<1> QED  BY <1>1, <1>2, <1>3

\* The steps of a call keep the types, given that a call that has a cursor for a page
\* has a cursor with an ID.
LEMMA TypesCall ==
  ASSUME Types, NEW th \in Thread, CallStep(th),
         at[th] = "page" => mine[th].id \in Id
  PROVE  Types'
<1> USE CursorForms
<1>0. mine[th] \in Cursor  BY DEF Types
<1>1. CASE Destroy(th)
  BY <1>1 DEF Destroy, Types, observed
<1>2. CASE Leave(th)
  BY <1>2 DEF Leave, At, Types, Place, observed
<1>3. CASE \E charge \in SnapshotCharge : Acquire(th, charge)
  <2>1. PICK charge \in SnapshotCharge : Acquire(th, charge)  BY <1>3
  <2>2. [id |-> 0, deadline |-> now + Ttl, after |-> 0, sequence |-> last_sequence,
         remaining |-> ScanBytes, charge |-> charge, busy |-> FALSE] \in Cursor
    <3>1. /\ 0 \in 0 .. MaxId /\ 0 \in Nat /\ now + Ttl \in Nat /\ last_sequence \in Nat
          /\ ScanBytes \in Nat /\ charge \in Nat
      BY CursorsAssumption DEF Types
    <3> QED  BY <3>1, Zenon DEF Cursor
  <2>3. mine' \in [Thread -> Cursor]  BY <2>1, <2>2, Zenon DEF Acquire, Types
  <2> QED  BY <2>1, <2>3, Zenon DEF Acquire, At, Types, Place, observed
<1>4. CASE Link(th)
  <2> DEFINE new == [mine[th] EXCEPT !.id = next_cursor_id + 1, !.charge = @ + CursorCharge]
  <2>1. CASE next_cursor_id # MaxId /\ Fits(CursorCharge)
    <3>1. next_cursor_id + 1 \in 0 .. MaxId  BY <2>1, CursorsAssumption DEF Types
    <3>2. mine[th].charge + CursorCharge \in Nat
      BY <1>0, CursorFields, CursorsAssumption
    <3>3. new \in Cursor  BY <3>1, <3>2, <1>0, Zenon DEF Cursor
    <3> QED  BY <1>4, <2>1, <3>1, <3>3 DEF Link, Types, Place, observed
  <2>2. CASE ~(next_cursor_id # MaxId /\ Fits(CursorCharge))
    BY <1>4, <2>2, Zenon DEF Link, Discard, Types, Place, observed
  <2> QED  BY <2>1, <2>2
<1>5. CASE Read(th)
  BY <1>5 DEF Read, Discard, Types, Place, observed
<1>6. CASE Pin(th)
  BY <1>6, Zenon DEF Pin, Find, Types, Place, observed
<1>7. CASE \E k \in 1 .. MaxSequence : Page(th, k)
  <2>1. PICK k \in 1 .. MaxSequence : Page(th, k)  BY <1>7
  <2>2. k \in Nat /\ k - mine[th].after \in Nat
        /\ mine[th].remaining - (k - mine[th].after) \in Nat
    <3>1. mine[th].after \in Nat /\ mine[th].remaining \in Nat  BY <1>0, CursorFields
    <3>2. mine[th].after < k /\ k - mine[th].after <= mine[th].remaining
      BY <2>1, Zenon DEF Page
    <3>3. k \in Nat  BY CursorsAssumption
    <3> QED  BY <3>1, <3>2, <3>3
  <2>3. mine'[th] \in Cursor /\ mine' \in [Thread -> Cursor]
    BY <2>1, <2>2, <1>0, Zenon DEF Page, Types, Cursor
  <2>4. <<mine[th].after + 1, k>> \in Nat \X Nat  BY <2>2, <1>0, CursorFields
  <2>5. pages' \in [Id -> Seq(Nat \X Nat)]  BY <2>1, <2>4, PageType, Zenon DEF Page
  <2> QED  BY <2>1, <2>3, <2>5 DEF Page, Types, Place
<1>8. CASE LastPage(th)
  <2>1. mine[th].id \in Id  BY <1>8 DEF LastPage, At
  <2>2. <<mine[th].after + 1, mine[th].sequence>> \in Nat \X Nat
    BY <1>0, CursorFields
  <2>3. pages' \in [Id -> Seq(Nat \X Nat)]  BY <1>8, <2>2, PageType, Zenon DEF LastPage
  <2>4. exhausted' \subseteq [id : Id, sequence : Nat]
    <3>1. [id |-> mine[th].id, sequence |-> mine[th].sequence] \in [id : Id, sequence : Nat]
      BY <2>1, <1>0, CursorFields, Zenon
    <3> QED  BY <1>8, <3>1 DEF LastPage, Types
  <2> QED  BY <1>8, <2>3, <2>4 DEF LastPage, Types, Place
<1>9. CASE PageFails(th)
  BY <1>9 DEF PageFails, Types, Place, observed
<1>10. CASE Advance(th)
  BY <1>10, <1>0 DEF Advance, Types, Place, observed
<1>11. CASE Unlink(th)
  BY <1>11 DEF Unlink, Discard, Types, Place, observed
<1> QED
  BY <1>1, <1>2, <1>3, <1>4, <1>5, <1>6, <1>7, <1>8, <1>9, <1>10, <1>11 DEF CallStep

-----------------------------------------------------------------------------
(* The steps that no page depends on.                                      *)

\* Cursors leave the list, but none that a call reads from; a call that reads from one
\* goes on or gives up.
Rest ==
  /\ UNCHANGED <<pages, exhausted, next_cursor_id>> /\ cursors' \subseteq cursors
  /\ \A th \in Thread :
       /\ at'[th] = "link" => mine'[th].after = 0
       /\ at'[th] \in Paging =>
            /\ mine'[th] = mine[th] /\ at[th] \in Paging
            /\ at'[th] = at[th] \/ at'[th] = "unlink"
            /\ \A p \in cursors : p.id = mine[th].id /\ p.busy = TRUE => p \in cursors'

\* Such a step preserves the invariant.
LEMMA RestKeeps ==
  ASSUME IInv, Types', Rest
  PROVE  IInv'
<1>0. \A id : Covered(id)' = Covered(id)  BY DEF Rest, Covered
<1>1. Listed'  BY <1>0 DEF IInv, Listed, Rest
<1>2. Alone'
  BY Zenon DEF IInv, Alone, Rest
<1>3. Tiles'  BY DEF IInv, Tiles, Rest
<1>4. ASSUME NEW th \in Thread  PROVE Reads(th)'
  <2>1. ASSUME at'[th] \in Paging
        PROVE  \E p \in cursors' : p.id = mine'[th].id /\ p.busy = TRUE
    <3>1. PICK p \in cursors : p.id = mine[th].id /\ p.busy = TRUE
      BY <2>1, Zenon DEF IInv, Reads, Rest
    <3> QED  BY <2>1, <3>1, Zenon DEF Rest
  <2>2. ASSUME at'[th] \in {"page", "advance"}
        PROVE  mine'[th].after = Covered(mine[th].id) /\ mine'[th] = mine[th]
    <3>1. at'[th] \in Paging /\ at'[th] # "unlink"  BY <2>2 DEF Paging
    <3> QED  BY <2>2, <3>1, Zenon DEF IInv, Reads, Rest
  <2> QED  BY <2>1, <2>2, <1>0, Zenon DEF Reads, Rest
<1>5. ASSUME NEW x \in exhausted'  PROVE Ended(x)'
  <2>1. Ended(x) /\ x \in exhausted  BY <1>5, Zenon DEF IInv, Rest
  <2>2. ASSUME NEW th \in Thread, at'[th] \in {"page", "advance"}
        PROVE  mine'[th].id # x.id
    <3>1. at'[th] \in Paging /\ at'[th] # "unlink"  BY <2>2 DEF Paging
    <3> QED  BY <2>1, <2>2, <3>1, Zenon DEF Ended, Rest
  <2> QED  BY <2>1, <2>2, <1>0, Zenon DEF Ended, Rest
<1> QED  BY <1>1, <1>2, <1>3, <1>4, <1>5, Zenon DEF IInv

\* A step in which one call goes to a place at which it reads from no cursor, and
\* unlinks no cursor that another call reads from.
Leaves(th, next) ==
  /\ next \notin Paging /\ (next = "link" => mine'[th].after = 0)
  /\ at' = [at EXCEPT ![th] = next] /\ \A t \in Thread \ {th} : mine'[t] = mine[t]
  /\ UNCHANGED <<pages, exhausted, next_cursor_id>> /\ cursors' \subseteq cursors
  /\ \A t \in Thread \ {th} : at[t] \in Paging =>
       \A p \in cursors : p.id = mine[t].id /\ p.busy = TRUE => p \in cursors'

\* Such a step, too, is one that no page depends on.
LEMMA LeaveRests ==
  ASSUME IInv, NEW th \in Thread, NEW next, Leaves(th, next)
  PROVE  Rest
<1>1. at \in [Thread -> Place]  BY Zenon DEF IInv, Types
<1>4. at'[th] \notin Paging /\ (at'[th] = "link" => mine'[th].after = 0)
  BY <1>1, Zenon DEF Leaves
<1>5. ASSUME NEW t \in Thread, t # th  PROVE at'[t] = at[t] /\ mine'[t] = mine[t]
  BY <1>1, <1>5, Zenon DEF Leaves
<1>6. \A t \in Thread : at[t] = "link" => mine[t].after = 0  BY Zenon DEF IInv, Reads
<1> QED  BY <1>4, <1>5, <1>6, Zenon DEF Rest, Leaves

\* Expiry unlinks no cursor that a call reads from.
LEMMA EnterLeaves ==
  ASSUME NEW th \in Thread, NEW next \in {"open", "query", "next", "leave"},
         Enter(th, next), UNCHANGED <<pages, exhausted, next_cursor_id>>,
         \A t \in Thread \ {th} : mine'[t] = mine[t]
  PROVE  Leaves(th, next)
<1>1. next \notin Paging /\ next # "link"  BY DEF Paging
<1>2. cursors' \subseteq cursors /\ \A p \in cursors : p.busy = TRUE => p \in cursors'
  BY DEF Enter, Expired
<1> QED  BY <1>1, <1>2, Zenon DEF Leaves, Enter

\* The steps that belong to no call preserve the invariant.
LEMMA OutsideKeeps ==
  ASSUME IInv, Tick \/ Clear \/ AppendRow \/ TimePasses \/ UNCHANGED vars
  PROVE  IInv'
<1>0. Types'  BY TypesOutside, Zenon DEF IInv
<1>1. CASE Tick
  <2>1. Ticker \in Thread  BY CursorsAssumption
  <2>2. UNCHANGED <<pages, exhausted, next_cursor_id, mine>> /\ Enter(Ticker, "leave")
    BY <1>1 DEF Tick, observed
  <2>3. Leaves(Ticker, "leave")  BY <2>1, <2>2, EnterLeaves
  <2> QED  BY <2>1, <2>3, <1>0, LeaveRests, RestKeeps, Zenon
<1>2. CASE Clear
  <2>1. \A th \in Thread : at'[th] = "closed"  BY <1>2, Zenon DEF Clear
  <2>2. "closed" \notin Paging /\ "closed" # "link"  BY DEF Paging
  <2>3. UNCHANGED <<pages, exhausted, next_cursor_id>> /\ cursors' \subseteq cursors
    BY <1>2 DEF Clear, observed
  <2>4. Rest  BY <2>1, <2>2, <2>3, Zenon DEF Rest
  <2> QED  BY <2>4, <1>0, RestKeeps, Zenon
<1>3. CASE AppendRow \/ TimePasses \/ UNCHANGED vars
  <2>1. UNCHANGED <<pages, exhausted, next_cursor_id, cursors, at, mine>>
    BY <1>3 DEF AppendRow, TimePasses, vars, observed
  <2>2. \A th \in Thread : at[th] = "link" => mine[th].after = 0
    BY Zenon DEF IInv, Reads
  <2>3. Rest  BY <2>1, <2>2, Zenon DEF Rest
  <2> QED  BY <2>3, <1>0, RestKeeps, Zenon
<1> QED  BY <1>1, <1>2, <1>3

\* Opening, querying, asking for a page and closing preserve the invariant.
LEMMA BeginKeeps ==
  ASSUME IInv, NEW th \in Thread,
         \/ \E what \in {"open", "query"} : Begin(th, what)
         \/ \E id \in Id : BeginNext(th, id) \/ CloseCursor(th, id)
  PROVE  IInv'
<1>0. Types'  BY TypesBegin, Zenon DEF IInv
<1>m. mine \in [Thread -> Cursor]  BY Zenon DEF IInv, Types
<1>1. CASE \E what \in {"open", "query"} : Begin(th, what)
  <2>1. PICK what \in {"open", "query"} : Begin(th, what)  BY <1>1
  <2>2. UNCHANGED <<pages, exhausted, next_cursor_id, mine>> /\ Enter(th, what)
    BY <2>1 DEF Begin, observed
  <2>3. Leaves(th, what)  BY <2>2, EnterLeaves
  <2> QED  BY <2>3, <1>0, LeaveRests, RestKeeps, Zenon
<1>2. CASE \E id \in Id : BeginNext(th, id)
  <2>1. PICK id \in Id : BeginNext(th, id)  BY <1>2
  <2>2. UNCHANGED <<pages, exhausted, next_cursor_id>> /\ Enter(th, "next")
    BY <2>1 DEF BeginNext, observed
  <2>3. \A t \in Thread \ {th} : mine'[t] = mine[t]
    BY <2>1, <1>m, Zenon DEF BeginNext
  <2>4. Leaves(th, "next")  BY <2>2, <2>3, EnterLeaves
  <2> QED  BY <2>4, <1>0, LeaveRests, RestKeeps, Zenon
<1>3. CASE \E id \in Id : CloseCursor(th, id)
  <2>1. PICK id \in Id : CloseCursor(th, id)  BY <1>3
  <2>2. UNCHANGED <<pages, exhausted, next_cursor_id>>
        /\ cursors' \subseteq cursors /\ \A p \in cursors : p.busy = TRUE => p \in cursors'
    BY <2>1 DEF CloseCursor, observed
  <2>3. /\ \A t \in Thread \ {th} : mine'[t] = mine[t]
        /\ at' = [at EXCEPT ![th] = "leave"]
    BY <2>1, <1>m, Zenon DEF CloseCursor, Discard
  <2>4. "leave" \notin Paging /\ "leave" # "link"  BY DEF Paging
  <2>5. Leaves(th, "leave")  BY <2>2, <2>3, <2>4, Zenon DEF Leaves
  <2> QED  BY <2>5, <1>0, LeaveRests, RestKeeps, Zenon
<1> QED  BY <1>1, <1>2, <1>3

\* A call that opens a cursor, queries or returns.
LEMMA PlainKeeps ==
  ASSUME IInv, Types', NEW th \in Thread,
         \/ Destroy(th) \/ Leave(th) \/ Read(th)
         \/ \E charge \in SnapshotCharge : Acquire(th, charge)
  PROVE  IInv'
<1>m. mine \in [Thread -> Cursor] /\ at \in [Thread -> Place]  BY Zenon DEF IInv, Types
<1>p. "idle" \notin Paging /\ "leave" \notin Paging /\ "link" \notin Paging
      /\ "reading" \notin Paging /\ "idle" # "link" /\ "leave" # "link" /\ "reading" # "link"
  BY DEF Paging
<1>1. CASE Destroy(th)
  <2>1. UNCHANGED <<pages, exhausted, next_cursor_id, cursors, at, mine>>
    BY <1>1 DEF Destroy, observed
  <2>2. \A t \in Thread : at[t] = "link" => mine[t].after = 0  BY Zenon DEF IInv, Reads
  <2>3. Rest  BY <2>1, <2>2, Zenon DEF Rest
  <2> QED  BY <2>3, RestKeeps, Zenon
<1>2. CASE Leave(th)
  <2>1. UNCHANGED <<pages, exhausted, next_cursor_id, cursors, mine>>
        /\ at' = [at EXCEPT ![th] = "idle"]
    BY <1>2 DEF Leave, observed
  <2>2. Leaves(th, "idle")  BY <2>1, <1>p, Zenon DEF Leaves
  <2> QED  BY <2>2, LeaveRests, RestKeeps, Zenon
<1>3. CASE Read(th)
  <2>1. UNCHANGED <<pages, exhausted, next_cursor_id, cursors>>
        /\ at' = [at EXCEPT ![th] = "leave"]
    BY <1>3 DEF Read, Discard, observed
  <2>2. \A t \in Thread \ {th} : mine'[t] = mine[t]
    BY <1>3, <1>m, Zenon DEF Read, Discard
  <2>3. Leaves(th, "leave")  BY <2>1, <2>2, <1>p, Zenon DEF Leaves
  <2> QED  BY <2>3, LeaveRests, RestKeeps, Zenon
<1>4. CASE \E charge \in SnapshotCharge : Acquire(th, charge)
  <2>1. PICK charge \in SnapshotCharge : Acquire(th, charge)  BY <1>4
  <2> DEFINE new == [id |-> 0, deadline |-> now + Ttl, after |-> 0,
                     sequence |-> last_sequence, remaining |-> ScanBytes,
                     charge |-> charge, busy |-> FALSE]
             next == IF at[th] = "open" THEN "link" ELSE "reading"
  <2>2. UNCHANGED <<pages, exhausted, next_cursor_id, cursors>>
    BY <2>1 DEF Acquire, observed
  <2>3. CASE mine' = [mine EXCEPT ![th] = new] /\ at' = [at EXCEPT ![th] = next]
    <3>1. mine'[th] = new /\ \A t \in Thread \ {th} : mine'[t] = mine[t]
      BY <2>3, <1>m, Zenon
    <3>2. new.after = 0 /\ next \notin Paging  BY <1>p
    <3> HIDE DEF new, next
    <3>3. Leaves(th, next)  BY <2>2, <2>3, <3>1, <3>2, Zenon DEF Leaves
    <3> QED  BY <3>3, LeaveRests, RestKeeps, Zenon
  <2>4. CASE UNCHANGED mine /\ at' = [at EXCEPT ![th] = "idle"]
    <3>1. Leaves(th, "idle")  BY <2>2, <2>4, <1>p, Zenon DEF Leaves
    <3> QED  BY <3>1, LeaveRests, RestKeeps, Zenon
  <2> QED  BY <2>1, <2>3, <2>4 DEF Acquire
<1> QED  BY <1>1, <1>2, <1>3, <1>4

\* A call that gives up its page, or unlinks the cursor it has read from: another call
\* reads from another cursor.
LEMMA GiveUpKeeps ==
  ASSUME IInv, Types', NEW th \in Thread, PageFails(th) \/ Unlink(th)
  PROVE  IInv'
<1>m. mine \in [Thread -> Cursor] /\ at \in [Thread -> Place]  BY Zenon DEF IInv, Types
<1>1. CASE PageFails(th)
  <2>1. UNCHANGED <<pages, exhausted, next_cursor_id, cursors, mine>>
        /\ at[th] = "page" /\ at' = [at EXCEPT ![th] = "unlink"]
    BY <1>1 DEF PageFails, At, observed
  <2>2. at[th] \in Paging /\ at'[th] = "unlink"  BY <2>1, <1>m, Zenon DEF Paging
  <2>3. \A t \in Thread : t # th => at'[t] = at[t]  BY <2>1, <1>m, Zenon
  <2>4. \A t \in Thread : at[t] = "link" => mine[t].after = 0  BY Zenon DEF IInv, Reads
  <2>5. "unlink" # "link"  OBVIOUS
  <2>6. Rest  BY <2>1, <2>2, <2>3, <2>4, <2>5, Zenon DEF Rest
  <2> QED  BY <2>6, RestKeeps, Zenon
<1>2. CASE Unlink(th)
  <2>1. UNCHANGED <<pages, exhausted, next_cursor_id>> /\ at[th] = "unlink"
        /\ at' = [at EXCEPT ![th] = "leave"] /\ cursors' = cursors \ Find(mine[th].id)
    BY <1>2 DEF Unlink, At, Discard, observed
  <2>2. \A t \in Thread \ {th} : mine'[t] = mine[t]
    BY <1>2, <1>m, Zenon DEF Unlink, Discard
  <2>3. at[th] \in Paging /\ "leave" \notin Paging /\ "leave" # "link"
    BY <2>1 DEF Paging
  <2>4. ASSUME NEW t \in Thread \ {th}, at[t] \in Paging
        PROVE  mine[t].id # mine[th].id
    BY <2>3, <2>4, Zenon DEF IInv, Alone
  <2>5. ASSUME NEW t \in Thread \ {th}, at[t] \in Paging, NEW p \in cursors,
               p.id = mine[t].id
        PROVE  p \in cursors'
    BY <2>1, <2>4, <2>5, Zenon DEF Find
  <2>6. cursors' \subseteq cursors  BY <2>1, Zenon
  <2>7. Leaves(th, "leave")  BY <2>1, <2>2, <2>3, <2>5, <2>6, Zenon DEF Leaves
  <2> QED  BY <2>7, LeaveRests, RestKeeps, Zenon
<1> QED  BY <1>1, <1>2

-----------------------------------------------------------------------------
(* Linking a cursor, taking it for a page, and putting it back.            *)

\* A new cursor has an ID that none had before it, and no pages.
LEMMA LinkKeeps ==
  ASSUME IInv, Types', NEW th \in Thread, Link(th)
  PROVE  IInv'
<1>m. mine \in [Thread -> Cursor] /\ at \in [Thread -> Place]  BY Zenon DEF IInv, Types
<1>p. "idle" \notin Paging /\ "leave" \notin Paging /\ "idle" # "link" /\ "leave" # "link"
      /\ "idle" \notin {"page", "advance"}
  BY DEF Paging
<1>1. CASE ~(next_cursor_id # MaxId /\ Fits(CursorCharge))
  <2>1. UNCHANGED <<pages, exhausted, next_cursor_id, cursors>>
        /\ at' = [at EXCEPT ![th] = "leave"]
    BY <1>1 DEF Link, Discard, observed
  <2>2. \A t \in Thread \ {th} : mine'[t] = mine[t]
    BY <1>1, <1>m, Zenon DEF Link, Discard
  <2>3. Leaves(th, "leave")  BY <2>1, <2>2, <1>p, Zenon DEF Leaves
  <2> QED  BY <2>3, LeaveRests, RestKeeps, Zenon
<1>2. CASE next_cursor_id # MaxId /\ Fits(CursorCharge)
  <2> DEFINE new == [mine[th] EXCEPT !.id = next_cursor_id + 1, !.charge = @ + CursorCharge]
  <2>1. /\ UNCHANGED <<pages, exhausted>> /\ next_cursor_id' = next_cursor_id + 1
        /\ cursors' = cursors \cup {new} /\ at[th] = "link"
        /\ at' = [at EXCEPT ![th] = "idle"] /\ mine' = [mine EXCEPT ![th] = Nothing]
    BY <1>2 DEF Link, At, observed
  <2>2. \A t \in Thread : t # th => at'[t] = at[t] /\ mine'[t] = mine[t]
    BY <2>1, <1>m, Zenon
  <2>3. at'[th] = "idle"  BY <2>1, <1>m, Zenon
  <2>4. next_cursor_id + 1 \in Id /\ next_cursor_id \in Nat
    BY <1>2, CursorsAssumption DEF IInv, Types, Id
  <2>5. new.id = next_cursor_id + 1 /\ new.after = mine[th].after
    BY <1>m DEF Cursor
  <2>6. mine[th].after = 0  BY <2>1, Zenon DEF IInv, Reads
  <2> HIDE DEF new
  <2>7. \A id : Covered(id)' = Covered(id)  BY <2>1 DEF Covered
  <2>8. pages[new.id] = << >> /\ \A p \in cursors : p.id # new.id
    BY <2>4, <2>5 DEF IInv, Listed, Id
  <2>9. new.after = Covered(new.id)  BY <2>5, <2>6, <2>8 DEF Covered
  <2>10. Listed'
    <3>1. ASSUME NEW p \in cursors'
          PROVE  /\ p.id \in Id /\ p.id <= next_cursor_id'
                 /\ p.busy = FALSE => p.after = Covered(p.id)'
      <4>1. CASE p = new  BY <4>1, <2>1, <2>4, <2>5, <2>7, <2>9
      <4>2. CASE p \in cursors
        BY <4>2, <2>1, <2>4, <2>7 DEF IInv, Listed, Id
      <4> QED  BY <4>1, <4>2, <2>1, Zenon
    <3>2. ASSUME NEW p \in cursors', NEW q \in cursors', p.id = q.id  PROVE p = q
      BY <3>2, <2>1, <2>8, Zenon DEF IInv, Listed
    <3>3. ASSUME NEW id \in Id, id > next_cursor_id'  PROVE pages'[id] = << >>
      <4>1. id > next_cursor_id  BY <3>3, <2>1, <2>4 DEF Id
      <4> QED  BY <4>1, <2>1 DEF IInv, Listed
    <3> QED  BY <3>1, <3>2, <3>3, Zenon DEF Listed
  <2>11. Alone'  BY <2>2, <2>3, <1>p, Zenon DEF IInv, Alone
  <2>12. Tiles'  BY <2>1, Zenon DEF IInv, Tiles
  <2>13. ASSUME NEW t \in Thread  PROVE Reads(t)'
    <3>1. CASE t = th  BY <3>1, <2>3, <1>p, Zenon DEF Reads
    <3>2. CASE t # th
      <4>1. Reads(t) /\ at'[t] = at[t] /\ mine'[t] = mine[t]  BY <3>2, <2>2, Zenon DEF IInv
      <4>2. cursors \subseteq cursors'  BY <2>1, Zenon
      <4> QED  BY <4>1, <4>2, <2>7, Zenon DEF Reads
    <3> QED  BY <3>1, <3>2
  <2>14. ASSUME NEW x \in exhausted'  PROVE Ended(x)'
    <3>1. Ended(x) /\ x.id \in Id  BY <2>1 DEF IInv, Types
    <3>2. x.id <= next_cursor_id' /\ x.id # new.id
      BY <3>1, <2>1, <2>4, <2>5 DEF Ended, Id
    <3>3. \A p \in cursors' : p.id = x.id => p.busy = TRUE
      BY <3>1, <3>2, <2>1, Zenon DEF Ended
    <3>4. ASSUME NEW t \in Thread, at'[t] \in {"page", "advance"}  PROVE mine'[t].id # x.id
      BY <3>1, <3>4, <2>2, <2>3, <1>p, Zenon DEF Ended
    <3> QED  BY <3>1, <3>2, <3>3, <3>4, <2>1, <2>7, Zenon DEF Ended
  <2> QED  BY <2>10, <2>11, <2>12, <2>13, <2>14, Zenon DEF IInv
<1> QED  BY <1>1, <1>2

\* A cursor taken for a page was in use by no other call, and had not reported its end.
LEMMA PinKeeps ==
  ASSUME IInv, Types', NEW th \in Thread, Pin(th)
  PROVE  IInv'
<1>m. mine \in [Thread -> Cursor] /\ at \in [Thread -> Place] /\ cursors \subseteq Cursor
  BY Zenon DEF IInv, Types
<1>p. "idle" \notin Paging /\ "idle" # "link" /\ "page" # "link"  BY DEF Paging
<1>1. CASE UNCHANGED cursors /\ at' = [at EXCEPT ![th] = "idle"]
           /\ mine' = [mine EXCEPT ![th] = Nothing]
  <2>1. UNCHANGED <<pages, exhausted, next_cursor_id>>  BY DEF Pin, observed
  <2>2. \A t \in Thread \ {th} : mine'[t] = mine[t]  BY <1>1, <1>m, Zenon
  <2>3. Leaves(th, "idle")  BY <1>1, <2>1, <2>2, <1>p, Zenon DEF Leaves
  <2> QED  BY <2>3, LeaveRests, RestKeeps, Zenon
<1>2. ASSUME NEW p \in cursors, ~p.busy,
             cursors' = (cursors \ {p}) \cup {[p EXCEPT !.busy = TRUE]},
             mine' = [mine EXCEPT ![th] = [p EXCEPT !.busy = TRUE]],
             at' = [at EXCEPT ![th] = "page"]
      PROVE  IInv'
  <2> DEFINE taken == [p EXCEPT !.busy = TRUE]
  <2>1. UNCHANGED <<pages, exhausted, next_cursor_id>>  BY DEF Pin, observed
  <2>2. \A t \in Thread : t # th => at'[t] = at[t] /\ mine'[t] = mine[t]
    BY <1>2, <1>m, Zenon
  <2>3. at'[th] = "page" /\ mine'[th] = taken  BY <1>2, <1>m, Zenon
  <2>4. taken.id = p.id /\ taken.after = p.after /\ taken.busy = TRUE
    <3>1. p \in Cursor  BY <1>2, <1>m
    <3> QED  BY <3>1, Zenon DEF Cursor
  <2>5. p.busy = FALSE
    <3>1. p.busy \in BOOLEAN  BY <1>2, <1>m, CursorFields
    <3> QED  BY <3>1, <1>2
  <2>6. cursors' = (cursors \ {p}) \cup {taken}  BY <1>2
  <2> HIDE DEF taken
  <2>7. \A id : Covered(id)' = Covered(id)  BY <2>1 DEF Covered
  <2>8. p.after = Covered(p.id)  BY <1>2, <2>5, Zenon DEF IInv, Listed
  <2>9. ASSUME NEW q \in cursors, q.busy = TRUE  PROVE q.id # p.id /\ q \in cursors'
    <3>1. q # p  BY <2>9, <2>5
    <3> QED  BY <3>1, <1>2, <2>6, <2>9, Zenon DEF IInv, Listed
  <2>10. Listed'
    <3>1. ASSUME NEW q \in cursors'
          PROVE  /\ q.id \in Id /\ q.id <= next_cursor_id'
                 /\ q.busy = FALSE => q.after = Covered(q.id)'
      BY <1>2, <2>1, <2>4, <2>6, <2>7, <2>8, Zenon DEF IInv, Listed
    <3>2. ASSUME NEW q \in cursors', NEW r \in cursors', q.id = r.id  PROVE q = r
      <4>1. ASSUME NEW s \in cursors, s # p  PROVE s.id # taken.id
        BY <4>1, <1>2, <2>4, Zenon DEF IInv, Listed
      <4> QED  BY <4>1, <3>2, <2>6, Zenon DEF IInv, Listed
    <3> QED  BY <3>1, <3>2, <2>1, Zenon DEF Listed, IInv
  <2>11. ASSUME NEW t \in Thread, t # th, at[t] \in Paging  PROVE mine[t].id # p.id
    <3>1. PICK q \in cursors : q.id = mine[t].id /\ q.busy = TRUE
      BY <2>11, Zenon DEF IInv, Reads
    <3> QED  BY <3>1, <2>9, Zenon
  <2>12. Alone'
    <3>1. ASSUME NEW t \in Thread, NEW other \in Thread, at'[t] \in Paging,
                 at'[other] \in Paging, t # other
          PROVE  mine'[t].id # mine'[other].id
      <4>1. CASE t = th  BY <4>1, <3>1, <2>2, <2>3, <2>4, <2>11, Zenon
      <4>2. CASE other = th  BY <4>2, <3>1, <2>2, <2>3, <2>4, <2>11, Zenon
      <4>3. CASE t # th /\ other # th  BY <4>3, <3>1, <2>2, Zenon DEF IInv, Alone
      <4> QED  BY <4>1, <4>2, <4>3
    <3> QED  BY <3>1, Zenon DEF Alone
  <2>13. Tiles'  BY <2>1, Zenon DEF IInv, Tiles
  <2>14. ASSUME NEW t \in Thread  PROVE Reads(t)'
    <3>1. CASE t = th
      <4>1. taken \in cursors'  BY <2>6, Zenon
      <4> QED  BY <3>1, <4>1, <2>3, <2>4, <2>7, <2>8, <1>p, Zenon DEF Reads
    <3>2. CASE t # th
      <4>1. Reads(t) /\ at'[t] = at[t] /\ mine'[t] = mine[t]  BY <3>2, <2>2, Zenon DEF IInv
      <4> QED  BY <4>1, <2>7, <2>9, Zenon DEF Reads
    <3> QED  BY <3>1, <3>2
  <2>15. ASSUME NEW x \in exhausted'  PROVE Ended(x)'
    <3>1. Ended(x)  BY <2>1, Zenon DEF IInv
    <3>2. x.id # p.id  BY <3>1, <1>2, <2>5 DEF Ended
    <3>3. \A q \in cursors' : q.id = x.id => q.busy = TRUE
      BY <3>1, <2>4, <2>6, Zenon DEF Ended
    <3>4. ASSUME NEW t \in Thread, at'[t] \in {"page", "advance"}  PROVE mine'[t].id # x.id
      BY <3>1, <3>2, <3>4, <2>2, <2>3, <2>4, Zenon DEF Ended
    <3> QED  BY <3>1, <3>3, <3>4, <2>1, <2>7, Zenon DEF Ended
  <2> QED  BY <2>10, <2>12, <2>13, <2>14, <2>15, Zenon DEF IInv
<1> QED  BY <1>1, <1>2 DEF Pin, Find

\* A cursor put back continues where the page that was read ended.
LEMMA AdvanceKeeps ==
  ASSUME IInv, Types', NEW th \in Thread, Advance(th)
  PROVE  IInv'
<1> DEFINE m == mine[th]
<1>m. mine \in [Thread -> Cursor] /\ at \in [Thread -> Place] /\ cursors \subseteq Cursor
  BY Zenon DEF IInv, Types
<1>p. "idle" \notin Paging /\ "idle" # "link" /\ "idle" \notin {"page", "advance"}
      /\ "advance" \in Paging
  BY DEF Paging
<1>1. /\ UNCHANGED <<pages, exhausted, next_cursor_id>> /\ at[th] = "advance"
      /\ at' = [at EXCEPT ![th] = "idle"] /\ mine' = [mine EXCEPT ![th] = Nothing]
      /\ cursors' = {IF p.id = m.id THEN Advanced(p, m) ELSE p : p \in cursors}
  BY DEF Advance, At, observed
<1>2. \A t \in Thread : t # th => at'[t] = at[t] /\ mine'[t] = mine[t]
  BY <1>1, <1>m, Zenon
<1>3. at'[th] = "idle"  BY <1>1, <1>m, Zenon
<1>4. m.after = Covered(m.id)  BY <1>1, Zenon DEF IInv, Reads
<1>5. ASSUME NEW p \in cursors
      PROVE  Advanced(p, m).id = p.id /\ Advanced(p, m).after = m.after
             /\ Advanced(p, m).busy = FALSE
  <2>1. p \in Cursor  BY <1>m
  <2> QED  BY <2>1, Zenon DEF Cursor, Advanced
<1>7. \A id : Covered(id)' = Covered(id)  BY <1>1 DEF Covered
<1>8. ASSUME NEW q \in cursors'
      PROVE  \E p \in cursors : /\ q.id = p.id
                                /\ p.id # m.id => q = p
                                /\ p.id = m.id => q = Advanced(p, m)
  <2> HIDE DEF m
  <2>1. PICK p \in cursors : q = IF p.id = m.id THEN Advanced(p, m) ELSE p
    BY <1>1, <1>8, Zenon
  <2> QED  BY <2>1, <1>5, Zenon
<1>9. ASSUME NEW p \in cursors, p.id # m.id  PROVE p \in cursors'
  BY <1>1, <1>9, Zenon
<1>10. Listed'
  <2>1. ASSUME NEW q \in cursors'
        PROVE  /\ q.id \in Id /\ q.id <= next_cursor_id'
               /\ q.busy = FALSE => q.after = Covered(q.id)'
    <3> HIDE DEF m
    <3>1. PICK p \in cursors : /\ q.id = p.id /\ (p.id # m.id => q = p)
                               /\ p.id = m.id => q = Advanced(p, m)
      BY <1>8, Zenon
    <3>2. p.id \in Id /\ p.id <= next_cursor_id /\ (p.busy = FALSE => p.after = Covered(p.id))
      BY Zenon DEF IInv, Listed
    <3>3. CASE p.id = m.id  BY <3>1, <3>2, <3>3, <1>1, <1>4, <1>5, <1>7, Zenon
    <3>4. CASE p.id # m.id  BY <3>1, <3>2, <3>4, <1>1, <1>7, Zenon
    <3> QED  BY <3>3, <3>4, Zenon
  <2>2. ASSUME NEW q \in cursors', NEW r \in cursors', q.id = r.id  PROVE q = r
    <3> HIDE DEF m
    <3>1. PICK p \in cursors : /\ q.id = p.id /\ (p.id # m.id => q = p)
                               /\ p.id = m.id => q = Advanced(p, m)
      BY <1>8, Zenon
    <3>2. PICK s \in cursors : /\ r.id = s.id /\ (s.id # m.id => r = s)
                               /\ s.id = m.id => r = Advanced(s, m)
      BY <1>8, Zenon
    <3>3. p = s  BY <2>2, <3>1, <3>2, Zenon DEF IInv, Listed
    <3> QED  BY <3>1, <3>2, <3>3, Zenon
  <2> QED  BY <2>1, <2>2, <1>1, Zenon DEF Listed, IInv
<1>11. Alone'  BY <1>2, <1>3, <1>p, Zenon DEF IInv, Alone
<1>12. Tiles'  BY <1>1, Zenon DEF IInv, Tiles
<1>13. ASSUME NEW t \in Thread  PROVE Reads(t)'
  <2>1. CASE t = th  BY <2>1, <1>3, <1>p, Zenon DEF Reads
  <2>2. CASE t # th
    <3>1. Reads(t) /\ at'[t] = at[t] /\ mine'[t] = mine[t]  BY <2>2, <1>2, Zenon DEF IInv
    <3>2. at[t] \in Paging => mine[t].id # m.id
      BY <2>2, <1>1, <1>p, Zenon DEF IInv, Alone
    <3> QED  BY <3>1, <3>2, <1>7, <1>9, Zenon DEF Reads
  <2> QED  BY <2>1, <2>2
<1>14. ASSUME NEW x \in exhausted'  PROVE Ended(x)'
  <2>1. Ended(x)  BY <1>1, Zenon DEF IInv
  <2>2. x.id # m.id  BY <2>1, <1>1 DEF Ended
  <2>3. ASSUME NEW q \in cursors', q.id = x.id  PROVE q.busy = TRUE
    <3> HIDE DEF m
    <3> QED  BY <2>1, <2>2, <2>3, <1>8, Zenon DEF Ended
  <2>4. ASSUME NEW t \in Thread, at'[t] \in {"page", "advance"}  PROVE mine'[t].id # x.id
    BY <2>1, <2>4, <1>2, <1>3, <1>p, Zenon DEF Ended
  <2> QED  BY <2>1, <2>3, <2>4, <1>1, <1>7, Zenon DEF Ended
<1> QED  BY <1>10, <1>11, <1>12, <1>13, <1>14, Zenon DEF IInv

-----------------------------------------------------------------------------
(* Reading a page.                                                         *)

\* A page that starts after the last row covered: the pages still tile, they now cover
\* row k, and those of other cursors are as before.
LEMMA PageTiles ==
  ASSUME Types, Tiles, NEW id \in Id, NEW k \in Nat,
         pages' = [pages EXCEPT ![id] = Append(@, <<Covered(id) + 1, k>>)]
  PROVE  /\ Tiles' /\ pages'[id] # << >> /\ Covered(id)' = k
         /\ \A j \in Id : j # id => pages'[j] = pages[j] /\ Covered(j)' = Covered(j)
<1> DEFINE s == pages[id]
           n == Len(s)
           t == Append(s, <<Covered(id) + 1, k>>)
<1>1. pages \in [Id -> Seq(Nat \X Nat)]  BY Zenon DEF Types
<1>2. pages'[id] = t /\ \A j \in Id : j # id => pages'[j] = pages[j]  BY <1>1, Zenon
<1>3. s \in Seq(Nat \X Nat)  BY <1>1, Zenon
<1>4. n \in Nat /\ Len(t) = n + 1 /\ t[n + 1] = <<Covered(id) + 1, k>>
      /\ \A i \in 1 .. n : t[i] = s[i]
  <2> DEFINE P == Nat \X Nat
             v == <<Covered(id) + 1, k>>
  <2>1. s \in Seq(P)  BY <1>3
  <2> HIDE DEF P, v, s
  <2>2. n \in Nat /\ Len(Append(s, v)) = n + 1 /\ Append(s, v)[n + 1] = v
        /\ \A i \in 1 .. n : Append(s, v)[i] = s[i]
    BY <2>1
  <2> QED  BY <2>2 DEF v
<1>5. s = << >> <=> n = 0
  <2> DEFINE P == Nat \X Nat
  <2>1. s \in Seq(P)  BY <1>3
  <2> HIDE DEF P, s
  <2> QED  BY <2>1
<1>6. Covered(id) = IF n = 0 THEN 0 ELSE s[n][2]  BY <1>5 DEF Covered
<1>7. ASSUME NEW i \in 1 .. Len(s)
      PROVE  s[i][1] = IF i = 1 THEN 1 ELSE s[i - 1][2] + 1
  BY Zenon DEF Tiles
<1> HIDE DEF s, t
<1>8. ASSUME NEW i \in 1 .. Len(t)
      PROVE  t[i][1] = IF i = 1 THEN 1 ELSE t[i - 1][2] + 1
  <2>1. CASE i = n + 1
    <3>1. t[i][1] = Covered(id) + 1  BY <2>1, <1>4
    <3>2. CASE n = 0  BY <3>1, <3>2, <2>1, <1>6
    <3>3. CASE n # 0
      <4>1. i # 1 /\ i - 1 = n /\ n \in 1 .. n  BY <3>3, <2>1, <1>4
      <4>2. t[i - 1] = s[n]  BY <4>1, <1>4
      <4> QED  BY <3>1, <3>3, <4>1, <4>2, <1>6
    <3> QED  BY <3>2, <3>3
  <2>2. CASE i \in 1 .. n
    <3>1. t[i] = s[i] /\ (i # 1 => t[i - 1] = s[i - 1])  BY <2>2, <1>4
    <3> QED  BY <3>1, <2>2, <1>7
  <2> QED  BY <2>1, <2>2, <1>4
<1>9. Tiles'
  <2>1. ASSUME NEW j \in Id, NEW i \in 1 .. Len(pages'[j])
        PROVE  pages'[j][i][1] = IF i = 1 THEN 1 ELSE pages'[j][i - 1][2] + 1
    <3>1. CASE j = id
      <4>1. pages'[j] = t  BY <3>1, <1>2
      <4>2. i \in 1 .. Len(t)  BY <4>1, <2>1
      <4>3. t[i][1] = IF i = 1 THEN 1 ELSE t[i - 1][2] + 1  BY <4>2, <1>8, Zenon
      <4>4. pages'[j][i] = t[i] /\ pages'[j][i - 1] = t[i - 1]  BY <4>1, Zenon
      <4> QED  BY <4>3, <4>4
    <3>2. CASE j # id
      <4>1. pages'[j] = pages[j]  BY <3>2, <1>2
      <4>2. i \in 1 .. Len(pages[j])  BY <4>1, <2>1, Zenon
      <4>3. pages[j][i][1] = IF i = 1 THEN 1 ELSE pages[j][i - 1][2] + 1
        BY <4>2, Zenon DEF Tiles
      <4> QED  BY <4>1, <4>3, Zenon
    <3> QED  BY <3>1, <3>2
  <2> QED  BY <2>1, Zenon DEF Tiles
<1>10. pages'[id] # << >>
  <2>1. Len(t) # 0  BY <1>4
  <2> QED  BY <2>1, <1>2
<1>11. Covered(id)' = k
  <2>1. Covered(id)' = t[Len(t)][2]  BY <1>2, <1>10, Zenon DEF Covered
  <2> QED  BY <2>1, <1>4
<1>12. \A j \in Id : j # id => Covered(j)' = Covered(j)  BY <1>2 DEF Covered
<1> QED  BY <1>2, <1>9, <1>10, <1>11, <1>12, Zenon

\* A call that reads from a cursor is the only one that touches its pages.
LEMMA PageOwned ==
  ASSUME IInv, NEW th \in Thread, at[th] = "page", NEW k \in Nat,
         pages' = [pages EXCEPT ![mine[th].id] = Append(@, <<mine[th].after + 1, k>>)],
         UNCHANGED <<cursors, next_cursor_id>>
  PROVE  /\ mine[th].id \in Id /\ mine[th].id <= next_cursor_id
         /\ \A p \in cursors : p.id = mine[th].id => p.busy = TRUE
         /\ \A x \in exhausted : x.id # mine[th].id
         /\ \A t \in Thread : t # th /\ at[t] \in Paging => mine[t].id # mine[th].id
         /\ Tiles' /\ pages'[mine[th].id] # << >> /\ Covered(mine[th].id) = mine[th].after
         /\ Listed'
         /\ \A id \in Id : id = mine[th].id => Covered(id)' = k
         /\ \A id \in Id : id # mine[th].id =>
              pages'[id] = pages[id] /\ Covered(id)' = Covered(id)
<1> DEFINE m == mine[th]
<1>1. at[th] \in Paging /\ at[th] \in {"page", "advance"}  BY DEF Paging
<1>2. PICK p \in cursors : p.id = m.id /\ p.busy = TRUE  BY <1>1, Zenon DEF IInv, Reads
<1>3. m.id \in Id /\ m.id <= next_cursor_id  BY <1>2, Zenon DEF IInv, Listed
<1>4. \A q \in cursors : q.id = m.id => q.busy = TRUE  BY <1>2, Zenon DEF IInv, Listed
<1>5. \A x \in exhausted : x.id # m.id  BY <1>1, Zenon DEF IInv, Ended
<1>6. \A t \in Thread : t # th /\ at[t] \in Paging => mine[t].id # m.id
  BY <1>1, Zenon DEF IInv, Alone
<1>7. Covered(m.id) = m.after  BY <1>1, Zenon DEF IInv, Reads
<1>8. ASSUME NEW i, i = m.id
      PROVE  /\ Tiles' /\ pages'[i] # << >> /\ Covered(i)' = k
             /\ \A j \in Id : j # i => pages'[j] = pages[j] /\ Covered(j)' = Covered(j)
  <2>1. i \in Id  BY <1>3, <1>8
  <2>2. pages' = [pages EXCEPT ![i] = Append(@, <<Covered(i) + 1, k>>)]
    BY <1>7, <1>8, Zenon
  <2>3. Types /\ Tiles  BY Zenon DEF IInv
  <2> HIDE DEF m
  <2> QED  BY <2>1, <2>2, <2>3, PageTiles, Zenon
<1>9. PICK i : i = m.id  OBVIOUS
<1>10. Listed'
  <2>1. ASSUME NEW q \in cursors', q.busy = FALSE  PROVE q.after = Covered(q.id)'
    <3>1. q \in cursors /\ q.id # i  BY <2>1, <1>4, <1>9
    <3>2. q.after = Covered(q.id) /\ q.id \in Id  BY <3>1, <2>1, Zenon DEF IInv, Listed
    <3> QED  BY <3>1, <3>2, <1>8, <1>9, Zenon
  <2>2. ASSUME NEW j \in Id, j > next_cursor_id'  PROVE pages'[j] = << >>
    <3>1. next_cursor_id \in Nat  BY CursorsAssumption DEF IInv, Types
    <3>2. j > next_cursor_id /\ j # i  BY <2>2, <3>1, <1>3, <1>9 DEF Id
    <3> QED  BY <3>2, <1>8, <1>9, Zenon DEF IInv, Listed
  <2> QED  BY <2>1, <2>2, Zenon DEF IInv, Listed
<1> QED
  BY <1>3, <1>4, <1>5, <1>6, <1>7, <1>8, <1>9, <1>10, Zenon

\* A call has read from its cursor to row k, and is to put it back, or to unlink it if
\* the snapshot ends there.
Covers(th, k) ==
  /\ at[th] = "page" /\ UNCHANGED <<cursors, next_cursor_id>>
  /\ pages' = [pages EXCEPT ![mine[th].id] = Append(@, <<mine[th].after + 1, k>>)]
  /\ \A t \in Thread : t # th => at'[t] = at[t] /\ mine'[t] = mine[t]
  /\ mine'[th].id = mine[th].id
  /\ at'[th] = "unlink" \/ (at'[th] = "advance" /\ mine'[th].after = k)
  /\ \A x \in exhausted' :
       x \in exhausted \/ (at'[th] = "unlink" /\ x.id = mine[th].id /\ x.sequence = k)

\* Such a step preserves the invariant.
LEMMA CoversKeeps ==
  ASSUME IInv, Types', NEW th \in Thread, NEW k \in Nat, Covers(th, k)
  PROVE  IInv'
<1>p. /\ "advance" # "link" /\ "unlink" # "link" /\ "page" \in Paging
      /\ "unlink" \notin {"page", "advance"}
      /\ \A w \in {"page", "advance"} : w \in Paging
  BY DEF Paging
<1>0. UNCHANGED <<cursors, next_cursor_id>>  BY Zenon DEF Covers
<1>1. /\ mine[th].id \in Id /\ mine[th].id <= next_cursor_id
      /\ \A p \in cursors : p.id = mine[th].id => p.busy = TRUE
      /\ \A x \in exhausted : x.id # mine[th].id
      /\ \A t \in Thread : t # th /\ at[t] \in Paging => mine[t].id # mine[th].id
      /\ Tiles' /\ pages'[mine[th].id] # << >> /\ Listed'
      /\ \A id \in Id : id = mine[th].id => Covered(id)' = k
      /\ \A id \in Id : id # mine[th].id =>
           pages'[id] = pages[id] /\ Covered(id)' = Covered(id)
  BY PageOwned, Zenon DEF Covers
<1>2. \A t \in Thread : t # th => at'[t] = at[t] /\ mine'[t] = mine[t]  BY Zenon DEF Covers
<1>3. PICK own \in Id : own = mine[th].id  BY <1>1, Zenon
<1>4. mine'[th].id = own  BY <1>3, Zenon DEF Covers
<1>5. Alone'
  <2>1. ASSUME NEW t \in Thread, NEW other \in Thread, at'[t] \in Paging,
               at'[other] \in Paging, t # other
        PROVE  mine'[t].id # mine'[other].id
    <3>0. ASSUME NEW u \in Thread, u # th, at'[u] \in Paging  PROVE mine'[u].id # own
      BY <3>0, <1>1, <1>2, <1>3, Zenon
    <3>1. CASE t = th  BY <3>0, <3>1, <2>1, <1>4, Zenon
    <3>2. CASE other = th  BY <3>0, <3>2, <2>1, <1>4, Zenon
    <3>3. CASE t # th /\ other # th  BY <3>3, <2>1, <1>2, Zenon DEF IInv, Alone
    <3> QED  BY <3>1, <3>2, <3>3
  <2> QED  BY <2>1, Zenon DEF Alone
<1>6. ASSUME NEW t \in Thread  PROVE Reads(t)'
  <2>0. Reads(t)  BY Zenon DEF IInv
  <2>1. CASE t = th
    <3>1. at[th] \in Paging  BY <1>p, Zenon DEF Covers
    <3>2. \E p \in cursors' : p.id = own /\ p.busy = TRUE
      BY <2>0, <2>1, <3>1, <1>0, <1>3, Zenon DEF Reads
    <3>3. at'[th] \in {"page", "advance"} => mine'[th].after = Covered(own)'
      BY <1>1, <1>3, <1>p, Zenon DEF Covers
    <3>4. at'[th] # "link"  BY <1>p, Zenon DEF Covers
    <3> QED  BY <2>1, <3>2, <3>3, <3>4, <1>4, Zenon DEF Reads
  <2>2. CASE t # th
    <3>1. at'[t] = at[t] /\ mine'[t] = mine[t]  BY <2>2, <1>2, Zenon
    <3>2. at[t] \in Paging => \E p \in cursors' : p.id = mine[t].id /\ p.busy = TRUE
      BY <2>0, <1>0, Zenon DEF Reads
    <3>3. ASSUME at[t] \in {"page", "advance"}
          PROVE  mine'[t].after = Covered(mine[t].id)'
      <4>1. at[t] \in Paging /\ mine[t].id # own  BY <3>3, <2>2, <1>1, <1>3, <1>p, Zenon
      <4>2. PICK p \in cursors : p.id = mine[t].id  BY <4>1, <2>0, Zenon DEF Reads
      <4>3. PICK i \in Id : i = mine[t].id  BY <4>2, Zenon DEF IInv, Listed
      <4>4. Covered(i)' = Covered(i)  BY <4>1, <4>3, <1>1, <1>3, Zenon
      <4>5. mine[t].after = Covered(i)  BY <3>3, <4>3, <2>0, Zenon DEF Reads
      <4> QED  BY <3>1, <4>3, <4>4, <4>5, Zenon
    <3> QED  BY <3>1, <3>2, <3>3, <2>0, Zenon DEF Reads
  <2> QED  BY <2>1, <2>2
<1>7. ASSUME NEW x \in exhausted'  PROVE Ended(x)'
  <2>1. CASE x \in exhausted
    <3>1. Ended(x) /\ x.id \in Id /\ x.id # own  BY <2>1, <1>1, <1>3 DEF IInv, Types
    <3>2. pages'[x.id] = pages[x.id] /\ Covered(x.id)' = Covered(x.id)
      BY <3>1, <1>1, <1>3, Zenon
    <3>3. ASSUME NEW t \in Thread, at'[t] \in {"page", "advance"}  PROVE mine'[t].id # x.id
      BY <3>1, <3>3, <1>2, <1>4, Zenon DEF Ended
    <3> QED  BY <3>1, <3>2, <3>3, <1>0, Zenon DEF Ended
  <2>2. CASE at'[th] = "unlink" /\ x.id = own /\ x.sequence = k
    <3>1. pages'[x.id] # << >> /\ Covered(x.id)' = k  BY <2>2, <1>1, <1>3, Zenon
    <3>2. ASSUME NEW t \in Thread, at'[t] \in {"page", "advance"}  PROVE mine'[t].id # x.id
      <4>1. t # th /\ at'[t] \in Paging  BY <3>2, <2>2, <1>p, Zenon
      <4> QED  BY <4>1, <2>2, <1>1, <1>2, <1>3, Zenon
    <3>3. x.id <= next_cursor_id' /\ \A p \in cursors' : p.id = x.id => p.busy = TRUE
      BY <2>2, <1>0, <1>1, <1>3, Zenon
    <3> QED  BY <2>2, <3>1, <3>2, <3>3, Zenon DEF Ended
  <2> QED  BY <2>1, <2>2, <1>3, <1>7, Zenon DEF Covers
<1> QED  BY <1>1, <1>5, <1>6, <1>7, Zenon DEF IInv

\* A page, and the last page, are such steps.
LEMMA PageKeeps ==
  ASSUME IInv, Types', NEW th \in Thread,
         (\E k \in 1 .. MaxSequence : Page(th, k)) \/ LastPage(th)
  PROVE  IInv'
<1>m. mine \in [Thread -> Cursor] /\ at \in [Thread -> Place]  BY Zenon DEF IInv, Types
<1>1. CASE \E k \in 1 .. MaxSequence : Page(th, k)
  <2>1. PICK k \in 1 .. MaxSequence : Page(th, k)  BY <1>1
  <2>2. k \in Nat  BY CursorsAssumption
  <2>3. at'[th] = "advance" /\ \A t \in Thread : t # th => at'[t] = at[t]
    BY <2>1, <1>m, Zenon DEF Page
  <2>4. \A t \in Thread : t # th => mine'[t] = mine[t]  BY <2>1, <1>m, Zenon DEF Page
  <2>5. mine'[th].id = mine[th].id /\ mine'[th].after = k
    BY <2>1, <1>m, Zenon DEF Page, Cursor
  <2>6. Covers(th, k)  BY <2>1, <2>3, <2>4, <2>5, Zenon DEF Page, At, Covers
  <2> QED  BY <2>2, <2>6, CoversKeeps, Zenon
<1>2. CASE LastPage(th)
  <2>1. at'[th] = "unlink" /\ \A t \in Thread : t # th => at'[t] = at[t]
    BY <1>2, <1>m, Zenon DEF LastPage
  <2>2. mine[th].sequence \in Nat  BY <1>m, CursorFields
  <2>3. ASSUME NEW x \in exhausted', x \notin exhausted
        PROVE  x.id = mine[th].id /\ x.sequence = mine[th].sequence
    <3>1. x = [id |-> mine[th].id, sequence |-> mine[th].sequence]
      BY <2>3, <1>2, Zenon DEF LastPage
    <3> QED  BY <3>1
  <2>4. Covers(th, mine[th].sequence)
    BY <1>2, <2>1, <2>3, Zenon DEF LastPage, At, Covers
  <2>5. PICK k \in Nat : k = mine[th].sequence  BY <2>2
  <2> QED  BY <2>4, <2>5, CoversKeeps, Zenon
<1> QED  BY <1>1, <1>2

-----------------------------------------------------------------------------
(* The theorem.                                                            *)

\* The invariant holds initially.
LEMMA InvInit == Init => IInv
<1> SUFFICES ASSUME Init  PROVE IInv  OBVIOUS
<1>1. Types  BY TypesInit
<1>2. \A th \in Thread : at[th] = "idle"  BY Zenon DEF Init
<1>3. cursors = {} /\ exhausted = {} /\ \A id \in Id : pages[id] = << >>
  BY Zenon DEF Init
<1>4. "idle" \notin Paging /\ "idle" # "link" /\ "idle" \notin {"page", "advance"}
  BY DEF Paging
<1>5. Tiles  BY <1>3 DEF Tiles
<1> QED  BY <1>1, <1>2, <1>3, <1>4, <1>5, Zenon DEF IInv, Listed, Alone, Reads

\* Every step preserves it.
LEMMA InvStep == IInv /\ [Next]_vars => IInv'
<1> SUFFICES ASSUME IInv, [Next]_vars  PROVE IInv'  OBVIOUS
<1>1. CASE Tick \/ Clear \/ AppendRow \/ TimePasses \/ UNCHANGED vars
  BY <1>1, OutsideKeeps
<1>2. ASSUME NEW th \in Thread, CallStep(th)  PROVE IInv'
  <2>1. at[th] = "page" => mine[th].id \in Id
    <3>1. "page" \in Paging  BY DEF Paging
    <3> QED  BY <3>1, Zenon DEF IInv, Reads, Listed
  <2>2. Types'  BY <1>2, <2>1, TypesCall, Zenon DEF IInv
  <2> QED
    BY <1>2, <2>2, PlainKeeps, GiveUpKeeps, LinkKeeps, PinKeeps, AdvanceKeeps, PageKeeps,
       Zenon DEF CallStep
<1>3. ASSUME NEW th \in Thread,
             \/ \E what \in {"open", "query"} : Begin(th, what)
             \/ \E id \in Id : BeginNext(th, id) \/ CloseCursor(th, id)
      PROVE  IInv'
  BY <1>3, BeginKeeps, Zenon
<1> QED  BY <1>1, <1>2, <1>3, Zenon DEF Next

\* The invariant says what PagesTile says.
LEMMA InvPages == IInv => PagesTile
<1> SUFFICES ASSUME IInv  PROVE PagesTile  OBVIOUS
<1> DEFINE paging == {th \in Thread : at[th] \in {"page", "advance", "unlink"}}
<1>1. \A id \in Id : \A i \in 1 .. Len(pages[id]) :
        pages[id][i][1] = IF i = 1 THEN 1 ELSE pages[id][i - 1][2] + 1
  BY Zenon DEF IInv, Tiles
<1>2. \A x \in exhausted : pages[x.id][Len(pages[x.id])][2] = x.sequence
  BY Zenon DEF IInv, Ended, Covered
<1>3. \A th \in paging : \E p \in cursors : p.id = mine[th].id /\ p.busy
  <2>1. ASSUME NEW th \in paging  PROVE \E p \in cursors : p.id = mine[th].id /\ p.busy
    <3>1. PICK p \in cursors : p.id = mine[th].id /\ p.busy = TRUE
      BY Zenon DEF IInv, Reads, Paging
    <3> QED  BY <3>1
  <2> QED  BY <2>1
<1>4. \A th, other \in paging : th # other => mine[th].id # mine[other].id
  BY Zenon DEF IInv, Alone, Paging
<1> QED  BY <1>1, <1>2, <1>3, <1>4, Zenon DEF PagesTile

\* For any number of threads, cursors and rows, however calls, expiry, appends and
\* shutdown interleave: the pages of a cursor follow each other without gap or overlap,
\* a cursor that reports its end has covered its snapshot, and a cursor that a call reads
\* from is listed, busy and nobody else's (wadb_cursor_next, wadb_cursor_expire,
\* wadb_cursor_close).
THEOREM PagesAlwaysTile == Spec => []PagesTile
  BY InvInit, InvStep, InvPages, PTL DEF Spec
=============================================================================
