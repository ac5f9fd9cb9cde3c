--------------------------- MODULE MCAppendQueue ----------------------------
(***************************************************************************)
(* Five requests, of one row (a1, a2), two rows (a3) and three rows (a4)   *)
(* for table A and of one row (b1) for table B, a row being one byte.      *)
(***************************************************************************)
EXTENDS AppendQueue, TLC

CONSTANTS a1, a2, a3, a4, b1, A, B

MCTableOf == [r \in Request |-> IF r = b1 THEN B ELSE A]
MCRowBytes == [r \in Request |-> CASE r = a3 -> 2 [] r = a4 -> 3 [] OTHER -> 1]

\* The requests of one behaviour.  {a1, a2, a3} has more requests than a group
\* may have; a3 and a4 are together more than a frame holds; {a1, a4, b1} is
\* more than the queue admits and a4 alone reaches the batch target.
MCTogether == {{a1, a2, a3}, {a3, a4}, {a1, a4, b1}}

\* A clock that fails, goes back and passes midnight.
MCClock == {-1, 0, 2}
=============================================================================
