----------------------------- MODULE MCCursors ------------------------------
(* Small instances of Cursors. *)
EXTENDS Cursors
=============================================================================
