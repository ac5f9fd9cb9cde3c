------------------------------ MODULE MCTables ------------------------------
(***************************************************************************)
(* Small instances of what a table has besides its segments: its entry in  *)
(* the catalog (Catalog), the dictionary of the active segment, which the  *)
(* writer builds (Dictionary), and those of the sealed segments, which     *)
(* readers share in a cache (DictCache).  They share no state, so each     *)
(* moves while the others are where they started.                          *)
(***************************************************************************)
EXTENDS Catalog, Dictionary, DictCache, TLC

MCField == {1, 2}
MCText == {1, 2, 3}
MCLength == [t \in MCText |-> t - 1]

\* Collisions within a column and across columns, and a probe that wraps.
MCHash == [x \in MCField \X MCText |->
             CASE x = <<1, 1>> -> 3 [] x = <<1, 2>> -> 3 [] x = <<1, 3>> -> 7
               [] x = <<2, 1>> -> 0 [] x = <<2, 2>> -> 3 [] OTHER -> 6]

\* Processes, names, readers and segments are interchangeable.
TablesSymmetry ==
  Permutations(Process) \cup Permutations(Name)
    \cup Permutations(Reader) \cup Permutations(Segment)

TablesInit == CatalogInit /\ Init /\ CacheInit
TablesNext ==
  \/ Init /\ CacheInit /\ CatalogNext /\ UNCHANGED <<vars, cache_vars>>
  \/ CatalogInit /\ CacheInit /\ Next /\ UNCHANGED <<catalog_vars, cache_vars>>
  \/ CatalogInit /\ Init /\ CacheNext /\ UNCHANGED <<catalog_vars, vars>>
TablesSpec == TablesInit /\ [][TablesNext]_<<catalog_vars, vars, cache_vars>>
=============================================================================
