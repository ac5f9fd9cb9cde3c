------------------------------ MODULE Catalog -------------------------------
(***************************************************************************)
(* The catalog of tables: opening a database, creating tables, closing.    *)
(* Source: src/core/database.c, the catalog and schema of                  *)
(* src/storage/metadata.c, and src/platform/files.c below them.            *)
(*                                                                         *)
(* Every file and directory entry is absent, visible (to every process) or *)
(* durable (the directory that holds it was synchronized since).  A death  *)
(* of a process leaves what is visible; a failure of the machine leaves    *)
(* what is durable and any part of the rest.  What a table stores is in    *)
(* SegmentStore.                                                           *)
(***************************************************************************)
EXTENDS Integers, FiniteSets

CONSTANTS
  Process,     \* processes that open the same directory
  Name,        \* table names
  MaxTables,   \* options.max_tables
  MaxId,       \* UINT64_MAX for table IDs
  MaxAttempts, \* bound: calls of wadb_create_table
  None

ASSUME CatalogAssumption ==
  /\ MaxTables \in Nat /\ MaxId \in Nat \ {0} /\ MaxAttempts \in Nat
  /\ None \notin Process /\ None \notin [ids : SUBSET (1 .. MaxId), next : 1 .. MaxId]

VARIABLES
  catalog,     \* the visible file "catalog"
  stable,      \* what "catalog" holds durably
  dirs,        \* the table directories
  owner,       \* the process that holds the lock on LOCK
  db,          \* the memory of each process
  attempts,    \* number of calls of wadb_create_table so far
  acked        \* observation: IDs of tables whose creation was acknowledged

catalog_vars == <<catalog, stable, dirs, owner, db, attempts, acked>>

-----------------------------------------------------------------------------
Id == 1 .. MaxId
Presence == {"absent", "visible", "durable"}

\* The catalog file: table IDs and the next ID.
File == [ids : SUBSET Id, next : Id]

\* A table directory: its entry in "tables" and its two metadata files.
Directory == [entry : Presence, schema : Presence, manifest : Presence,
              name : Name \cup {None}, attempt : 0 .. MaxAttempts]
NoDirectory == [entry |-> "absent", schema |-> "absent", manifest |-> "absent",
                name |-> None, attempt |-> 0]

Pc == {"closed", "locked", "load", "corrupt", "first", "firstSync", "open",
       "mkdir", "syncTables", "schema", "syncSchema", "manifest", "syncManifest",
       "catalog", "syncCatalog"}

\* A wadb_db, and the table that a create in progress builds.
Memory == [pc : Pc, tables : SUBSET Id, next : Id, read_only : BOOLEAN,
           id : 0 .. MaxId, name : Name \cup {None}, attempt : 0 .. MaxAttempts]
NoMemory == [pc |-> "closed", tables |-> {}, next |-> 1, read_only |-> FALSE,
             id |-> 0, name |-> None, attempt |-> 0]

IdsOf(file) == IF file = None THEN {} ELSE file.ids
Synced(presence) == IF presence = "visible" THEN "durable" ELSE presence

Goto(p, where) == db' = [db EXCEPT ![p].pc = where]

\* A create returns: the table it built is freed or published.
Finished(m) == [m EXCEPT !.pc = "open", !.id = 0, !.name = None, !.attempt = 0]

-----------------------------------------------------------------------------
(* wadb_open.                                                              *)

\* Mutant: the lock is not respected.
LockNothing(p) ==
  /\ db[p].pc = "closed"
  /\ owner' = p
  /\ Goto(p, "locked")
  /\ UNCHANGED <<catalog, stable, dirs, attempts, acked>>

\* flock; another owner means WADB_LOCKED.
Lock(p) ==
  /\ db[p].pc = "closed" /\ owner = None
  /\ owner' = p
  /\ Goto(p, "locked")
  /\ UNCHANGED <<catalog, stable, dirs, attempts, acked>>

\* Mutant: the directory is not synchronized before its catalog is read.
SyncNothing(p) ==
  /\ db[p].pc = "locked"
  /\ Goto(p, "load")
  /\ UNCHANGED <<catalog, stable, dirs, owner, attempts, acked>>

\* Make "tables" and synchronize the database directory.
SyncRoot(p) ==
  /\ db[p].pc = "locked"
  /\ stable' = catalog
  /\ Goto(p, "load")
  /\ UNCHANGED <<catalog, dirs, owner, attempts, acked>>

\* Every table of the catalog has its metadata, under a name of its own.
Loads ==
  /\ \A id \in catalog.ids :
       /\ id < catalog.next
       /\ dirs[id].schema # "absent" /\ dirs[id].manifest # "absent"
  /\ \A a, b \in catalog.ids : dirs[a].name = dirs[b].name => a = b

\* The memory of a process after wadb_load_catalog; only a database without
\* tables gets a first catalog.
TablesLoaded(m) ==
  CASE catalog # None /\ Loads ->
         [m EXCEPT !.pc = "open", !.tables = catalog.ids, !.next = catalog.next]
    [] catalog = None /\ (\A id \in Id : dirs[id].entry = "absent") ->
         [m EXCEPT !.pc = "first"]
    [] OTHER -> [m EXCEPT !.pc = "corrupt"]

Load(p) ==
  /\ db[p].pc = "load" /\ Cardinality(IdsOf(catalog)) <= MaxTables
  /\ db' = [db EXCEPT ![p] = TablesLoaded(@)]
  /\ UNCHANGED <<catalog, stable, dirs, owner, attempts, acked>>

-----------------------------------------------------------------------------
(* wadb_create_table holds db->mutex from its checks to its end.           *)

Create(p, name) ==
  /\ db[p].pc = "open" /\ ~db[p].read_only /\ attempts < MaxAttempts
  /\ Cardinality(db[p].tables) < MaxTables
  /\ \A id \in db[p].tables : dirs[id].name # name
  /\ attempts' = attempts + 1
  /\ db' = [db EXCEPT ![p].pc = "mkdir", ![p].name = name, ![p].attempt = attempts + 1]
  /\ UNCHANGED <<catalog, stable, dirs, owner, acked>>

\* Mutant: a directory that is there already is used.
MakeDirectoryAnyway(p) ==
  /\ db[p].pc = "mkdir" /\ db[p].next < MaxId
  /\ dirs' = [dirs EXCEPT ![db[p].next].entry = IF @ = "absent" THEN "visible" ELSE @]
  /\ db' = [db EXCEPT ![p].pc = "syncTables", ![p].id = db[p].next, ![p].next = @ + 1]
  /\ UNCHANGED <<catalog, stable, owner, attempts, acked>>

\* The next ID; a directory that is there already is left alone.
MakeDirectory(p) ==
  LET id == db[p].next IN
  /\ db[p].pc = "mkdir" /\ id < MaxId
  /\ \/ /\ dirs[id].entry = "absent"
        /\ dirs' = [dirs EXCEPT ![id].entry = "visible"]
        /\ db' = [db EXCEPT ![p].pc = "syncTables", ![p].id = id, ![p].next = id + 1]
     \/ /\ dirs[id].entry # "absent"
        /\ db' = [db EXCEPT ![p].next = id + 1]
        /\ UNCHANGED dirs
  /\ UNCHANGED <<catalog, stable, owner, attempts, acked>>

SyncTables(p) ==
  /\ db[p].pc = "syncTables"
  /\ dirs' = [id \in Id |-> [dirs[id] EXCEPT !.entry = Synced(@)]]
  /\ Goto(p, "schema")
  /\ UNCHANGED <<catalog, stable, owner, attempts, acked>>

\* wadb_save_schema and wadb_save_manifest: rename, then synchronize the table's
\* directory, which makes durable whatever is visible in it.
InstallSchema(p) ==
  /\ db[p].pc = "schema"
  /\ dirs' = [dirs EXCEPT ![db[p].id].schema = "visible",
                          ![db[p].id].name = db[p].name,
                          ![db[p].id].attempt = db[p].attempt]
  /\ Goto(p, "syncSchema")
  /\ UNCHANGED <<catalog, stable, owner, attempts, acked>>

InstallManifest(p) ==
  /\ db[p].pc = "manifest"
  /\ dirs' = [dirs EXCEPT ![db[p].id].manifest = "visible"]
  /\ Goto(p, "syncManifest")
  /\ UNCHANGED <<catalog, stable, owner, attempts, acked>>

\* Mutant: the table's directory is not synchronized.
SyncTableNothing(p) ==
  /\ \/ db[p].pc = "syncSchema" /\ Goto(p, "manifest")
     \/ db[p].pc = "syncManifest" /\ Goto(p, "catalog")
  /\ UNCHANGED <<catalog, stable, dirs, owner, attempts, acked>>

SyncTable(p) ==
  /\ \/ db[p].pc = "syncSchema" /\ Goto(p, "manifest")
     \/ db[p].pc = "syncManifest" /\ Goto(p, "catalog")
  /\ dirs' = [dirs EXCEPT ![db[p].id].schema = Synced(@),
                          ![db[p].id].manifest = Synced(@)]
  /\ UNCHANGED <<catalog, stable, owner, attempts, acked>>

\* wadb_save_catalog, for a first open and for a create.
InstallCatalog(p) ==
  /\ \/ db[p].pc = "first" /\ Goto(p, "firstSync")
     \/ db[p].pc = "catalog" /\ Goto(p, "syncCatalog")
  /\ catalog' = [ids |-> db[p].tables \cup ({db[p].id} \ {0}), next |-> db[p].next]
  /\ UNCHANGED <<stable, dirs, owner, attempts, acked>>

SyncCatalog(p) ==
  /\ db[p].pc \in {"firstSync", "syncCatalog"}
  /\ stable' = catalog
  /\ acked' = acked \cup ({db[p].id} \ {0})
  /\ db' = [db EXCEPT ![p] =
              Finished([db[p] EXCEPT !.tables = @ \cup ({db[p].id} \ {0})])]
  /\ UNCHANGED <<catalog, dirs, owner, attempts>>

\* A call fails with nothing installed by it, or IDs are exhausted.
CreateFails(p) ==
  /\ db[p].pc \in {"mkdir", "syncTables", "schema", "manifest", "catalog"}
  /\ db' = [db EXCEPT ![p] = Finished(@)]
  /\ UNCHANGED <<catalog, stable, dirs, owner, attempts, acked>>

\* Mutant: the database stays writable.
CreateUncertainGoesOn(p) ==
  /\ db[p].pc \in {"syncSchema", "syncManifest", "syncCatalog"}
  /\ db' = [db EXCEPT ![p] = Finished(@)]
  /\ UNCHANGED <<catalog, stable, dirs, owner, attempts, acked>>

\* A file was renamed and its directory could not be synchronized.
CreateUncertain(p) ==
  /\ db[p].pc \in {"syncSchema", "syncManifest", "syncCatalog"}
  /\ db' = [db EXCEPT ![p] = [Finished(@) EXCEPT !.read_only = TRUE]]
  /\ UNCHANGED <<catalog, stable, dirs, owner, attempts, acked>>

-----------------------------------------------------------------------------
\* wadb_close, a failed wadb_open (which closes), or the death of the process.
Exit(p) ==
  /\ db[p].pc # "closed"
  /\ db' = [db EXCEPT ![p] = NoMemory]
  /\ owner' = IF owner = p THEN None ELSE owner
  /\ UNCHANGED <<catalog, stable, dirs, attempts, acked>>

\* What a failure of the machine leaves of a directory that it keeps, with or
\* without what is not durable in it.
Remains(d, schema, manifest) ==
  [d EXCEPT !.entry = Synced(@),
            !.schema = IF schema THEN Synced(@) ELSE "absent",
            !.name = IF schema THEN @ ELSE None,
            !.attempt = IF schema THEN @ ELSE 0,
            !.manifest = IF manifest THEN Synced(@) ELSE "absent"]

MachineFails ==
  /\ catalog' \in {catalog, stable}
  /\ stable' = catalog'
  /\ \E gone \in SUBSET {id \in Id : dirs[id].entry = "visible"},
        schemas \in SUBSET {id \in Id : dirs[id].schema = "visible"},
        manifests \in SUBSET {id \in Id : dirs[id].manifest = "visible"} :
       dirs' = [id \in Id |-> IF id \in gone THEN NoDirectory
                             ELSE Remains(dirs[id], id \notin schemas, id \notin manifests)]
  /\ db' = [p \in Process |-> NoMemory] /\ owner' = None
  /\ UNCHANGED <<attempts, acked>>

CatalogInit ==
  /\ catalog = None /\ stable = None
  /\ dirs = [id \in Id |-> NoDirectory]
  /\ owner = None /\ db = [p \in Process |-> NoMemory]
  /\ attempts = 0 /\ acked = {}

CatalogNext ==
  \/ MachineFails
  \/ \E p \in Process :
       \/ Lock(p) \/ SyncRoot(p) \/ Load(p)
       \/ \E name \in Name : Create(p, name)
       \/ MakeDirectory(p) \/ SyncTables(p)
       \/ InstallSchema(p) \/ InstallManifest(p) \/ SyncTable(p)
       \/ InstallCatalog(p) \/ SyncCatalog(p)
       \/ CreateFails(p) \/ CreateUncertain(p) \/ Exit(p)

CatalogSpec == CatalogInit /\ [][CatalogNext]_catalog_vars

-----------------------------------------------------------------------------
(* Properties.                                                             *)

\* Type invariant; in particular a table ID stays below its maximum.
CatalogTypeOK ==
  /\ catalog \in File \cup {None} /\ stable \in File \cup {None}
  /\ dirs \in [Id -> Directory]
  /\ owner \in Process \cup {None} /\ db \in [Process -> Memory]
  /\ attempts \in 0 .. MaxAttempts /\ acked \subseteq Id

\* Whatever stopped the processes before, and wherever, the catalog can be
\* loaded: every table it names is complete, and it is missing only from a
\* database without tables (wadb_open, wadb_load_catalog never see WADB_CORRUPT).
NeverCorrupt == \A p \in Process : db[p].pc # "corrupt"

\* A table whose creation was acknowledged is in the catalog, also after a
\* failure of the machine and whichever process wrote last (wadb_create_table);
\* and a table that an open database offers, acknowledged to its creator or only
\* found on reopening, is durable as a whole (wadb_open synchronizes the
\* directory before it reads the catalog).
OfferedDurable ==
  /\ acked \subseteq IdsOf(catalog) \cap IdsOf(stable)
  /\ \A p \in Process : \A id \in db[p].tables :
       /\ id \in IdsOf(stable)
       /\ dirs[id].entry = "durable" /\ dirs[id].schema = "durable"
       /\ dirs[id].manifest = "durable"

\* The catalog loses a table only in a failure of the machine, and then only one
\* that was never durable: a creation of unknown outcome is not undone by a
\* later one (wadb_create_table makes the database read-only).
CatalogGrows ==
  [][/\ IdsOf(stable) \subseteq IdsOf(stable')
     /\ IdsOf(catalog) \subseteq IdsOf(catalog') \/ catalog' = stable]_catalog_vars

\* What an interrupted creation left in its directory is never overwritten by
\* another one ("Never overwrite or auto-import their contents").
LeftoversKept ==
  [][\A id \in Id : dirs[id].schema # "absent" =>
       dirs'[id].schema = "absent" \/ dirs'[id].attempt = dirs[id].attempt]_catalog_vars

\* No creation, of whatever outcome, takes anything away from another: neither
\* a table from the catalog nor the files in its directory (wadb_create_table).
NothingOverwritten == CatalogGrows /\ LeftoversKept
=============================================================================
