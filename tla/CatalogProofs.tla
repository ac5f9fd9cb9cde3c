---------------------------- MODULE CatalogProofs ---------------------------
(***************************************************************************)
(* Proofs about the catalog: it can always be loaded, what it offers is    *)
(* durable, and no creation takes anything away from another, for any      *)
(* number of processes, names, tables and failures.                        *)
(***************************************************************************)
EXTENDS Catalog, TLAPS

\* A database that is being opened, one that is open, and the steps of a create
\* before and after it has a directory.
Opening == {"closed", "locked", "load", "first", "firstSync"}
Building == {"syncTables", "schema", "syncSchema", "manifest", "syncManifest",
             "catalog", "syncCatalog"}
Opened == {"open", "mkdir"} \cup Building

\* A process that is not closed has the lock.
Owned == \A p \in Process : db[p].pc # "closed" => owner = p

Complete(id) == /\ dirs[id].entry = "durable" /\ dirs[id].schema = "durable"
                /\ dirs[id].manifest = "durable"

\* Every table of a catalog, visible or durable, is complete and has a name of its
\* own, below the next ID.
Listed(file) ==
  file # None =>
    /\ \A id \in file.ids : id < file.next /\ Complete(id)
    /\ \A a, b \in file.ids : dirs[a].name = dirs[b].name => a = b

\* There is no directory before there is a durable catalog, and nothing in a
\* directory that is not there.
Disk ==
  /\ Listed(catalog) /\ Listed(stable)
  /\ catalog = None => stable = None
  /\ stable = None => \A id \in Id : dirs[id].entry = "absent"
  /\ \A id \in Id : dirs[id].entry = "absent" =>
       dirs[id].schema = "absent" /\ dirs[id].manifest = "absent"
  /\ acked \subseteq IdsOf(stable) /\ IdsOf(stable) \subseteq IdsOf(catalog)

\* The memory of a process that opens the database.
OpeningHolds(m) ==
  m.pc \in Opening =>
    /\ m.tables = {} /\ m.next = 1 /\ m.id = 0 /\ m.read_only = FALSE
    /\ m.pc = "closed" => m = NoMemory
    /\ m.pc = "load" => catalog = stable
    /\ m.pc = "first" => catalog = None
    /\ m.pc = "firstSync" => stable = None /\ catalog = [ids |-> {}, next |-> 1]

\* A database that may be written knows what the catalog holds; a create has a
\* name that no table has.
OpenedHolds(m) ==
  m.pc \in Opened /\ m.read_only = FALSE =>
    /\ stable # None /\ m.tables = stable.ids /\ stable.next <= m.next
    /\ m.pc # "syncCatalog" => catalog = stable
    /\ m.pc # "open" => \A id \in m.tables : dirs[id].name # m.name

\* A create builds, in a directory of its own, what the catalog will list.
BuildingHolds(m) ==
  m.pc \in Building =>
    /\ m.id \in Id /\ stable.next <= m.id /\ m.id < m.next
    /\ dirs[m.id].entry = IF m.pc = "syncTables" THEN "visible" ELSE "durable"
    /\ IF m.pc \in {"syncTables", "schema"} THEN dirs[m.id].schema = "absent"
       ELSE dirs[m.id].schema # "absent" /\ dirs[m.id].name = m.name
    /\ m.pc \in {"manifest", "syncManifest", "catalog", "syncCatalog"} =>
         dirs[m.id].schema = "durable"
    /\ m.pc = "syncManifest" => dirs[m.id].manifest = "visible"
    /\ m.pc \in {"catalog", "syncCatalog"} => dirs[m.id].manifest = "durable"
    /\ m.pc = "syncCatalog" => catalog = [ids |-> m.tables \cup {m.id}, next |-> m.next]

MemoryHolds(m) ==
  /\ m.pc # "corrupt" /\ m.tables \subseteq IdsOf(stable)
  /\ m.pc \in {"mkdir"} \cup Building => m.read_only = FALSE
  /\ OpeningHolds(m) /\ OpenedHolds(m) /\ BuildingHolds(m)

IInv == CatalogTypeOK /\ Owned /\ Disk /\ \A p \in Process : MemoryHolds(db[p])

-----------------------------------------------------------------------------
DiskTypes ==
  /\ catalog \in File \cup {None} /\ stable \in File \cup {None}
  /\ dirs \in [Id -> Directory] /\ attempts \in 0 .. MaxAttempts /\ acked \subseteq Id

\* A step of the process that has the lock, or takes it, to the memory m.
Steps(p, m) ==
  /\ db[p].pc # "closed" \/ owner = None
  /\ m.pc # "closed" /\ owner' = p /\ db' = [db EXCEPT ![p] = m]
  /\ DiskTypes' /\ Disk' /\ MemoryHolds(m)'

\* Such a step keeps the invariant: every other process is closed.
LEMMA StepKeeps ==
  ASSUME IInv, NEW p \in Process, NEW m \in Memory, Steps(p, m)
  PROVE  IInv'
<1>1. CatalogTypeOK /\ Owned /\ \A q \in Process : MemoryHolds(db[q])
  BY DEF IInv
<1>2. ASSUME NEW q \in Process \ {p}
      PROVE  db[q] = NoMemory
  <2>1. db[q].pc = "closed"
    BY <1>1, CatalogAssumption DEF Owned, Steps
  <2> QED
    BY <1>1, <2>1 DEF MemoryHolds, OpeningHolds, Opening
<1>3. db'[p] = m /\ \A q \in Process \ {p} : db'[q] = NoMemory
  BY <1>1, <1>2 DEF CatalogTypeOK, Steps
<1>4. CatalogTypeOK'
  <2>1. db' \in [Process -> Memory] /\ owner' \in Process \cup {None}
    BY <1>1 DEF CatalogTypeOK, Steps
  <2> QED
    BY Zenon, <2>1 DEF CatalogTypeOK, DiskTypes, Steps
<1>5. Owned'
  BY <1>3 DEF Owned, Steps, NoMemory
<1>6. MemoryHolds(NoMemory)'
  BY DEF MemoryHolds, OpeningHolds, OpenedHolds, BuildingHolds, NoMemory, Opened, Building
<1>7. \A q \in Process : MemoryHolds(db[q])'
  BY <1>3, <1>6 DEF Steps, MemoryHolds, OpeningHolds, OpenedHolds, BuildingHolds
<1> QED
  BY <1>4, <1>5, <1>7 DEF IInv, Steps

\* Nothing more is said of processes that are all closed.
LEMMA AllClosed ==
  ASSUME db' \in [Process -> {NoMemory}]
  PROVE  /\ db' \in [Process -> Memory] /\ Owned'
         /\ \A p \in Process : MemoryHolds(db[p])'
<1>1. NoMemory \in Memory /\ NoMemory.pc = "closed"
  <2>1. 0 \in 0 .. MaxId /\ 0 \in 0 .. MaxAttempts /\ 1 \in Id
    BY CatalogAssumption DEF Id
  <2> QED
    BY <2>1 DEF NoMemory, Memory, Pc
<1>2. MemoryHolds(NoMemory)'
  BY DEF MemoryHolds, OpeningHolds, OpenedHolds, BuildingHolds, NoMemory, Opened, Building
<1>3. \A p \in Process : db'[p] = NoMemory
  OBVIOUS
<1>4. \A p \in Process : MemoryHolds(db[p])'
  BY <1>2, <1>3 DEF MemoryHolds, OpeningHolds, OpenedHolds, BuildingHolds
<1> QED
  BY <1>1, <1>3, <1>4 DEF Owned

\* A step that writes nothing keeps what is said of the disk.
LEMMA DiskSame ==
  ASSUME IInv, UNCHANGED <<catalog, stable, dirs, acked>>
  PROVE  Disk'
BY DEF IInv, Disk, Listed, Complete, IdsOf

\* So does a step that writes into directories of no listed table.
LEMMA DirsKeep ==
  ASSUME IInv, UNCHANGED <<catalog, stable, acked>>, stable # None,
         \A id \in IdsOf(catalog) : dirs'[id] = dirs[id],
         \A id \in Id : dirs'[id].entry = "absent" =>
           dirs'[id].schema = "absent" /\ dirs'[id].manifest = "absent"
  PROVE  Disk'
<1>1. Disk
  BY DEF IInv
<1>2. Listed(catalog)'
  BY <1>1 DEF Disk, Listed, Complete, IdsOf
<1>3. Listed(stable)'
  BY <1>1 DEF Disk, Listed, Complete, IdsOf
<1> QED
  BY <1>1, <1>2, <1>3 DEF Disk, IdsOf

\* wadb_open takes the lock.
LEMMA LockKeeps ==
  ASSUME IInv, NEW p \in Process, Lock(p)
  PROVE  IInv'
<1>1. CatalogTypeOK /\ MemoryHolds(db[p]) /\ db[p] \in Memory
  BY DEF IInv, CatalogTypeOK
<1>2. PICK m \in Memory : m = [db[p] EXCEPT !.pc = "locked"]
  BY Zenon, <1>1 DEF Memory, Pc
<1>3. db[p] = NoMemory
  BY <1>1 DEF Lock, MemoryHolds, OpeningHolds, Opening
<1>4. /\ m.pc = "locked" /\ m.tables = {} /\ m.next = 1 /\ m.id = 0
      /\ m.read_only = FALSE
  BY <1>2, <1>3 DEF NoMemory
<1>5. MemoryHolds(m)'
  BY <1>4 DEF MemoryHolds, OpeningHolds, OpenedHolds, BuildingHolds, Opening, Opened, Building
<1>6. DiskTypes' /\ Disk'
  BY <1>1, DiskSame DEF DiskTypes, CatalogTypeOK, Lock
<1>7. Steps(p, m)
  BY <1>1, <1>2, <1>4, <1>5, <1>6 DEF Steps, Lock, Goto, CatalogTypeOK
<1> QED
  BY <1>7, StepKeeps

\* wadb_open synchronizes the directory: what was visible is durable.
LEMMA SyncRootKeeps ==
  ASSUME IInv, NEW p \in Process, SyncRoot(p)
  PROVE  IInv'
<1>1. CatalogTypeOK /\ Owned /\ Disk /\ MemoryHolds(db[p]) /\ db[p] \in Memory
  BY DEF IInv, CatalogTypeOK
<1>2. PICK m \in Memory : m = [db[p] EXCEPT !.pc = "load"]
  BY Zenon, <1>1 DEF Memory, Pc
<1>3. /\ db[p].pc = "locked" /\ stable' = catalog
      /\ UNCHANGED <<catalog, dirs, owner, attempts, acked>>
  BY DEF SyncRoot
<1>4. /\ m.pc = "load" /\ m.tables = {} /\ m.next = 1 /\ m.id = 0
      /\ m.read_only = FALSE
  BY <1>1, <1>2, <1>3 DEF MemoryHolds, OpeningHolds, Opening, Memory
<1>5. MemoryHolds(m)'
  BY <1>3, <1>4
     DEF MemoryHolds, OpeningHolds, OpenedHolds, BuildingHolds, Opening, Opened, Building
<1>6. Disk'
  BY <1>1, <1>3 DEF Disk, Listed, Complete, IdsOf
<1>7. DiskTypes'
  BY <1>1, <1>3 DEF DiskTypes, CatalogTypeOK
<1>8. owner' = p /\ db' = [db EXCEPT ![p] = m]
  BY <1>1, <1>2, <1>3 DEF Owned, SyncRoot, Goto, CatalogTypeOK
<1>9. Steps(p, m)
  BY <1>3, <1>4, <1>5, <1>6, <1>7, <1>8 DEF Steps
<1> QED
  BY <1>9, StepKeeps

\* wadb_load_catalog finds every table complete, or no table and no catalog.
LEMMA LoadKeeps ==
  ASSUME IInv, NEW p \in Process, Load(p)
  PROVE  IInv'
<1>1. CatalogTypeOK /\ Owned /\ Disk /\ MemoryHolds(db[p]) /\ db[p] \in Memory
  BY DEF IInv, CatalogTypeOK
<1>2. /\ db[p].pc = "load" /\ db' = [db EXCEPT ![p] = TablesLoaded(db[p])]
      /\ UNCHANGED <<catalog, stable, dirs, owner, attempts, acked>>
  BY <1>1 DEF Load, CatalogTypeOK
<1>3. /\ catalog = stable /\ db[p].tables = {} /\ db[p].next = 1 /\ db[p].id = 0
      /\ db[p].read_only = FALSE
  BY <1>1, <1>2 DEF MemoryHolds, OpeningHolds, Opening
<1>4. PICK m \in Memory :
        /\ m = TablesLoaded(db[p]) /\ m.pc # "closed" /\ MemoryHolds(m)
  <2>1. CASE catalog # None
    <3>1. Loads
      BY <1>1, <2>1 DEF Disk, Listed, Complete, Loads
    <3>2. catalog.ids \in SUBSET Id /\ catalog.next \in Id
      BY <1>1, <2>1 DEF CatalogTypeOK, File
    <3>3. PICK m \in Memory : m = [db[p] EXCEPT !.pc = "open", !.tables = catalog.ids,
                                                !.next = catalog.next]
      BY Zenon, <1>1, <3>2 DEF Memory, Pc
    <3>4. /\ m.pc = "open" /\ m.tables = catalog.ids /\ m.next = catalog.next
          /\ m.read_only = FALSE
      BY <1>1, <1>3, <3>3 DEF Memory
    <3>5. MemoryHolds(m)
      BY <1>3, <2>1, <3>2, <3>4 DEF MemoryHolds, OpeningHolds, OpenedHolds, BuildingHolds,
                                    Opening, Building, IdsOf, Id
    <3>6. m = TablesLoaded(db[p])
      BY <2>1, <3>1, <3>3 DEF TablesLoaded
    <3> QED
      BY <3>4, <3>5, <3>6
  <2>2. CASE catalog = None
    <3>1. \A id \in Id : dirs[id].entry = "absent"
      BY <1>1, <1>3, <2>2 DEF Disk
    <3>2. PICK m \in Memory : m = [db[p] EXCEPT !.pc = "first"]
      BY Zenon, <1>1 DEF Memory, Pc
    <3>3. /\ m.pc = "first" /\ m.tables = {} /\ m.next = 1 /\ m.id = 0
          /\ m.read_only = FALSE
      BY <1>1, <1>3, <3>2 DEF Memory
    <3>4. MemoryHolds(m)
      BY <2>2, <3>3
         DEF MemoryHolds, OpeningHolds, OpenedHolds, BuildingHolds, Opened, Building
    <3>5. m = TablesLoaded(db[p])
      BY <2>2, <3>1, <3>2 DEF TablesLoaded
    <3> QED
      BY <3>3, <3>4, <3>5
  <2> QED
    BY <2>1, <2>2
<1>5. MemoryHolds(m)'
  BY <1>2, <1>4 DEF MemoryHolds, OpeningHolds, OpenedHolds, BuildingHolds, IdsOf
<1>6. DiskTypes' /\ Disk'
  BY <1>1, <1>2, DiskSame DEF DiskTypes, CatalogTypeOK
<1>7. Steps(p, m)
  BY <1>1, <1>2, <1>4, <1>5, <1>6 DEF Steps, Owned
<1> QED
  BY <1>7, StepKeeps

\* wadb_create_table begins: no table has the name.
LEMMA CreateKeeps ==
  ASSUME IInv, NEW p \in Process, NEW name \in Name, Create(p, name)
  PROVE  IInv'
<1>1. CatalogTypeOK /\ Owned /\ Disk /\ MemoryHolds(db[p]) /\ db[p] \in Memory
  BY DEF IInv, CatalogTypeOK
<1>2. /\ db[p].pc = "open" /\ attempts' = attempts + 1 /\ attempts < MaxAttempts
      /\ \A id \in db[p].tables : dirs[id].name # name
      /\ UNCHANGED <<catalog, stable, dirs, owner, acked>>
  BY Zenon DEF Create
<1>3. db[p].read_only = FALSE
  BY Zenon, <1>1 DEF Create, Memory
<1>4. attempts + 1 \in 0 .. MaxAttempts
  BY <1>1, <1>2, CatalogAssumption DEF CatalogTypeOK
<1>5. PICK m \in Memory : m = [db[p] EXCEPT !.pc = "mkdir", !.name = name,
                                            !.attempt = attempts + 1]
  BY Zenon, <1>1, <1>4 DEF Memory, Pc
<1>6. /\ m.pc = "mkdir" /\ m.name = name /\ m.tables = db[p].tables
      /\ m.next = db[p].next /\ m.read_only = FALSE
  BY <1>1, <1>3, <1>5 DEF Memory
<1>7. MemoryHolds(m)'
  BY <1>1, <1>2, <1>3, <1>6
     DEF MemoryHolds, OpeningHolds, OpenedHolds, BuildingHolds, Opening, Opened, Building, IdsOf
<1>8. DiskTypes' /\ Disk'
  BY <1>1, <1>2, <1>4, DiskSame DEF DiskTypes, CatalogTypeOK
<1>9. db' = [db EXCEPT ![p] = m]
  BY Zenon, <1>1, <1>5 DEF Create, CatalogTypeOK
<1>10. Steps(p, m)
  BY <1>1, <1>2, <1>6, <1>7, <1>8, <1>9 DEF Steps, Owned
<1> QED
  BY <1>10, StepKeeps

\* The directory that a create builds, or is about to make, is of no listed table.
LEMMA Outside ==
  ASSUME IInv, NEW p \in Process, db[p].pc \in ({"mkdir"} \cup Building) \ {"syncCatalog"}
  PROVE  /\ stable # None /\ catalog = stable /\ db[p].read_only = FALSE
         /\ db[p].tables = stable.ids /\ stable.next <= db[p].next
         /\ IdsOf(catalog) = stable.ids /\ stable.ids \subseteq Id /\ stable.next \in Id
         /\ \A id \in Id : stable.next <= id => id \notin stable.ids
<1>1. CatalogTypeOK /\ Disk /\ MemoryHolds(db[p])
  BY DEF IInv
<1>2. /\ stable # None /\ catalog = stable /\ db[p].read_only = FALSE
      /\ db[p].tables = stable.ids /\ stable.next <= db[p].next
  BY <1>1 DEF MemoryHolds, OpenedHolds, Opened, Building
<1>3. stable.ids \subseteq Id /\ stable.next \in Id
  BY <1>1, <1>2 DEF CatalogTypeOK, File
<1>4. \A id \in stable.ids : id < stable.next
  BY <1>1, <1>2 DEF Disk, Listed
<1>5. \A id \in Id : stable.next <= id => id \notin stable.ids
  BY <1>3, <1>4 DEF Id
<1> QED
  BY <1>2, <1>3, <1>5 DEF IdsOf

\* mkdir of the next ID; a directory that is there is skipped.
LEMMA MakeDirectoryKeeps ==
  ASSUME IInv, NEW p \in Process, MakeDirectory(p)
  PROVE  IInv'
<1>1. CatalogTypeOK /\ Owned /\ Disk /\ MemoryHolds(db[p]) /\ db[p] \in Memory
  BY DEF IInv, CatalogTypeOK
<1>2. PICK n \in Id : /\ n = db[p].next /\ n < MaxId /\ n + 1 \in Id
                      /\ db[p].pc = "mkdir"
                      /\ UNCHANGED <<catalog, stable, owner, attempts, acked>>
  BY <1>1, CatalogAssumption DEF MakeDirectory, Memory, Id
<1>3. /\ stable # None /\ catalog = stable /\ db[p].read_only = FALSE
      /\ db[p].tables = stable.ids /\ stable.next <= n /\ stable.next \in Id
      /\ IdsOf(catalog) = stable.ids /\ n \notin stable.ids /\ stable.ids \subseteq Id
  BY Zenon, <1>2, Outside
<1>4. \A id \in stable.ids : dirs[id].name # db[p].name
  BY <1>1, <1>2, <1>3 DEF MemoryHolds, OpenedHolds, Opened
<1>5. CASE dirs[n].entry # "absent"
  <2>1. PICK m \in Memory : m = [db[p] EXCEPT !.next = n + 1]
    BY Zenon, <1>1, <1>2 DEF Memory
  <2>2. /\ m.pc = "mkdir" /\ m.name = db[p].name /\ m.tables = stable.ids
        /\ m.next = n + 1 /\ m.read_only = FALSE
    BY <1>1, <1>2, <1>3, <2>1 DEF Memory
  <2>3. db' = [db EXCEPT ![p] = m] /\ UNCHANGED dirs
    BY <1>1, <1>2, <1>5, <2>1 DEF MakeDirectory, CatalogTypeOK
  <2>4. stable.next <= n + 1
    BY <1>3 DEF Id
  <2>5. MemoryHolds(m)'
    BY <1>2, <1>3, <1>4, <2>2, <2>3, <2>4
       DEF MemoryHolds, OpeningHolds, OpenedHolds, BuildingHolds, Opening, Building, IdsOf
  <2>6. DiskTypes' /\ Disk'
    BY <1>1, <1>2, <2>3, DiskSame DEF DiskTypes, CatalogTypeOK
  <2>7. Steps(p, m)
    BY <1>1, <1>2, <2>2, <2>3, <2>5, <2>6 DEF Steps, Owned
  <2> QED
    BY <2>7, StepKeeps
<1>6. CASE dirs[n].entry = "absent"
  <2>1. PICK m \in Memory : m = [db[p] EXCEPT !.pc = "syncTables", !.id = n, !.next = n + 1]
    <3>1. n \in 0 .. MaxId
      BY CatalogAssumption DEF Id
    <3> QED
      BY Zenon, <1>1, <1>2, <3>1 DEF Memory, Pc
  <2>2. /\ m.pc = "syncTables" /\ m.name = db[p].name /\ m.tables = stable.ids
        /\ m.next = n + 1 /\ m.id = n /\ m.read_only = FALSE
    BY <1>1, <1>3, <2>1 DEF Memory
  <2>3. PICK d \in Directory : d = [dirs[n] EXCEPT !.entry = "visible"]
    BY ZenonT(30), <1>1 DEF CatalogTypeOK, Directory, Presence
  <2>4. d.entry = "visible" /\ d.schema = "absent" /\ d.manifest = "absent"
    BY <1>1, <1>6, <2>3 DEF Disk, Directory, CatalogTypeOK
  <2>5. db' = [db EXCEPT ![p] = m] /\ dirs' = [dirs EXCEPT ![n] = d]
    BY ZenonT(30), <1>1, <1>2, <1>6, <2>1, <2>3 DEF MakeDirectory, CatalogTypeOK
  <2>6. dirs'[n] = d /\ \A id \in Id \ {n} : dirs'[id] = dirs[id]
    BY <1>1, <2>5 DEF CatalogTypeOK
  <2>7. stable.next <= n + 1 /\ n < n + 1
    BY <1>3 DEF Id
  <2>8. MemoryHolds(m)'
    <3>1. OpenedHolds(m)'
      BY <1>2, <1>3, <1>4, <2>2, <2>6, <2>7 DEF OpenedHolds
    <3>2. BuildingHolds(m)'
      BY <1>2, <1>3, <2>2, <2>4, <2>6, <2>7 DEF BuildingHolds
    <3> QED
      BY <1>2, <1>3, <2>2, <3>1, <3>2 DEF MemoryHolds, OpeningHolds, Opening, IdsOf
  <2>9. DiskTypes'
    BY <1>1, <1>2, <2>5 DEF DiskTypes, CatalogTypeOK
  <2>10. Disk'
    <3>1. \A id \in IdsOf(catalog) : dirs'[id] = dirs[id]
      BY <1>3, <2>6
    <3>2. \A id \in Id : dirs'[id].entry = "absent" =>
            dirs'[id].schema = "absent" /\ dirs'[id].manifest = "absent"
      BY <1>1, <2>4, <2>6 DEF Disk
    <3> QED
      BY <1>2, <1>3, <3>1, <3>2, DirsKeep
  <2>11. Steps(p, m)
    BY <1>1, <1>2, <2>2, <2>5, <2>8, <2>9, <2>10 DEF Steps, Owned
  <2> QED
    BY <2>11, StepKeeps
<1> QED
  BY <1>5, <1>6

\* The synchronization of "tables" makes its entries durable.
LEMMA SyncTablesKeeps ==
  ASSUME IInv, NEW p \in Process, SyncTables(p)
  PROVE  IInv'
<1>1. CatalogTypeOK /\ Owned /\ Disk /\ MemoryHolds(db[p]) /\ db[p] \in Memory
  BY DEF IInv, CatalogTypeOK
<1>2. /\ db[p].pc = "syncTables"
      /\ dirs' = [id \in Id |-> [dirs[id] EXCEPT !.entry = Synced(@)]]
      /\ UNCHANGED <<catalog, stable, owner, attempts, acked>>
  BY DEF SyncTables
<1>3. /\ stable # None /\ catalog = stable /\ db[p].read_only = FALSE
      /\ db[p].tables = stable.ids /\ stable.next <= db[p].next
      /\ IdsOf(catalog) = stable.ids /\ stable.ids \subseteq Id
  BY Zenon, <1>2, Outside DEF Building
<1>4. PICK n \in Id : n = db[p].id /\ stable.next <= n /\ n < db[p].next
                      /\ dirs[n].entry = "visible" /\ dirs[n].schema = "absent"
  BY <1>1, <1>2 DEF MemoryHolds, BuildingHolds, Building
<1>5. ASSUME NEW d \in Directory
      PROVE  /\ [d EXCEPT !.entry = Synced(@)] \in Directory
             /\ [d EXCEPT !.entry = Synced(@)].entry = Synced(d.entry)
             /\ [d EXCEPT !.entry = Synced(@)].schema = d.schema
             /\ [d EXCEPT !.entry = Synced(@)].manifest = d.manifest
             /\ [d EXCEPT !.entry = Synced(@)].name = d.name
             /\ d.entry = "durable" => [d EXCEPT !.entry = Synced(@)] = d
  BY DEF Directory, Presence, Synced
<1>6. ASSUME NEW id \in Id
      PROVE  /\ dirs'[id] \in Directory /\ dirs'[id].entry = Synced(dirs[id].entry)
             /\ dirs'[id].schema = dirs[id].schema /\ dirs'[id].manifest = dirs[id].manifest
             /\ dirs'[id].name = dirs[id].name
             /\ dirs[id].entry = "durable" => dirs'[id] = dirs[id]
  BY Zenon, <1>1, <1>2, <1>5 DEF CatalogTypeOK
<1>7. PICK m \in Memory : m = [db[p] EXCEPT !.pc = "schema"]
  BY Zenon, <1>1 DEF Memory, Pc
<1>8. /\ m.pc = "schema" /\ m.name = db[p].name /\ m.tables = stable.ids
      /\ m.next = db[p].next /\ m.id = n /\ m.read_only = FALSE
  BY <1>1, <1>3, <1>4, <1>7 DEF Memory
<1>9. /\ db' = [db EXCEPT ![p] = m] /\ dirs' \in [Id -> Directory]
  BY Zenon, <1>1, <1>2, <1>6, <1>7 DEF SyncTables, Goto, CatalogTypeOK
<1>10. \A id \in stable.ids : dirs'[id] = dirs[id] /\ dirs[id].name # db[p].name
  BY <1>1, <1>2, <1>3, <1>6
     DEF Disk, Listed, Complete, MemoryHolds, OpenedHolds, Opened, Building
<1>11. MemoryHolds(m)'
  <2>1. dirs'[n].entry = "durable" /\ dirs'[n].schema = "absent"
    BY <1>4, <1>6 DEF Synced
  <2>2. OpenedHolds(m)'
    BY Zenon, <1>2, <1>3, <1>8, <1>10 DEF OpenedHolds
  <2>3. BuildingHolds(m)'
    BY <1>2, <1>4, <1>8, <2>1 DEF BuildingHolds
  <2> QED
    BY <1>2, <1>3, <1>8, <2>2, <2>3 DEF MemoryHolds, OpeningHolds, Opening, IdsOf
<1>12. Disk'
  <2>1. \A id \in Id : dirs'[id].entry = "absent" =>
          dirs'[id].schema = "absent" /\ dirs'[id].manifest = "absent"
    BY <1>1, <1>6 DEF Disk, Synced
  <2> QED
    BY ZenonT(30), <1>2, <1>3, <1>10, <2>1, DirsKeep
<1>13. DiskTypes'
  BY <1>1, <1>2, <1>9 DEF DiskTypes, CatalogTypeOK
<1>14. Steps(p, m)
  BY <1>1, <1>2, <1>8, <1>9, <1>11, <1>12, <1>13 DEF Steps, Owned
<1> QED
  BY <1>14, StepKeeps

\* A step of a create that makes its directory d.
Builds(p, m, d) ==
  /\ db[p].pc \in Building \ {"syncTables", "syncCatalog"}
  /\ m.pc \in Building \ {"syncTables", "schema", "syncCatalog"}
  /\ dirs' = [dirs EXCEPT ![db[p].id] = d] /\ db' = [db EXCEPT ![p] = m]
  /\ UNCHANGED <<catalog, stable, owner, attempts, acked>>
  /\ m.name = db[p].name /\ m.tables = db[p].tables /\ m.next = db[p].next
  /\ m.id = db[p].id /\ m.read_only = db[p].read_only
  /\ d.entry = "durable" /\ d.schema # "absent" /\ d.name = m.name
  /\ m.pc # "syncSchema" => d.schema = "durable"
  /\ m.pc = "syncManifest" => d.manifest = "visible"
  /\ m.pc = "catalog" => d.manifest = "durable"

\* Such a step keeps the invariant: the directory is of no listed table.
LEMMA BuildKeeps ==
  ASSUME IInv, NEW p \in Process, NEW m \in Memory, NEW d \in Directory, Builds(p, m, d)
  PROVE  IInv'
<1>1. CatalogTypeOK /\ Owned /\ Disk /\ MemoryHolds(db[p])
  BY DEF IInv
<1>2. /\ stable # None /\ catalog = stable /\ db[p].read_only = FALSE
      /\ db[p].tables = stable.ids /\ stable.next <= db[p].next
      /\ IdsOf(catalog) = stable.ids /\ stable.ids \subseteq Id
      /\ \A id \in Id : stable.next <= id => id \notin stable.ids
  BY ZenonT(30), Outside DEF Builds
<1>3. PICK n \in Id : n = db[p].id /\ stable.next <= n /\ n < db[p].next
  BY <1>1 DEF Builds, MemoryHolds, BuildingHolds
<1>4. dirs'[n] = d /\ \A id \in Id \ {n} : dirs'[id] = dirs[id]
  BY <1>1, <1>3 DEF CatalogTypeOK, Builds
<1>5. \A id \in stable.ids : dirs'[id] = dirs[id] /\ dirs[id].name # m.name
  <2>1. \A id \in stable.ids : dirs[id].name # db[p].name
    BY <1>1, <1>2 DEF MemoryHolds, OpenedHolds, Opened, Building, Builds
  <2> QED
    BY <1>2, <1>3, <1>4, <2>1 DEF Builds
<1>6. MemoryHolds(m)'
  <2>1. OpenedHolds(m)'
    BY <1>2, <1>5 DEF OpenedHolds, Builds
  <2>2. BuildingHolds(m)'
    BY <1>2, <1>3, <1>4 DEF BuildingHolds, Builds
  <2> QED
    BY <1>2, <2>1, <2>2 DEF MemoryHolds, OpeningHolds, Opening, Building, IdsOf, Builds
<1>7. Disk'
  <2>1. \A id \in Id : dirs'[id].entry = "absent" =>
          dirs'[id].schema = "absent" /\ dirs'[id].manifest = "absent"
    BY <1>1, <1>4 DEF Disk, Builds
  <2> QED
    BY <1>2, <1>5, <2>1, DirsKeep DEF Builds
<1>8. DiskTypes'
  BY ZenonT(30), <1>1 DEF DiskTypes, CatalogTypeOK, Builds
<1>9. db[p].pc # "closed" /\ m.pc # "closed"
  BY DEF Builds, Building
<1>10. Steps(p, m)
  BY <1>1, <1>6, <1>7, <1>8, <1>9 DEF Steps, Owned, Builds
<1> QED
  BY <1>10, StepKeeps

\* wadb_save_schema renames the schema into place.
LEMMA InstallSchemaKeeps ==
  ASSUME IInv, NEW p \in Process, InstallSchema(p)
  PROVE  IInv'
<1>1. CatalogTypeOK /\ MemoryHolds(db[p]) /\ db[p] \in Memory /\ db[p].pc = "schema"
  BY DEF IInv, CatalogTypeOK, InstallSchema
<1>2. PICK n \in Id : n = db[p].id /\ dirs[n].entry = "durable" /\ dirs[n] \in Directory
  BY <1>1 DEF MemoryHolds, BuildingHolds, Building, CatalogTypeOK
<1>3. PICK m \in Memory : m = [db[p] EXCEPT !.pc = "syncSchema"]
  BY Zenon, <1>1 DEF Memory, Pc
<1>4. PICK d \in Directory : d = [dirs[n] EXCEPT !.schema = "visible", !.name = db[p].name,
                                                 !.attempt = db[p].attempt]
  BY Zenon, <1>1, <1>2 DEF Directory, Presence, Memory
<1>5. dirs' = [dirs EXCEPT ![n] = d] /\ db' = [db EXCEPT ![p] = m]
  BY ZenonT(30), <1>1, <1>2, <1>3, <1>4 DEF InstallSchema, Goto, CatalogTypeOK
<1>6. /\ m.pc = "syncSchema" /\ m.name = db[p].name /\ m.tables = db[p].tables
      /\ m.next = db[p].next /\ m.id = db[p].id /\ m.read_only = db[p].read_only
  BY <1>1, <1>3 DEF Memory
<1>7. d.entry = "durable" /\ d.schema = "visible" /\ d.name = db[p].name
  BY <1>2, <1>4 DEF Directory
<1>8. Builds(p, m, d)
  BY ZenonT(30), <1>1, <1>2, <1>5, <1>6, <1>7 DEF Builds, Building, InstallSchema
<1> QED
  BY <1>8, BuildKeeps

\* wadb_save_manifest renames the manifest into place.
LEMMA InstallManifestKeeps ==
  ASSUME IInv, NEW p \in Process, InstallManifest(p)
  PROVE  IInv'
<1>1. CatalogTypeOK /\ MemoryHolds(db[p]) /\ db[p] \in Memory /\ db[p].pc = "manifest"
  BY DEF IInv, CatalogTypeOK, InstallManifest
<1>2. PICK n \in Id : /\ n = db[p].id /\ dirs[n].entry = "durable"
                      /\ dirs[n].schema = "durable" /\ dirs[n].name = db[p].name
                      /\ dirs[n] \in Directory
  BY <1>1 DEF MemoryHolds, BuildingHolds, Building, CatalogTypeOK
<1>3. PICK m \in Memory : m = [db[p] EXCEPT !.pc = "syncManifest"]
  BY Zenon, <1>1 DEF Memory, Pc
<1>4. PICK d \in Directory : d = [dirs[n] EXCEPT !.manifest = "visible"]
  BY ZenonT(30), <1>1, <1>2 DEF Directory, Presence
<1>5. dirs' = [dirs EXCEPT ![n] = d] /\ db' = [db EXCEPT ![p] = m]
  BY <1>1, <1>2, <1>3, <1>4 DEF InstallManifest, Goto, CatalogTypeOK
<1>6. /\ m.pc = "syncManifest" /\ m.name = db[p].name /\ m.tables = db[p].tables
      /\ m.next = db[p].next /\ m.id = db[p].id /\ m.read_only = db[p].read_only
  BY <1>1, <1>3 DEF Memory
<1>7. /\ d.entry = "durable" /\ d.schema = "durable" /\ d.name = db[p].name
      /\ d.manifest = "visible"
  BY <1>2, <1>4 DEF Directory
<1>8. Builds(p, m, d)
  BY ZenonT(30), <1>1, <1>2, <1>5, <1>6, <1>7 DEF Builds, Building, InstallManifest
<1> QED
  BY <1>8, BuildKeeps

\* The synchronization of the table's directory makes what is in it durable.
LEMMA SyncTableKeeps ==
  ASSUME IInv, NEW p \in Process, SyncTable(p)
  PROVE  IInv'
<1>1. CatalogTypeOK /\ MemoryHolds(db[p]) /\ db[p] \in Memory
  BY DEF IInv, CatalogTypeOK
<1>2. /\ db[p].pc \in {"syncSchema", "syncManifest"}
      /\ UNCHANGED <<catalog, stable, owner, attempts, acked>>
  BY DEF SyncTable
<1>3. PICK n \in Id : /\ n = db[p].id /\ dirs[n].entry = "durable"
                      /\ dirs[n].schema # "absent" /\ dirs[n].name = db[p].name
                      /\ db[p].pc = "syncManifest" => dirs[n].manifest = "visible"
                      /\ dirs[n] \in Directory
  BY <1>1, <1>2 DEF MemoryHolds, BuildingHolds, Building, CatalogTypeOK
<1>4. PICK m \in Memory : m = [db[p] EXCEPT !.pc = IF db[p].pc = "syncSchema"
                                                   THEN "manifest" ELSE "catalog"]
  BY ZenonT(30), <1>1 DEF Memory, Pc
<1>5. PICK d \in Directory : d = [dirs[n] EXCEPT !.schema = Synced(@),
                                                 !.manifest = Synced(@)]
  BY ZenonT(30), <1>3 DEF Directory, Presence, Synced
<1>6. dirs' = [dirs EXCEPT ![n] = d]
  BY ZenonT(30), <1>1, <1>3, <1>5 DEF SyncTable, CatalogTypeOK
<1>7. db' = [db EXCEPT ![p] = m]
  BY <1>1, <1>2, <1>4 DEF SyncTable, Goto, CatalogTypeOK
<1>8. /\ m.pc = IF db[p].pc = "syncSchema" THEN "manifest" ELSE "catalog"
      /\ m.name = db[p].name /\ m.tables = db[p].tables
      /\ m.next = db[p].next /\ m.id = db[p].id /\ m.read_only = db[p].read_only
  BY <1>1, <1>4 DEF Memory
<1>9. /\ d.entry = "durable" /\ d.schema = "durable" /\ d.name = db[p].name
      /\ db[p].pc = "syncManifest" => d.manifest = "durable"
  BY <1>3, <1>5 DEF Directory, Presence, Synced
<1>10. Builds(p, m, d)
  BY <1>2, <1>3, <1>6, <1>7, <1>8, <1>9 DEF Builds, Building
<1> QED
  BY <1>10, BuildKeeps

\* wadb_save_catalog renames a catalog into place, which lists what the durable one
\* lists and the table that is complete now.
LEMMA InstallCatalogKeeps ==
  ASSUME IInv, NEW p \in Process, InstallCatalog(p)
  PROVE  IInv'
<1>1. CatalogTypeOK /\ Owned /\ Disk /\ MemoryHolds(db[p]) /\ db[p] \in Memory
  BY DEF IInv, CatalogTypeOK
<1>2. /\ catalog' = [ids |-> db[p].tables \cup ({db[p].id} \ {0}), next |-> db[p].next]
      /\ UNCHANGED <<stable, dirs, owner, attempts, acked>>
  BY DEF InstallCatalog
<1>3. CASE db[p].pc = "first"
  <2>1. /\ db[p].tables = {} /\ db[p].next = 1 /\ db[p].id = 0
        /\ db[p].read_only = FALSE /\ catalog = None /\ stable = None
    BY <1>1, <1>3 DEF MemoryHolds, OpeningHolds, Opening, Disk
  <2>2. PICK m \in Memory : m = [db[p] EXCEPT !.pc = "firstSync"]
    BY Zenon, <1>1 DEF Memory, Pc
  <2>3. /\ m.pc = "firstSync" /\ m.tables = {} /\ m.next = 1 /\ m.id = 0
        /\ m.read_only = FALSE
    BY <1>1, <2>1, <2>2 DEF Memory
  <2>4. catalog' = [ids |-> {}, next |-> 1]
    BY <1>2, <2>1
  <2>5. catalog' \in File /\ catalog' # None
    BY <2>4, CatalogAssumption DEF File, Id
  <2>6. db' = [db EXCEPT ![p] = m]
    BY <1>1, <1>3, <2>2 DEF InstallCatalog, Goto, CatalogTypeOK
  <2>7. MemoryHolds(m)'
    BY <1>2, <2>1, <2>3, <2>4
       DEF MemoryHolds, OpeningHolds, OpenedHolds, BuildingHolds, Opened, Building
  <2>8. Disk'
    BY <1>1, <1>2, <2>1, <2>4, <2>5 DEF Disk, Listed, IdsOf
  <2>9. DiskTypes'
    BY <1>1, <1>2, <2>5 DEF DiskTypes, CatalogTypeOK
  <2>10. Steps(p, m)
    BY <1>1, <1>2, <1>3, <2>3, <2>6, <2>7, <2>8, <2>9 DEF Steps, Owned
  <2> QED
    BY <2>10, StepKeeps
<1>4. CASE db[p].pc = "catalog"
  <2>1. /\ stable # None /\ catalog = stable /\ db[p].read_only = FALSE
        /\ db[p].tables = stable.ids /\ stable.next <= db[p].next
        /\ IdsOf(catalog) = stable.ids /\ stable.ids \subseteq Id /\ stable.next \in Id
        /\ \A id \in Id : stable.next <= id => id \notin stable.ids
    BY ZenonT(30), <1>4, Outside DEF Building
  <2>2. PICK n \in Id : /\ n = db[p].id /\ stable.next <= n /\ n < db[p].next
                        /\ Complete(n) /\ dirs[n].name = db[p].name
    BY <1>1, <1>4 DEF MemoryHolds, BuildingHolds, Building, Complete
  <2>3. \A id \in stable.ids : dirs[id].name # db[p].name
    BY <1>1, <1>4, <2>1 DEF MemoryHolds, OpenedHolds, Opened, Building
  <2>4. PICK m \in Memory : m = [db[p] EXCEPT !.pc = "syncCatalog"]
    BY Zenon, <1>1 DEF Memory, Pc
  <2>5. /\ m.pc = "syncCatalog" /\ m.tables = stable.ids /\ m.next = db[p].next
        /\ m.id = n /\ m.read_only = FALSE /\ m.name = db[p].name
    BY <1>1, <2>1, <2>2, <2>4 DEF Memory
  <2>6. catalog' = [ids |-> stable.ids \cup {n}, next |-> m.next]
    BY <1>2, <2>1, <2>2, <2>5 DEF Id
  <2>7. catalog' \in File /\ catalog' # None /\ m.next \in Id
    BY <2>1, <2>6, CatalogAssumption DEF File, Id, Memory
  <2>8. db' = [db EXCEPT ![p] = m]
    BY <1>1, <1>4, <2>4 DEF InstallCatalog, Goto, CatalogTypeOK
  <2>9. Listed(catalog)'
    <3>1. \A id \in stable.ids : id < stable.next /\ Complete(id)
      BY <1>1, <2>1 DEF Disk, Listed
    <3>2. \A id \in stable.ids \cup {n} : id < m.next /\ Complete(id)'
      BY <1>2, <2>1, <2>2, <2>5, <2>7, <3>1 DEF Complete, Id
    <3>3. \A a, b \in stable.ids \cup {n} : dirs'[a].name = dirs'[b].name => a = b
      BY <1>1, <1>2, <2>1, <2>2, <2>3 DEF Disk, Listed
    <3> QED
      BY <2>6, <3>2, <3>3 DEF Listed
  <2>10. Disk'
    BY <1>1, <1>2, <2>1, <2>6, <2>7, <2>9 DEF Disk, Listed, Complete, IdsOf
  <2>11. MemoryHolds(m)'
    <3>1. OpenedHolds(m)'
      BY <1>2, <2>1, <2>3, <2>5 DEF OpenedHolds
    <3>2. BuildingHolds(m)'
      BY <1>2, <2>2, <2>5, <2>6 DEF BuildingHolds, Complete
    <3> QED
      BY <1>2, <2>1, <2>5, <3>1, <3>2 DEF MemoryHolds, OpeningHolds, Opening, IdsOf
  <2>12. DiskTypes'
    BY <1>1, <1>2, <2>7 DEF DiskTypes, CatalogTypeOK
  <2>13. Steps(p, m)
    BY <1>1, <1>2, <1>4, <2>5, <2>8, <2>10, <2>11, <2>12 DEF Steps, Owned
  <2> QED
    BY <2>13, StepKeeps
<1> QED
  BY <1>3, <1>4 DEF InstallCatalog

\* The memory of a create that has ended.
LEMMA FinishedIs ==
  ASSUME NEW m \in Memory
  PROVE  /\ Finished(m) \in Memory /\ Finished(m).pc = "open"
         /\ Finished(m).tables = m.tables /\ Finished(m).next = m.next
         /\ Finished(m).read_only = m.read_only
<1>1. 0 \in 0 .. MaxId /\ 0 \in 0 .. MaxAttempts
  BY CatalogAssumption
<1> QED
  BY Zenon, <1>1 DEF Memory, Finished, Pc

\* The catalog that a first open or a create has installed becomes durable, and the
\* table is offered.
LEMMA SyncCatalogKeeps ==
  ASSUME IInv, NEW p \in Process, SyncCatalog(p)
  PROVE  IInv'
<1>1. CatalogTypeOK /\ Owned /\ Disk /\ MemoryHolds(db[p]) /\ db[p] \in Memory
  BY DEF IInv, CatalogTypeOK
<1>2. /\ db[p].pc \in {"firstSync", "syncCatalog"} /\ stable' = catalog
      /\ acked' = acked \cup ({db[p].id} \ {0})
      /\ UNCHANGED <<catalog, dirs, owner, attempts>>
  BY DEF SyncCatalog
<1>3. /\ catalog = [ids |-> db[p].tables \cup ({db[p].id} \ {0}), next |-> db[p].next]
      /\ db[p].read_only = FALSE /\ {db[p].id} \ {0} \subseteq Id
  <2>1. CASE db[p].pc = "firstSync"
    BY <1>1, <2>1 DEF MemoryHolds, OpeningHolds, Opening
  <2>2. CASE db[p].pc = "syncCatalog"
    <3>1. /\ db[p].id \in Id /\ db[p].read_only = FALSE
          /\ catalog = [ids |-> db[p].tables \cup {db[p].id}, next |-> db[p].next]
      BY <1>1, <2>2 DEF MemoryHolds, BuildingHolds, Building
    <3> QED
      BY <3>1 DEF Id
  <2> QED
    BY ZenonT(30), <1>2, <2>1, <2>2
<1>4. catalog # None /\ catalog.ids \subseteq Id /\ catalog.next = db[p].next
  <2>1. db[p].tables \subseteq Id /\ db[p].next \in Id
    BY <1>1 DEF Memory
  <2> QED
    BY <1>3, <2>1, CatalogAssumption DEF Id
<1>5. PICK m \in Memory :
        /\ m = Finished([db[p] EXCEPT !.tables = @ \cup ({db[p].id} \ {0})])
        /\ m.pc = "open" /\ m.tables = catalog.ids /\ m.next = catalog.next
        /\ m.read_only = FALSE
  <2>1. db[p].tables \cup ({db[p].id} \ {0}) = catalog.ids
    BY <1>3
  <2>2. PICK k \in Memory : k = [db[p] EXCEPT !.tables = catalog.ids]
    BY Zenon, <1>1, <1>4 DEF Memory
  <2>3. k.tables = catalog.ids /\ k.next = db[p].next /\ k.read_only = FALSE
    BY Zenon, <1>1, <1>3, <2>2 DEF Memory
  <2>4. k = [db[p] EXCEPT !.tables = @ \cup ({db[p].id} \ {0})]
    BY <2>1, <2>2
  <2>5. /\ Finished(k) \in Memory /\ Finished(k).pc = "open"
        /\ Finished(k).tables = k.tables /\ Finished(k).next = k.next
        /\ Finished(k).read_only = k.read_only
    BY Zenon, FinishedIs
  <2> QED
    BY Zenon, <1>4, <2>3, <2>4, <2>5
<1>6. db' = [db EXCEPT ![p] = m]
  BY <1>1, <1>5 DEF SyncCatalog, CatalogTypeOK
<1>7. acked' \subseteq IdsOf(catalog)
  BY <1>1, <1>2, <1>3, <1>4 DEF Disk, IdsOf
<1>8. Disk'
  BY <1>1, <1>2, <1>4, <1>7 DEF Disk, Listed, Complete, IdsOf
<1>9. MemoryHolds(m)'
  <2>1. catalog.next <= m.next
    BY <1>1, <1>4, <1>5 DEF Memory, Id
  <2>2. OpenedHolds(m)'
    BY <1>2, <1>4, <1>5, <2>1 DEF OpenedHolds
  <2>3. m.tables \subseteq IdsOf(stable)'
    BY <1>2, <1>4, <1>5 DEF IdsOf
  <2> QED
    BY Zenon, <1>5, <2>2, <2>3 DEF MemoryHolds, OpeningHolds, BuildingHolds, Opening, Building
<1>10. DiskTypes'
  BY <1>1, <1>2, <1>3 DEF DiskTypes, CatalogTypeOK
<1>11. Steps(p, m)
  BY <1>1, <1>2, <1>5, <1>6, <1>8, <1>9, <1>10 DEF Steps, Owned
<1> QED
  BY <1>11, StepKeeps

\* A create fails, and leaves the database as it was or read-only.
LEMMA FailureKeeps ==
  ASSUME IInv, NEW p \in Process, CreateFails(p) \/ CreateUncertain(p)
  PROVE  IInv'
<1>1. CatalogTypeOK /\ Owned /\ Disk /\ MemoryHolds(db[p]) /\ db[p] \in Memory
  BY DEF IInv, CatalogTypeOK
<1>2. /\ db[p].pc \in {"mkdir"} \cup Building
      /\ UNCHANGED <<catalog, stable, dirs, owner, attempts, acked>>
  BY DEF CreateFails, CreateUncertain, Building
<1>3. PICK k \in Memory : k = Finished(db[p])
  BY Zenon, <1>1, FinishedIs
<1>4. /\ k.pc = "open" /\ k.tables = db[p].tables /\ k.next = db[p].next
      /\ k.read_only = db[p].read_only
  BY Zenon, <1>1, <1>3, FinishedIs
<1>5. PICK m \in Memory :
        /\ db' = [db EXCEPT ![p] = m]
        /\ m.pc = "open" /\ m.tables = db[p].tables /\ m.next = db[p].next
        /\ m.read_only = TRUE \/ (m.read_only = FALSE /\ db[p].pc # "syncCatalog")
  <2>1. CASE CreateFails(p)
    <3>1. db' = [db EXCEPT ![p] = k] /\ db[p].pc # "syncCatalog"
      BY <1>1, <1>3, <2>1 DEF CreateFails, CatalogTypeOK
    <3>2. k.read_only = FALSE
      BY <1>1, <1>2, <1>4 DEF MemoryHolds
    <3> QED
      BY Zenon, <1>4, <3>1, <3>2
  <2>2. CASE CreateUncertain(p)
    <3>1. PICK m \in Memory : m = [k EXCEPT !.read_only = TRUE]
      BY Zenon DEF Memory
    <3>2. m.pc = "open" /\ m.tables = k.tables /\ m.next = k.next /\ m.read_only = TRUE
      BY <1>4, <3>1 DEF Memory
    <3>3. db' = [db EXCEPT ![p] = m]
      BY <1>1, <1>3, <2>2, <3>1 DEF CreateUncertain, CatalogTypeOK
    <3> QED
      BY ZenonT(30), <1>4, <3>2, <3>3
  <2> QED
    BY ZenonT(30), <2>1, <2>2
<1>6. MemoryHolds(m)'
  <2>1. m.tables \subseteq IdsOf(stable)'
    BY <1>1, <1>2, <1>5 DEF MemoryHolds, IdsOf
  <2>2. OpenedHolds(m)'
    <3>1. CASE m.read_only = TRUE
      BY <3>1 DEF OpenedHolds
    <3>2. CASE db[p].pc # "syncCatalog"
      <4>1. /\ stable # None /\ catalog = stable
            /\ db[p].tables = stable.ids /\ stable.next <= db[p].next
        BY ZenonT(30), <1>2, <3>2, Outside
      <4> QED
        BY <1>2, <1>5, <4>1 DEF OpenedHolds
    <3> QED
      BY Zenon, <1>5, <3>1, <3>2
  <2> QED
    BY <1>5, <2>1, <2>2 DEF MemoryHolds, OpeningHolds, BuildingHolds, Opening, Building
<1>7. DiskTypes' /\ Disk'
  BY <1>1, <1>2, DiskSame DEF DiskTypes, CatalogTypeOK
<1>8. db[p].pc # "closed"
  BY <1>2 DEF Building
<1>9. Steps(p, m)
  BY <1>1, <1>2, <1>5, <1>6, <1>7, <1>8 DEF Steps, Owned
<1> QED
  BY <1>9, StepKeeps

\* A process ends; its lock is free.
LEMMA ExitKeeps ==
  ASSUME IInv, NEW p \in Process, Exit(p)
  PROVE  IInv'
<1>1. CatalogTypeOK /\ Owned /\ Disk /\ \A q \in Process : MemoryHolds(db[q])
  BY DEF IInv
<1>2. /\ db[p].pc # "closed" /\ db' = [db EXCEPT ![p] = NoMemory]
      /\ UNCHANGED <<catalog, stable, dirs, attempts, acked>>
  BY DEF Exit
<1>3. owner = p /\ owner' = None
  BY <1>1, <1>2 DEF Owned, Exit
<1>4. \A q \in Process : db'[q] = NoMemory
  <2>1. \A q \in Process \ {p} : db[q].pc = "closed"
    BY <1>1, <1>3 DEF Owned
  <2> QED
    BY <1>1, <1>2, <2>1 DEF CatalogTypeOK, MemoryHolds, OpeningHolds, Opening
<1>5. CatalogTypeOK' /\ Owned' /\ \A q \in Process : MemoryHolds(db[q])'
  BY <1>1, <1>2, <1>3, <1>4, AllClosed DEF CatalogTypeOK
<1>6. Disk'
  BY <1>2, DiskSame
<1> QED
  BY <1>5, <1>6 DEF IInv

\* A failure of the machine keeps what is durable, the listed tables above all.
LEMMA MachineFailsKeeps ==
  ASSUME IInv, MachineFails
  PROVE  IInv'
<1>1. CatalogTypeOK /\ Disk
  BY DEF IInv
<1>2. /\ catalog' \in {catalog, stable} /\ stable' = catalog' /\ owner' = None
      /\ db' = [p \in Process |-> NoMemory] /\ UNCHANGED <<attempts, acked>>
  BY DEF MachineFails
<1>3. PICK gone \in SUBSET {id \in Id : dirs[id].entry = "visible"},
           schemas \in SUBSET {id \in Id : dirs[id].schema = "visible"},
           manifests \in SUBSET {id \in Id : dirs[id].manifest = "visible"} :
        dirs' = [id \in Id |-> IF id \in gone THEN NoDirectory
                               ELSE Remains(dirs[id], id \notin schemas,
                                            id \notin manifests)]
  BY Zenon DEF MachineFails
<1>4. ASSUME NEW d \in Directory, NEW s \in BOOLEAN, NEW t \in BOOLEAN
      PROVE  /\ Remains(d, s, t) \in Directory
             /\ Remains(d, s, t).entry = Synced(d.entry)
             /\ Remains(d, s, t).schema = IF s THEN Synced(d.schema) ELSE "absent"
             /\ Remains(d, s, t).name = IF s THEN d.name ELSE None
             /\ Remains(d, s, t).manifest = IF t THEN Synced(d.manifest) ELSE "absent"
  <2>1. 0 \in 0 .. MaxAttempts
    BY CatalogAssumption
  <2>2. /\ Remains(d, s, t).entry = Synced(d.entry)
        /\ Remains(d, s, t).schema = IF s THEN Synced(d.schema) ELSE "absent"
        /\ Remains(d, s, t).name = IF s THEN d.name ELSE None
        /\ Remains(d, s, t).manifest = IF t THEN Synced(d.manifest) ELSE "absent"
    BY Zenon DEF Remains, Directory
  <2>3. \A e \in Presence : Synced(e) \in Presence
    BY Zenon DEF Presence, Synced
  <2>4. "absent" \in Presence
    BY DEF Presence
  <2> QED
    BY ZenonT(30), <2>1, <2>2, <2>3, <2>4 DEF Remains, Directory
<1>5. NoDirectory \in Directory /\ NoDirectory.entry = "absent"
      /\ NoDirectory.schema = "absent" /\ NoDirectory.manifest = "absent"
  BY CatalogAssumption DEF NoDirectory, Directory, Presence
<1>6. ASSUME NEW id \in Id
      PROVE  /\ dirs'[id] \in Directory
             /\ Complete(id) => Complete(id)' /\ dirs'[id].name = dirs[id].name
             /\ dirs[id].entry = "absent" => dirs'[id].entry = "absent"
             /\ dirs'[id].entry = "absent" =>
                  dirs'[id].schema = "absent" /\ dirs'[id].manifest = "absent"
  <2>1. CASE id \in gone
    <3>1. dirs'[id] = NoDirectory /\ dirs[id].entry = "visible"
      BY <1>3, <2>1
    <3> QED
      BY <1>5, <3>1 DEF Complete
  <2>2. CASE id \notin gone
    <3>1. PICK d \in Directory, s \in BOOLEAN, t \in BOOLEAN :
            d = dirs[id] /\ s = (id \notin schemas) /\ t = (id \notin manifests)
      BY Zenon, <1>1 DEF CatalogTypeOK
    <3>2. dirs'[id] = Remains(d, s, t)
      BY Zenon, <1>3, <2>2, <3>1
    <3>3. (d.schema # "visible" => s) /\ (d.manifest # "visible" => t)
      BY Zenon, <1>3, <3>1
    <3>4. d.entry = "absent" => d.schema = "absent" /\ d.manifest = "absent"
      BY Zenon, <1>1, <3>1 DEF Disk
    <3> QED
      <4>1. /\ dirs'[id] \in Directory /\ dirs'[id].entry = Synced(d.entry)
            /\ dirs'[id].schema = IF s THEN Synced(d.schema) ELSE "absent"
            /\ dirs'[id].name = IF s THEN d.name ELSE None
            /\ dirs'[id].manifest = IF t THEN Synced(d.manifest) ELSE "absent"
        <5>1. /\ Remains(d, s, t) \in Directory
              /\ Remains(d, s, t).entry = Synced(d.entry)
              /\ Remains(d, s, t).schema = IF s THEN Synced(d.schema) ELSE "absent"
              /\ Remains(d, s, t).name = IF s THEN d.name ELSE None
              /\ Remains(d, s, t).manifest = IF t THEN Synced(d.manifest) ELSE "absent"
          BY ONLY Zenon, <1>4
        <5> QED
          BY ONLY <3>2, <5>1
      <4>2. Complete(id) => Complete(id)' /\ dirs'[id].name = dirs[id].name
        BY <3>1, <3>3, <4>1 DEF Complete, Synced
      <4>3. d.entry = "absent" <=> Synced(d.entry) = "absent"
        BY DEF Synced
      <4>4. Synced("absent") = "absent"
        BY DEF Synced
      <4> QED
        BY <3>1, <3>4, <4>1, <4>2, <4>3, <4>4
  <2> QED
    BY <2>1, <2>2
<1>7. dirs' \in [Id -> Directory]
  BY <1>3, <1>6
<1>8. ASSUME NEW file \in File \cup {None}, Listed(file)
      PROVE  file # None =>
               /\ \A id \in file.ids : id < file.next /\ Complete(id)'
               /\ \A a, b \in file.ids : dirs'[a].name = dirs'[b].name => a = b
  <2>1. file # None => file.ids \subseteq Id
    BY DEF File
  <2> QED
    BY <1>6, <1>8, <2>1 DEF Listed
<1>9. Listed(catalog)' /\ Listed(stable)'
  <2>1. PICK file \in File \cup {None} : file = catalog' /\ file = stable' /\ Listed(file)
    BY <1>1, <1>2 DEF Disk, CatalogTypeOK
  <2> QED
    BY <1>8, <2>1 DEF Listed
<1>10. /\ stable' = None => \A id \in Id : dirs'[id].entry = "absent"
       /\ acked' \subseteq IdsOf(stable')
  <2>1. stable' = None => stable = None
    BY Zenon, <1>1, <1>2 DEF Disk
  <2>2. acked \subseteq IdsOf(catalog) /\ acked \subseteq IdsOf(stable)
    BY <1>1 DEF Disk
  <2> QED
    BY Zenon, <1>1, <1>2, <1>6, <2>1, <2>2 DEF Disk, IdsOf
<1>11. Disk'
  BY <1>2, <1>6, <1>9, <1>10 DEF Disk, IdsOf
<1>12. CatalogTypeOK' /\ Owned' /\ \A p \in Process : MemoryHolds(db[p])'
  BY <1>1, <1>2, <1>7, AllClosed DEF CatalogTypeOK
<1> QED
  BY <1>11, <1>12 DEF IInv

\* An empty directory, and no process.
LEMMA InitHolds == CatalogInit => IInv
<1> SUFFICES ASSUME CatalogInit
             PROVE  IInv
  OBVIOUS
<1>1. NoDirectory \in Directory /\ NoDirectory.entry = "absent"
      /\ NoDirectory.schema = "absent" /\ NoDirectory.manifest = "absent"
  BY CatalogAssumption DEF NoDirectory, Directory, Presence
<1>2. NoMemory \in Memory /\ NoMemory.pc = "closed"
  <2>1. 0 \in 0 .. MaxId /\ 0 \in 0 .. MaxAttempts /\ 1 \in Id
    BY CatalogAssumption DEF Id
  <2> QED
    BY <2>1 DEF NoMemory, Memory, Pc
<1>3. CatalogTypeOK
  BY <1>1, <1>2, CatalogAssumption DEF CatalogInit, CatalogTypeOK
<1>4. Owned
  BY <1>2 DEF CatalogInit, Owned
<1>5. Disk
  BY <1>1 DEF CatalogInit, Disk, Listed, IdsOf
<1>6. MemoryHolds(NoMemory)
  BY Zenon DEF MemoryHolds, OpeningHolds, OpenedHolds, BuildingHolds, NoMemory, Opened, Building
<1>7. \A p \in Process : MemoryHolds(db[p])
  BY <1>6 DEF CatalogInit
<1> QED
  BY <1>3, <1>4, <1>5, <1>7 DEF IInv

\* Every step keeps the invariant.
LEMMA NextKeeps == IInv /\ [CatalogNext]_catalog_vars => IInv'
<1> SUFFICES ASSUME IInv, [CatalogNext]_catalog_vars
             PROVE  IInv'
  OBVIOUS
<1>1. CASE MachineFails
  BY <1>1, MachineFailsKeeps
<1>2. ASSUME NEW p \in Process, Lock(p) \/ SyncRoot(p) \/ Load(p) \/ Exit(p)
      PROVE  IInv'
  BY <1>2, LockKeeps, SyncRootKeeps, LoadKeeps, ExitKeeps
<1>3. ASSUME NEW p \in Process, NEW name \in Name, Create(p, name)
      PROVE  IInv'
  BY <1>3, CreateKeeps
<1>4. ASSUME NEW p \in Process,
             \/ MakeDirectory(p) \/ SyncTables(p) \/ InstallSchema(p)
             \/ InstallManifest(p) \/ SyncTable(p)
      PROVE  IInv'
  BY <1>4, MakeDirectoryKeeps, SyncTablesKeeps, InstallSchemaKeeps, InstallManifestKeeps,
     SyncTableKeeps
<1>5. ASSUME NEW p \in Process,
             InstallCatalog(p) \/ SyncCatalog(p) \/ CreateFails(p) \/ CreateUncertain(p)
      PROVE  IInv'
  BY <1>5, InstallCatalogKeeps, SyncCatalogKeeps, FailureKeeps
<1>6. CASE UNCHANGED catalog_vars
  <2>1. Disk'
    BY <1>6, DiskSame DEF catalog_vars
  <2>2. CatalogTypeOK' /\ Owned'
    BY Zenon, <1>6 DEF catalog_vars, IInv, CatalogTypeOK, Owned
  <2>3. ASSUME NEW p \in Process
        PROVE  MemoryHolds(db[p])'
    <3>1. MemoryHolds(db[p])
      BY DEF IInv
    <3>2. UNCHANGED <<catalog, stable, dirs, db>>
      BY <1>6 DEF catalog_vars
    <3> QED
      BY Zenon, <3>1, <3>2 DEF MemoryHolds, OpeningHolds, OpenedHolds, BuildingHolds, IdsOf
  <2> QED
    BY <2>1, <2>2, <2>3 DEF IInv
<1> QED
  BY <1>1, <1>2, <1>3, <1>4, <1>5, <1>6 DEF CatalogNext

\* The invariant holds in every reachable state.
LEMMA Invariance == CatalogSpec => []IInv
BY InitHolds, NextKeeps, PTL DEF CatalogSpec

\* The catalog can be loaded whenever and wherever the processes and the machine
\* stopped, for any number of processes, names, tables and failures (wadb_open,
\* wadb_load_catalog).
THEOREM NeverEverCorrupt == CatalogSpec => []NeverCorrupt
<1>1. IInv => NeverCorrupt
  BY DEF IInv, MemoryHolds, NeverCorrupt
<1> QED
  BY <1>1, Invariance, PTL

\* A table that was acknowledged is listed, and a table that an open database
\* offers is durable as a whole, for any number of processes and failures
\* (wadb_create_table, wadb_open).
THEOREM OfferedAlwaysDurable == CatalogSpec => []OfferedDurable
<1>1. IInv => OfferedDurable
  <2> SUFFICES ASSUME IInv
               PROVE  OfferedDurable
    OBVIOUS
  <2>1. Disk /\ \A p \in Process : db[p].tables \subseteq IdsOf(stable)
    BY DEF IInv, MemoryHolds
  <2>2. \A id \in IdsOf(stable) : Complete(id)
    BY <2>1 DEF Disk, Listed, IdsOf
  <2>3. acked \subseteq IdsOf(catalog) \cap IdsOf(stable)
    BY <2>1 DEF Disk
  <2> QED
    BY <2>1, <2>2, <2>3 DEF OfferedDurable, Complete
<1> QED
  BY <1>1, Invariance, PTL

\* No step takes a table from a catalog, but a failure that loses what was never
\* durable.
LEMMA Grows ==
  ASSUME IInv, [CatalogNext]_catalog_vars
  PROVE  /\ IdsOf(stable) \subseteq IdsOf(stable')
         /\ IdsOf(catalog) \subseteq IdsOf(catalog') \/ catalog' = stable
<1>1. IdsOf(stable) \subseteq IdsOf(catalog)
  BY DEF IInv, Disk
<1>2. CASE MachineFails
  BY <1>1, <1>2 DEF MachineFails
<1>3. CASE \E p \in Process : SyncRoot(p) \/ SyncCatalog(p)
  BY <1>1, <1>3 DEF SyncRoot, SyncCatalog
<1>4. ASSUME NEW p \in Process, InstallCatalog(p)
      PROVE  IdsOf(catalog) \subseteq IdsOf(catalog') /\ UNCHANGED stable
  <2>1. MemoryHolds(db[p]) /\ UNCHANGED stable
        /\ catalog' = [ids |-> db[p].tables \cup ({db[p].id} \ {0}), next |-> db[p].next]
    BY <1>4 DEF IInv, InstallCatalog
  <2>2. CASE db[p].pc = "first"
    <3>1. catalog = None
      BY <2>1, <2>2 DEF MemoryHolds, OpeningHolds, Opening
    <3> QED
      BY <2>1, <3>1 DEF IdsOf
  <2>3. CASE db[p].pc = "catalog"
    <3>1. IdsOf(catalog) \subseteq db[p].tables /\ db[p].tables \subseteq Id
      BY ZenonT(30), <2>3, Outside DEF Building
    <3>2. catalog' # None
      <4>1. db[p].next \in Id /\ db[p].id \in 0 .. MaxId
        BY DEF IInv, CatalogTypeOK, Memory
      <4>2. catalog' \in File
        BY <2>1, <3>1, <4>1, CatalogAssumption DEF File, Id
      <4> QED
        BY <4>2, CatalogAssumption DEF File, Id
    <3> QED
      BY <2>1, <3>1, <3>2 DEF IdsOf
  <2> QED
    BY Zenon, <1>4, <2>1, <2>2, <2>3 DEF InstallCatalog
<1>5. CASE UNCHANGED <<catalog, stable>>
  BY <1>5
<1>6. ASSUME NEW p \in Process, NEW name \in Name, Create(p, name)
      PROVE  UNCHANGED <<catalog, stable>>
  BY Zenon, <1>6 DEF Create
<1>7. ASSUME NEW p \in Process,
             \/ Lock(p) \/ Load(p) \/ MakeDirectory(p) \/ SyncTables(p)
             \/ InstallSchema(p) \/ InstallManifest(p) \/ SyncTable(p)
             \/ CreateFails(p) \/ CreateUncertain(p) \/ Exit(p)
      PROVE  UNCHANGED <<catalog, stable>>
  BY Zenon, <1>7 DEF Lock, Load, MakeDirectory, SyncTables, InstallSchema,
       InstallManifest, SyncTable, CreateFails, CreateUncertain, Exit
<1> QED
  BY <1>2, <1>3, <1>4, <1>5, <1>6, <1>7 DEF CatalogNext, catalog_vars

\* A schema stays that of the create that installed it, or goes in a failure.
LEMMA SchemaStays ==
  ASSUME IInv, [CatalogNext]_catalog_vars, NEW id \in Id, dirs[id].schema # "absent"
  PROVE  dirs'[id].schema = "absent" \/ dirs'[id].attempt = dirs[id].attempt
<1>1. dirs \in [Id -> Directory] /\ dirs[id] \in Directory
  BY DEF IInv, CatalogTypeOK
<1>2. CASE MachineFails
  <2>1. PICK gone \in SUBSET {x \in Id : dirs[x].entry = "visible"},
             schemas \in SUBSET {x \in Id : dirs[x].schema = "visible"},
             manifests \in SUBSET {x \in Id : dirs[x].manifest = "visible"} :
          dirs' = [x \in Id |-> IF x \in gone THEN NoDirectory
                                ELSE Remains(dirs[x], x \notin schemas, x \notin manifests)]
    BY Zenon, <1>2 DEF MachineFails
  <2>2. ASSUME NEW d \in Directory, NEW s \in BOOLEAN, NEW t \in BOOLEAN
        PROVE  \/ Remains(d, s, t).schema = "absent"
               \/ Remains(d, s, t).attempt = d.attempt
    BY DEF Remains, Directory
  <2>3. \/ dirs'[id] = NoDirectory
        \/ dirs'[id] = Remains(dirs[id], id \notin schemas, id \notin manifests)
    BY Zenon, <2>1
  <2> QED
    <3>1. PICK s \in BOOLEAN, t \in BOOLEAN :
            s = (id \notin schemas) /\ t = (id \notin manifests)
      BY Zenon
    <3>2. dirs'[id] = NoDirectory \/ dirs'[id] = Remains(dirs[id], s, t)
      BY Zenon, <2>3, <3>1
    <3>3. \/ Remains(dirs[id], s, t).schema = "absent"
          \/ Remains(dirs[id], s, t).attempt = dirs[id].attempt
      BY Zenon, <1>1, <2>2
    <3>4. NoDirectory.schema = "absent"
      BY DEF NoDirectory
    <3> QED
      BY Zenon, <3>2, <3>3, <3>4
<1>3. ASSUME NEW p \in Process, MakeDirectory(p)
      PROVE  dirs'[id].attempt = dirs[id].attempt
  BY <1>1, <1>3 DEF MakeDirectory, Directory
<1>4. ASSUME NEW p \in Process, SyncTables(p)
      PROVE  dirs'[id].attempt = dirs[id].attempt
  BY <1>1, <1>4 DEF SyncTables, Directory
<1>5. ASSUME NEW p \in Process, InstallSchema(p)
      PROVE  dirs'[id] = dirs[id]
  <2>1. dirs[db[p].id].schema = "absent"
    BY <1>5 DEF IInv, MemoryHolds, BuildingHolds, Building, InstallSchema
  <2> QED
    BY <1>1, <1>5, <2>1 DEF InstallSchema
<1>6. ASSUME NEW p \in Process, InstallManifest(p) \/ SyncTable(p)
      PROVE  dirs'[id].attempt = dirs[id].attempt
  BY <1>1, <1>6 DEF InstallManifest, SyncTable, Directory
<1>7. CASE UNCHANGED dirs
  BY <1>7
<1>8. ASSUME NEW p \in Process, NEW name \in Name, Create(p, name)
      PROVE  UNCHANGED dirs
  BY Zenon, <1>8 DEF Create
<1>9. ASSUME NEW p \in Process,
             \/ Lock(p) \/ SyncRoot(p) \/ Load(p) \/ InstallCatalog(p) \/ SyncCatalog(p)
             \/ CreateFails(p) \/ CreateUncertain(p) \/ Exit(p)
      PROVE  UNCHANGED dirs
  BY Zenon, <1>9 DEF Lock, SyncRoot, Load, InstallCatalog, SyncCatalog, CreateFails,
       CreateUncertain, Exit
<1> QED
  BY <1>2, <1>3, <1>4, <1>5, <1>6, <1>7, <1>8, <1>9 DEF CatalogNext, catalog_vars

\* No creation, of whatever outcome, takes anything away from another, for any
\* number of processes, names, tables and failures (wadb_create_table).
THEOREM NothingEverOverwritten == CatalogSpec => NothingOverwritten
<1>1. IInv /\ [CatalogNext]_catalog_vars =>
        [/\ IdsOf(stable) \subseteq IdsOf(stable')
         /\ IdsOf(catalog) \subseteq IdsOf(catalog') \/ catalog' = stable]_catalog_vars
  BY Grows
<1>2. IInv /\ [CatalogNext]_catalog_vars =>
        [\A id \in Id : dirs[id].schema # "absent" =>
           dirs'[id].schema = "absent" \/ dirs'[id].attempt = dirs[id].attempt]_catalog_vars
  BY SchemaStays
<1> QED
  BY <1>1, <1>2, Invariance, PTL DEF CatalogSpec, NothingOverwritten, CatalogGrows,
                                     LeftoversKept

=============================================================================
