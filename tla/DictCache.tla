----------------------------- MODULE DictCache ------------------------------
(***************************************************************************)
(* The cache of segment dictionaries, shared by all readers.               *)
(* Source: src/query/cache.c.                                              *)
(*                                                                         *)
(* A reader looks its key up under db->mutex.  On a miss it reserves room  *)
(* for the largest dictionary, loads without the mutex, and returns the    *)
(* reservation when it has the mutex again.  The cache is kept in the      *)
(* order of `used', the least recent entry first.                          *)
(***************************************************************************)
EXTENDS Integers, Sequences, FiniteSets, SequencesExt

CONSTANTS
  Reader,          \* threads that read segments, one at a time each
  Segment,         \* sealed segments
  CacheBytes,      \* options.read_cache_bytes
  Reservation,     \* options.dictionary_limit_bytes + sizeof(wadb_cache_entry)
  NoKey

\* wadb_open refuses a cache that is smaller than one reservation.
ASSUME DictCacheAssumption ==
  Reservation \in Nat \ {0} /\ CacheBytes \in Nat /\ Reservation <= CacheBytes

VARIABLES
  cache, cache_bytes,
  at,              \* where each reader is
  key              \* the dictionary each reader wants or holds

cache_vars == <<cache, cache_bytes, at, key>>

-----------------------------------------------------------------------------
\* A dictionary: of the index file, or rebuilt from the segment (checksum 0).
Key == [segment : Segment, rebuilt : BOOLEAN]
Entry == [key : Key, references : Nat, charge : 1 .. Reservation]

At(r, where) == at' = [at EXCEPT ![r] = where]
Has(entries, k) == \E i \in DOMAIN entries : entries[i].key = k
Position(entries, k) ==
  CHOOSE i \in DOMAIN entries :
    entries[i].key = k /\ \A j \in DOMAIN entries : entries[j].key = k => i <= j

\* The entry of key k, referenced once more and now the most recently used.
Referenced(entries, k) ==
  LET i == Position(entries, k)
  IN Append(RemoveAt(entries, i), [entries[i] EXCEPT !.references = @ + 1])

RECURSIVE ChargeOf(_)
ChargeOf(entries) ==
  IF entries = << >> THEN 0 ELSE Head(entries).charge + ChargeOf(Tail(entries))

\* Mutant: an entry in use may be evicted.
IdleAny(entries) == DOMAIN entries

\* The entries that no reader holds.
Idle(entries) == {i \in DOMAIN entries : entries[i].references = 0}

RoomLeft(bytes) == Reservation <= CacheBytes - bytes

\* Mutant: at most one entry is evicted.
EvictOne(entries, bytes) ==
  IF RoomLeft(bytes) \/ Idle(entries) = {} THEN <<entries, bytes>>
  ELSE LET i == CHOOSE i \in Idle(entries) : \A j \in Idle(entries) : i <= j
       IN <<RemoveAt(entries, i), bytes - entries[i].charge>>

\* The eviction loop: least recently used first, until the reservation fits
\* or every entry left is held.
RECURSIVE Evict(_, _)
Evict(entries, bytes) ==
  IF RoomLeft(bytes) \/ Idle(entries) = {} THEN <<entries, bytes>>
  ELSE LET i == CHOOSE i \in Idle(entries) : \A j \in Idle(entries) : i <= j
       IN Evict(RemoveAt(entries, i), bytes - entries[i].charge)

-----------------------------------------------------------------------------
(* wadb_cache_acquire.                                                     *)

Hit(r, k) ==
  /\ at[r] = "idle" /\ Has(cache, k)
  /\ cache' = Referenced(cache, k)
  /\ key' = [key EXCEPT ![r] = k]
  /\ At(r, "holding")
  /\ UNCHANGED cache_bytes

\* The entries evicted before WADB_BACKPRESSURE stay evicted.
Miss(r, k) ==
  LET e == Evict(cache, cache_bytes) IN
  /\ at[r] = "idle" /\ ~Has(cache, k)
  /\ cache' = e[1]
  /\ \/ /\ RoomLeft(e[2])
        /\ cache_bytes' = e[2] + Reservation
        /\ key' = [key EXCEPT ![r] = k]
        /\ At(r, "loading")
     \/ /\ ~RoomLeft(e[2])
        /\ cache_bytes' = e[2]
        /\ At(r, "refused")
        /\ UNCHANGED key

\* Mutant: a copy that is thrown away is still charged.
StoreCharged(k, charge) ==
  /\ cache' = IF Has(cache, k) THEN Referenced(cache, k)
              ELSE Append(cache, [key |-> k, references |-> 1, charge |-> charge])
  /\ cache_bytes' = cache_bytes - Reservation + charge

\* Two misses may have loaded the same dictionary: one copy is kept.
Store(k, charge) ==
  IF Has(cache, k)
  THEN cache' = Referenced(cache, k) /\ cache_bytes' = cache_bytes - Reservation
  ELSE /\ cache' = Append(cache, [key |-> k, references |-> 1, charge |-> charge])
       /\ cache_bytes' = cache_bytes - Reservation + charge

\* The load may find the index file damaged and rebuild the dictionary, which
\* changes the key under which it is stored.
Loaded(r, k, charge) ==
  /\ at[r] = "loading" /\ (k = key[r] \/ k = [key[r] EXCEPT !.rebuilt = TRUE])
  /\ Store(k, charge)
  /\ key' = [key EXCEPT ![r] = k]
  /\ At(r, "holding")

LoadFails(r) ==
  /\ at[r] = "loading"
  /\ cache_bytes' = cache_bytes - Reservation
  /\ key' = [key EXCEPT ![r] = NoKey]
  /\ At(r, "idle")
  /\ UNCHANGED cache

\* The caller of a refused acquire gives up.
GiveUp(r) ==
  /\ at[r] = "refused"
  /\ At(r, "idle")
  /\ UNCHANGED <<cache, cache_bytes, key>>

\* wadb_cache_release.
ReleaseEntry(r) ==
  /\ at[r] = "holding"
  /\ cache' = [cache EXCEPT ![Position(cache, key[r])].references = @ - 1]
  /\ key' = [key EXCEPT ![r] = NoKey]
  /\ At(r, "idle")
  /\ UNCHANGED cache_bytes

\* wadb_cache_clear, from wadb_close: no call is in progress.
Clear ==
  /\ \A r \in Reader : at[r] = "idle"
  /\ cache' = << >> /\ cache_bytes' = 0
  /\ UNCHANGED <<at, key>>

CacheInit ==
  /\ cache = << >> /\ cache_bytes = 0
  /\ at = [r \in Reader |-> "idle"] /\ key = [r \in Reader |-> NoKey]

CacheNext ==
  \/ Clear
  \/ \E r \in Reader :
       \/ \E k \in Key : Hit(r, k) \/ Miss(r, k)
       \/ \E k \in Key, charge \in 1 .. Reservation : Loaded(r, k, charge)
       \/ LoadFails(r) \/ GiveUp(r) \/ ReleaseEntry(r)

CacheSpec == CacheInit /\ [][CacheNext]_cache_vars

-----------------------------------------------------------------------------
(* Properties.                                                             *)

\* Type invariant; in particular the bytes charged never exceed the budget, from
\* which they are subtracted.
CacheTypeOK ==
  /\ cache \in Seq(Entry) /\ cache_bytes \in 0 .. CacheBytes
  /\ at \in [Reader -> {"idle", "loading", "refused", "holding"}]
  /\ key \in [Reader -> Key \cup {NoKey}]

\* The bytes charged are those of the entries and of the loads in progress, so
\* concurrent misses, failed loads and dropped copies neither leak budget nor
\* let it wrap; they stay within the limit, and no dictionary is charged twice
\* ("Keep only one immutable copy").  An entry's references are exactly the
\* readers that hold it: none is freed under a reader and none is kept for
\* nobody (wadb_cache_acquire, wadb_cache_release).
BytesBalance ==
  /\ cache_bytes = ChargeOf(cache)
                   + Reservation * Cardinality({r \in Reader : at[r] = "loading"})
  /\ cache_bytes <= CacheBytes
  /\ \A i, j \in DOMAIN cache : cache[i].key = cache[j].key => i = j
  /\ \A r \in Reader : at[r] = "holding" => Has(cache, key[r])
  /\ \A i \in DOMAIN cache :
       cache[i].references =
         Cardinality({r \in Reader : at[r] = "holding" /\ key[r] = cache[i].key})

\* A reader is refused only when what other readers hold and load leaves no room
\* for a reservation ("dictionary cache is pinned by other readers"): no entry
\* that nobody holds is left, so idle entries never block.
RefusedOnlyIfPinned ==
  [][\A r \in Reader : at[r] = "idle" /\ at'[r] = "refused" =>
       /\ \E other \in Reader \ {r} : at[other] \in {"loading", "holding"}
       /\ \A i \in DOMAIN cache' : cache'[i].references > 0
       /\ Reservation > CacheBytes - cache_bytes']_cache_vars
=============================================================================
