------------------------------ MODULE Grouping ------------------------------
(***************************************************************************)
(* Aggregation: buckets, finding groups, reducing rows, ordering.          *)
(* Source: charge, group_for, reduce, consume, compare_groups, emit_groups *)
(* and wadb_query_execute of src/query/query.c; the time buckets of        *)
(* wadb_query_compile, and wadb_value_compare, of plan.c.                  *)
(*                                                                         *)
(* The query groups by a field, by time buckets, or not at all, and takes  *)
(* COUNT, SUM, MIN and MAX of another field, a signed one, and COUNT_ALL.  *)
(* (Sums of unsigned and floating-point fields and AVG are left out.)  A   *)
(* behaviour compiles it, makes the groups that are known beforehand,      *)
(* feeds rows one at a time and ends with the sorted groups.  Memory is counted in the units of     *)
(* GroupBytes, SlotBytes and OrderBytes; first capacities (16 and 32 in    *)
(* the code) are constants.  Keys are of a fixed width: they take no       *)
(* memory besides their group.                                             *)
(***************************************************************************)
EXTENDS Buckets, Sequences, SequencesExt, FiniteSetsExt

CONSTANTS
  Key,                          \* values of the grouping field, Null included
  Value,                        \* integers of the aggregated field
  Null,
  Hash,                         \* of each key and each bucket
  MaxGroups, MaxBuckets,        \* options.max_groups, options.max_buckets
  Limit,                        \* options.scan.limit
  Memories,                     \* values of options.memory_limit_bytes
  FirstGroups, FirstSlots,
  GroupBytes, SlotBytes, OrderBytes,
  MaxRows, MaxBucketRows        \* bounds: rows of a query, and of one with buckets

ASSUME GroupingAssumption ==
  /\ Value \subseteq Int64 /\ Null \in Key
  /\ {MaxGroups, MaxBuckets, Limit, FirstGroups} \subseteq Nat \ {0}
  /\ FirstSlots \in Nat \ {0, 1}
  /\ Memories \subseteq Nat
  /\ {GroupBytes, SlotBytes, OrderBytes, MaxRows, MaxBucketRows} \subseteq Nat

VARIABLES
  memory,                       \* options.memory_limit_bytes
  by, from, until, width, origin,
  order, descending,            \* column to order by, direction
  stage,
  first_bucket, bucket_count,   \* groups made before the first row
  bucket, created,
  groups, group_capacity, slots, used,
  result,                       \* numbers of the groups, as they are returned
  consumed                          \* observation: key and value of the rows consumed

query == <<memory, by, from, until, width, origin>>
ordering == <<order, descending>>
buckets == <<first_bucket, bucket_count, bucket, created>>
arrays == <<groups, group_capacity, slots, used>>
group_vars == <<query, ordering, stage, buckets, arrays, result, consumed>>

-----------------------------------------------------------------------------
(* group_for.                                                              *)

Slot(n, k, step) == ((Hash[k] + step) % n) + 1

\* A table of slots with group number i, of key k, at its first free slot.
Entered(table, k, i) ==
  LET n == Len(table)
      free == {step \in 0 .. n - 1 : table[Slot(n, k, step)] = 0}
  IN [table EXCEPT ![Slot(n, k, Min(free))] = i]

\* The number of the group found for key k, 0 for none.
Found(k) ==
  LET n == Len(slots)
      stops == {step \in 0 .. n - 1 :
                  LET i == slots[Slot(n, k, step)] IN i = 0 \/ groups[i].key = k}
  IN IF n = 0 THEN 0 ELSE slots[Slot(n, k, Min(stops))]

NewCapacity ==
  LET doubled == IF group_capacity = 0 THEN FirstGroups ELSE 2 * group_capacity
  IN IF Len(groups) < group_capacity THEN group_capacity
     ELSE IF doubled > MaxGroups THEN MaxGroups ELSE doubled

NewSlotCount ==
  IF Len(slots) >= 2 * (Len(groups) + 1) THEN Len(slots)
  ELSE IF Len(slots) = 0 THEN FirstSlots ELSE 2 * Len(slots)

\* Mutant: a larger table is not filled from the old one.
NewSlotsEmpty ==
  IF NewSlotCount = Len(slots) THEN slots ELSE [i \in 1 .. NewSlotCount |-> 0]

\* The slots, rehashed if they are more.
NewSlots ==
  IF NewSlotCount = Len(slots) THEN slots
  ELSE FoldLeft(LAMBDA table, i : Entered(table, groups[i].key, i),
                [i \in 1 .. NewSlotCount |-> 0], [i \in 1 .. Len(groups) |-> i])

GroupCharge == (NewCapacity - group_capacity) * GroupBytes

\* While a table is rehashed the old one counts too.
SlotCharge == IF NewSlotCount = Len(slots) THEN 0 ELSE NewSlotCount * SlotBytes

UsedAfter ==
  used + GroupCharge + SlotCharge
  - (IF NewSlotCount = Len(slots) THEN 0 ELSE Len(slots) * SlotBytes)

NewGroup(k) ==
  [key |-> k, all |-> 0, count |-> 0, sum |-> Null, low |-> Null, high |-> Null]

-----------------------------------------------------------------------------
(* reduce.                                                                 *)

\* The guards against signed overflow.
Overflows(g, v) == (v > 0 /\ g.sum > MaxInt - v) \/ (v < 0 /\ g.sum < MinInt - v)

\* A null changes no aggregate but COUNT_ALL, the first value starts them all.
Reduced(g, v) ==
  IF v = Null THEN [g EXCEPT !.all = @ + 1]
  ELSE IF g.count = 0
  THEN [g EXCEPT !.all = @ + 1, !.count = 1, !.sum = v, !.low = v, !.high = v]
  ELSE [g EXCEPT !.all = @ + 1, !.count = @ + 1, !.sum = @ + v,
                 !.low = IF v < @ THEN v ELSE @, !.high = IF v > @ THEN v ELSE @]

Reducible(g, v) == v = Null \/ g.count = 0 \/ ~Overflows(g, v)

-----------------------------------------------------------------------------
(* wadb_query_compile, and wadb_query_execute up to the scan.              *)

\* An empty interval has no buckets; without any grouping there is one group.
Compile ==
  LET first == Floor(from, width, origin)
      last == Floor(until - 1, width, origin)
      intervals == (last - first) \div width
      plan(f, n) == /\ first_bucket' = f /\ bucket' = f /\ bucket_count' = n
                    /\ stage' = "create"
  IN /\ stage = "compile"
     /\ CASE by = "field" -> plan(0, 0)
          [] by = "nothing" -> plan(0, 1)
          [] by = "bucket" /\ from = until -> plan(0, 0)
          [] OTHER ->
               IF FloorDefined(from, width, origin)
                  /\ FloorDefined(until - 1, width, origin) /\ intervals < MaxBuckets
               THEN plan(first, intervals + 1)
               ELSE stage' = "failed" /\ UNCHANGED <<first_bucket, bucket_count, bucket>>
     /\ UNCHANGED <<query, ordering, created, arrays, result, consumed>>

\* Whether group_for may add a group, and the arrays after it has added g.
CanAdd ==
  /\ Len(groups) < MaxGroups
  /\ GroupCharge <= memory - used /\ SlotCharge <= memory - used - GroupCharge

Add(g) ==
  /\ groups' = Append(groups, g)
  /\ slots' = Entered(NewSlots, g.key, Len(groups) + 1)
  /\ group_capacity' = NewCapacity
  /\ used' = UsedAfter

\* The loop variable after the bucket just made.
Step == IF created + 1 < bucket_count THEN bucket + width ELSE bucket

CreateBucket ==
  /\ stage = "create" /\ created < bucket_count
  /\ IF Found(bucket) = 0 THEN CanAdd /\ Add(NewGroup(bucket)) ELSE UNCHANGED arrays
  /\ bucket' = Step /\ created' = created + 1
  /\ UNCHANGED <<query, ordering, stage, first_bucket, bucket_count, result, consumed>>

Scan ==
  /\ stage = "create" /\ created = bucket_count
  /\ stage' = "rows"
  /\ UNCHANGED <<query, ordering, buckets, arrays, result, consumed>>

\* Too many groups or too little memory for them, for the order or for the rows of
\* the result, an allocation that fails, a deadline.
GroupFails ==
  /\ stage \in {"create", "rows"}
  /\ stage' = "failed"
  /\ UNCHANGED <<query, ordering, buckets, arrays, result, consumed>>

-----------------------------------------------------------------------------
(* consume.                                                                *)

\* The keys that a row of the scan may have, and the times it may have.
RowKeys ==
  CASE by = "field" -> Key
    [] by = "nothing" -> {0}
    [] OTHER -> {Floor(t, width, origin) : t \in from .. until - 1}

MoreRows ==
  stage = "rows" /\ Len(consumed) < IF by = "bucket" THEN MaxBucketRows ELSE MaxRows

\* A row of a group that is there.
ReduceRow(k, v) ==
  LET i == Found(k) IN
  /\ MoreRows /\ i # 0
  /\ consumed' = Append(consumed, <<k, v>>)
  /\ IF Reducible(groups[i], v)
     THEN groups' = [groups EXCEPT ![i] = Reduced(@, v)] /\ UNCHANGED stage
     ELSE stage' = "failed" /\ UNCHANGED groups
  /\ UNCHANGED <<query, ordering, buckets, group_capacity, slots, used, result>>

\* The first row of a group.
AddGroup(k, v) ==
  /\ MoreRows /\ Found(k) = 0 /\ CanAdd
  /\ consumed' = Append(consumed, <<k, v>>)
  /\ Add(Reduced(NewGroup(k), v))
  /\ UNCHANGED <<query, ordering, stage, buckets, result>>

-----------------------------------------------------------------------------
(* emit_groups: a merge sort of group numbers, from runs of one upwards.   *)

Sign(a, b) == IF a < b THEN -1 ELSE IF a > b THEN 1 ELSE 0
Column(o, i) == IF o = "key" THEN groups[i].key ELSE groups[i].sum

\* compare_groups: nulls last in both directions, then the order of creation.
Compare(o, desc, a, b) ==
  LET va == Column(o, a)
      vb == Column(o, b)
      cmp == IF va = Null \/ vb = Null
             THEN (IF va = Null THEN 1 ELSE 0) - (IF vb = Null THEN 1 ELSE 0)
             ELSE IF desc THEN -Sign(va, vb) ELSE Sign(va, vb)
  IN IF cmp # 0 THEN cmp ELSE Sign(a, b)

RECURSIVE Merge(_, _, _, _)
Merge(o, desc, a, b) ==
  IF a = << >> THEN b
  ELSE IF b = << >> \/ Compare(o, desc, a[1], b[1]) <= 0
  THEN <<a[1]>> \o Merge(o, desc, Tail(a), b)
  ELSE <<b[1]>> \o Merge(o, desc, a, Tail(b))

\* One pass over runs of n.
RECURSIVE Pass(_, _, _, _)
Pass(o, desc, s, n) ==
  LET size == Len(s)
      mid == IF n < size THEN n ELSE size
      stop == IF 2 * n < size THEN 2 * n ELSE size
  IN IF size = 0 THEN << >>
     ELSE Merge(o, desc, SubSeq(s, 1, mid), SubSeq(s, mid + 1, stop))
            \o Pass(o, desc, SubSeq(s, stop + 1, size), n)

\* Mutant: the pass that would merge the last two runs is left out.
RECURSIVE SortedShort(_, _, _, _)
SortedShort(o, desc, s, n) ==
  IF o = "none" \/ 2 * n >= Len(s) THEN s
  ELSE SortedShort(o, desc, Pass(o, desc, s, n), 2 * n)

RECURSIVE Sorted(_, _, _, _)
Sorted(o, desc, s, n) ==
  IF o = "none" \/ n >= Len(s) THEN s
  ELSE Sorted(o, desc, Pass(o, desc, s, n), 2 * n)

\* The order takes two arrays.  The plan's order is chosen here, where it is
\* first looked at.
Emit(o, desc) ==
  LET n == Len(groups) IN
  /\ stage = "rows"
  /\ 2 * n * OrderBytes <= memory - used
  /\ order' = o /\ descending' = desc
  /\ result' = SubSeq(Sorted(o, desc, [i \in 1 .. n |-> i], 1), 1, Min({n, Limit}))
  /\ used' = used + 2 * n * OrderBytes
  /\ stage' = "done"
  /\ UNCHANGED <<query, buckets, groups, group_capacity, slots, consumed>>

GroupInit ==
  /\ memory \in Memories /\ order = "none" /\ descending = FALSE
  /\ \/ /\ by \in {"field", "nothing"}
        /\ from = 0 /\ until = 0 /\ width = 0 /\ origin = 0
     \/ /\ by = "bucket" /\ from \in Int64 /\ until \in from .. MaxInt
        /\ width \in 1 .. MaxInt /\ origin \in Int64
  /\ stage = "compile" /\ first_bucket = 0 /\ bucket_count = 0
  /\ bucket = 0 /\ created = 0
  /\ groups = << >> /\ group_capacity = 0 /\ slots = << >> /\ used = 0
  /\ result = << >> /\ consumed = << >>

GroupNext ==
  \/ Compile \/ CreateBucket \/ Scan \/ GroupFails
  \/ \E o \in {"none", "key", "sum"}, desc \in BOOLEAN : Emit(o, desc)
  \/ \E k \in RowKeys, v \in Value \cup {Null} : ReduceRow(k, v) \/ AddGroup(k, v)

GroupSpec == GroupInit /\ [][GroupNext]_group_vars

-----------------------------------------------------------------------------
(* Properties.                                                             *)

Aggregate == Int64 \cup {Null}

\* Type invariant.
GroupTypeOK ==
  /\ stage \in {"compile", "create", "rows", "done", "failed"} /\ used \in 0 .. memory
  /\ first_bucket \in Int64 /\ bucket \in Int64
  /\ bucket_count \in 0 .. MaxBuckets /\ created \in 0 .. bucket_count
  /\ groups \in Seq([key : Key \cup Int64, all : Nat, count : Nat,
                     sum : Aggregate, low : Aggregate, high : Aggregate])
  /\ slots \in Seq(0 .. MaxGroups) /\ group_capacity \in 0 .. MaxGroups

\* Once a plan with buckets was made, every row of the interval, at both ends of
\* the range and on both sides of zero and of the origin, falls into a group made
\* for it: the bucket that contains it and is aligned to the origin
\* (wadb_bucket_floor, wadb_query_compile, wadb_query_execute, consume).
RowsCovered ==
  stage = "rows" /\ by = "bucket" =>
    \A t \in from .. until - 1 :
      LET f == Floor(t, width, origin)
      IN /\ FloorDefined(t, width, origin)
         /\ f <= t /\ t < f + width /\ (f - origin) % width = 0
         /\ Found(f) # 0 /\ groups[Found(f)].key = f

\* The keys for which groups were asked, in order.
Keys == [i \in 1 .. created |-> first_bucket + (i - 1) * width]
        \o [i \in DOMAIN consumed |-> consumed[i][1]]

\* The rows of key k that have a value.
ValuesOf(k) == SelectSeq(consumed, LAMBDA r : r[1] = k /\ r[2] # Null)

\* However the hash table collided and grew, there is one group for each key, in
\* the order of first appearance, with the aggregates of exactly its rows; no sum
\* leaves the range of its type, no bucket was made that the interval does not
\* touch, and the memory charged is that of the two arrays, old ones given back
\* (group_for, charge, reduce, wadb_query_execute).
GroupsExact ==
  stage \in {"rows", "done"} =>
    /\ stage = "rows" => used = group_capacity * GroupBytes + Len(slots) * SlotBytes
    /\ Len(groups) = Cardinality(ToSet(Keys))
    /\ \A i \in DOMAIN groups :
         LET vs == ValuesOf(groups[i].key)
             at == {j \in DOMAIN Keys : Keys[j] = groups[i].key}
         IN /\ at # {}
            /\ \A h \in 1 .. i - 1 :
                 \E j \in DOMAIN Keys : j < Min(at) /\ Keys[j] = groups[h].key
            /\ by = "bucket" => groups[i].key < until /\ groups[i].key + width > from
            /\ groups[i].all = Len(SelectSeq(consumed, LAMBDA r : r[1] = groups[i].key))
            /\ groups[i].count = Len(vs)
            /\ Len(vs) > 0 =>
                 /\ groups[i].sum \in Int64
                 /\ groups[i].sum = FoldLeft(LAMBDA a, r : a + r[2], 0, vs)
                 /\ groups[i].low = Min({vs[j][2] : j \in DOMAIN vs})
                 /\ groups[i].high = Max({vs[j][2] : j \in DOMAIN vs})

\* The result is the first groups in the order asked for, nulls last in both
\* directions and equal values in the order of creation; no group that is left
\* out belongs before one that is returned (compare_groups, emit_groups).
ResultOrdered ==
  stage = "done" =>
    /\ Len(result) = Min({Len(groups), Limit})
    /\ \A i \in DOMAIN result : \A j \in DOMAIN groups \ {result[h] : h \in 1 .. i} :
         LET first == result[i]
             a == Column(order, first)
             b == Column(order, j)
         IN \/ (order = "none" \/ a = b) /\ first < j
            \/ /\ order # "none" /\ a # Null
               /\ b = Null \/ (IF descending THEN a > b ELSE a < b)

\* An aggregate query answers exactly: its buckets cover the rows, its groups
\* hold the right aggregates, and they come in the order asked for
\* (wadb_query_execute).
AggregatesExact == RowsCovered /\ GroupsExact /\ ResultOrdered
=============================================================================
