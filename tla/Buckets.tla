------------------------------ MODULE Buckets -------------------------------
(***************************************************************************)
(* Time buckets: wadb_bucket_floor of src/query/plan.c, as operators.      *)
(*                                                                         *)
(* Signed 64-bit integers are MinInt .. MaxInt here, so that sums and      *)
(* differences reach both ends.  A bucket is `width' long and begins at a  *)
(* multiple of it from `origin'.                                           *)
(***************************************************************************)
EXTENDS Integers

CONSTANTS MinInt, MaxInt   \* INT64_MIN and INT64_MAX

ASSUME IntAssumption == MaxInt \in Nat /\ MinInt = -MaxInt - 1

Int64 == MinInt .. MaxInt

\* The remainder of C, which has the sign of the dividend.
Remainder(a, n) == IF a >= 0 THEN a % n ELSE -((-a) % n)
Modulus(a, n) == LET r == Remainder(a, n) IN IF r < 0 THEN r + n ELSE r

\* Mutant: a remainder below zero is taken as it is.
DistanceSigned(t, width, origin) ==
  LET a == Remainder(t, width)
      b == Remainder(origin, width)
  IN IF a >= b THEN a - b ELSE width - (b - a)

\* How far a time is from the start of its bucket.
Distance(t, width, origin) ==
  LET a == Modulus(t, width)
      b == Modulus(origin, width)
  IN IF a >= b THEN a - b ELSE width - (b - a)

\* The start of the bucket of a time, and whether it can be represented.
FloorDefined(t, width, origin) == ~(t < MinInt + Distance(t, width, origin))
Floor(t, width, origin) == t - Distance(t, width, origin)
=============================================================================
