------------------------------ MODULE RowCodec ------------------------------
(***************************************************************************)
(* The way of a row's values: from a JSON request into the bytes of a row, *)
(* and from the bytes into filters and the JSON answer.                    *)
(* Source: src/core/schema.c, the integers of src/core/encoding.c, the     *)
(* values of src/server/json.c, wadb_value_compare and the filters of      *)
(* src/query/plan.c, matches of query.c.                                   *)
(*                                                                         *)
(* A byte has ByteBits bits (8 in the code), a 64-bit word WordBytes bytes *)
(* and a 32-bit word ShortBytes.  The types between i8 and i64 differ from *)
(* these in width only, a uuid is a bytes field, and f64 copies its bits.  *)
(* Doubles are integers here, and floats those of them that are even.      *)
(* A character is its digit, "-" is Minus; a text's bytes 0 and 1 are      *)
(* one-byte characters, the others begin or continue a longer one.  The    *)
(* names of fields, checked for being distinct identifiers, are left out.  *)
(***************************************************************************)
EXTENDS Integers, Sequences, SequencesExt, FiniteSetsExt

CONSTANTS
  ByteBits, WordBytes, ShortBytes,
  MaxRowBytes,                  \* WADB_MAX_ROW_BYTES
  MaxSafe,                      \* JavaScript's largest exact integer
  MaxFloat,                     \* FLT_MAX
  MaxString,                    \* WADB_MAX_STRING_BYTES
  Minus,
  Symbols,                      \* the strings a dictionary has, by their IDs
  Definitions,                  \* sequences of field definitions
  Inputs,                       \* the JSON values sent for each type of field
  Times,                        \* values of _time
  NoValue, Refused, Damaged     \* a null; WADB_INVALID and WADB_CORRUPT

ASSUME CodecAssumption ==
  /\ {WordBytes, ShortBytes, ByteBits \div 2} \subseteq Nat \ {0} /\ ByteBits % 2 = 0
  /\ {MaxRowBytes, MaxSafe, MaxFloat, MaxString} \cup Times \subseteq Nat
  /\ Minus > 9

VARIABLES
  schema,                       \* << >> before the table is created
  given,                        \* JSON values of the row's fields, without _time
  at,                           \* its _time
  row,                          \* the row's bytes; << >> before it is encoded
  intact                        \* whether they are as encoded

codec_vars == <<schema, given, at, row, intact>>

Byte == 0 .. 2^ByteBits - 1
Bits(width) == 2^(width * ByteBits)
MaxWord == Bits(WordBytes) - 1
MaxSigned == MaxWord \div 2

Signed == {"i8", "i64"}
Unsigned == {"u8", "u64"}

-----------------------------------------------------------------------------
(* The layout of a row.                                                    *)

TypeWidth(d) ==
  CASE d.type \in {"i8", "u8", "bool"}   -> 1
    [] d.type \in {"i64", "u64"}         -> WordBytes
    [] d.type \in {"f32", "symbol"}      -> ShortBytes
    [] d.type = "bytes"                  -> d.size
    [] d.type = "text"                   -> d.size + ShortBytes

\* The schema of a table with these fields; fields[0] of the code, _time, is not
\* among the fields of the model: it has the first word of the row.
SchemaBuild(defs) ==
  LET n == Len(defs)
      sized(d) == d.type \in {"bytes", "text"}
      nullable(m) == Cardinality({i \in 1 .. m : defs[i].nullable})
      null_bytes == (nullable(n) + ByteBits - 1) \div ByteBits
      offset(i) == WordBytes + null_bytes
                     + FoldLeft(+, 0, [j \in 1 .. i - 1 |-> TypeWidth(defs[j])])
  IN IF \E i \in 1 .. n : \/ sized(defs[i]) # (defs[i].size > 0)
                          \/ TypeWidth(defs[i]) > MaxRowBytes - offset(i)
     THEN Refused
     ELSE [fields |-> [i \in 1 .. n |->
             [type |-> defs[i].type, size |-> defs[i].size, nullable |-> defs[i].nullable,
              offset |-> offset(i), width |-> TypeWidth(defs[i]),
              null_bit |-> nullable(i - 1)]],
           null_bytes |-> null_bytes,
           row_width |-> WordBytes * ((offset(n + 1) + WordBytes - 1) \div WordBytes)]

-----------------------------------------------------------------------------
(* Encoding.                                                               *)

\* The lowest bytes of a number, as of its 64-bit word.
Put(u, width) == [j \in 1 .. width |-> (u \div Bits(j - 1)) % Bits(1)]

Get(bytes, offset, width) ==
  MapThenSumSet(LAMBDA j : bytes[offset + j] * Bits(j - 1), 1 .. width)

\* The double nearest to x that a float holds.
Rounded(x) == 2 * (x \div 2)

\* wadb_utf8: a byte 2 begins a character of two bytes, a byte 3 ends one.
Utf8(s) ==
  \A i \in 1 .. Len(s) :
    /\ s[i] = 2 => i < Len(s) /\ s[i + 1] = 3
    /\ s[i] = 3 => i > 1 /\ s[i - 1] = 2

InRange(f, v) ==
  LET half == Bits(f.width) \div 2
  IN CASE f.type \in Signed   -> f.width < WordBytes => v \in -half .. half - 1
       [] f.type \in Unsigned -> f.width < WordBytes => v < Bits(f.width)
       [] f.type = "bool"     -> v < Bits(f.width) /\ v <= 1
       [] f.type = "f32"      -> v \in -MaxFloat .. MaxFloat
       [] f.type = "bytes"    -> Len(v) = f.width
       [] f.type = "text"     -> Len(v) <= f.size /\ Utf8(v)
       [] f.type = "symbol"   -> Len(v) <= MaxString /\ Utf8(v)

\* The bytes written at the field's offset.
EncodeField(f, v) ==
  CASE f.type = "f32"    -> Put(Rounded(v) \div 2, f.width)
    [] f.type = "bytes"  -> v
    [] f.type = "text"   -> Put(Len(v), ShortBytes) \o v
    [] f.type = "symbol" -> Put(CHOOSE id \in DOMAIN Symbols : Symbols[id] = v, f.width)
    [] OTHER             -> Put(v, f.width)

EncodeRow(s, values, t) ==
  LET n == Len(s.fields)
      nulls == {i \in 1 .. n : values[i] = NoValue}
      bytes == [i \in 1 .. n |->
                  IF i \in nulls THEN << >> ELSE EncodeField(s.fields[i], values[i])]
      bits(b) == {s.fields[i].null_bit % ByteBits :
                    i \in {k \in nulls : s.fields[k].null_bit \div ByteBits = b}}
      holder(p) == {i \in 1 .. n : p - s.fields[i].offset \in 1 .. Len(bytes[i])}
      byte(p) ==
        IF p <= WordBytes THEN Put(t, WordBytes)[p]
        ELSE IF p <= WordBytes + s.null_bytes
             THEN MapThenSumSet(LAMBDA b : 2^b, bits(p - WordBytes - 1))
             ELSE MapThenSumSet(LAMBDA i : bytes[i][p - s.fields[i].offset], holder(p))
  IN IF \E i \in 1 .. n : IF i \in nulls THEN ~s.fields[i].nullable
                                         ELSE ~InRange(s.fields[i], values[i])
     THEN Refused
     ELSE [p \in 1 .. s.row_width |-> byte(p)]

-----------------------------------------------------------------------------
(* Decoding.                                                               *)

IsNull(f, bytes) ==
  f.nullable /\ (bytes[WordBytes + f.null_bit \div ByteBits + 1]
                   \div 2^(f.null_bit % ByteBits)) % 2 = 1

\* A number of a signed type, from its bits.
FromBits(u, width) ==
  IF u >= Bits(width) \div 2 THEN -1 - ((Bits(width) - 1) - u) ELSE u

DecodeValue(f, bytes) ==
  LET u == Get(bytes, f.offset, f.width)
      length == Get(bytes, f.offset, ShortBytes)
      text == SubSeq(bytes, f.offset + ShortBytes + 1, f.offset + ShortBytes + length)
  IN IF IsNull(f, bytes) THEN NoValue
     ELSE CASE f.type \in Signed   -> FromBits(u, f.width)
            [] f.type \in Unsigned -> u
            [] f.type = "bool"     -> IF u > 1 THEN Damaged ELSE u
            [] f.type = "f32"      -> IF 2 * FromBits(u, f.width) \in -MaxFloat .. MaxFloat
                                      THEN 2 * FromBits(u, f.width) ELSE Damaged
            [] f.type = "bytes"    -> SubSeq(bytes, f.offset + 1, f.offset + f.width)
            [] f.type = "text"     -> IF length <= f.size /\ Utf8(text) THEN text ELSE Damaged
            [] f.type = "symbol"   -> IF u \in DOMAIN Symbols THEN Symbols[u] ELSE Damaged

DecodeRow(s, bytes) == [i \in DOMAIN s.fields |-> DecodeValue(s.fields[i], bytes)]

\* The bytes of field f that hold nothing.
Padding(f, v) ==
  LET start == IF v = NoValue THEN 0
               ELSE IF f.type = "text" THEN ShortBytes + Len(v) ELSE f.width
  IN f.offset + start + 1 .. f.offset + f.width

\* Mutant: the bits of the bitmap that belong to no field are not looked at.
ValidateRowFields(s, bytes) ==
  LET values == DecodeRow(s, bytes)
      last == IF s.fields = << >> THEN WordBytes
              ELSE Last(s.fields).offset + Last(s.fields).width
  IN /\ \A i \in DOMAIN s.fields :
          /\ values[i] # Damaged
          /\ \A p \in Padding(s.fields[i], values[i]) : bytes[p] = 0
     /\ \A p \in last + 1 .. s.row_width : bytes[p] = 0

ValidateRow(s, bytes) ==
  LET values == DecodeRow(s, bytes)
      nullable == Cardinality({i \in DOMAIN s.fields : s.fields[i].nullable})
      last == IF s.fields = << >> THEN WordBytes
              ELSE Last(s.fields).offset + Last(s.fields).width
  IN /\ \A i \in DOMAIN s.fields :
          /\ values[i] # Damaged
          /\ \A p \in Padding(s.fields[i], values[i]) : bytes[p] = 0
     /\ nullable % ByteBits # 0 =>
          bytes[WordBytes + s.null_bytes] < 2^(nullable % ByteBits)
     /\ \A p \in last + 1 .. s.row_width : bytes[p] = 0

-----------------------------------------------------------------------------
(* JSON values: <<"null">>, also for a field left out, <<"bool", 0 or 1>>, *)
(* <<"integer", n>>, <<"real", x>> and <<"string", characters>>.           *)

\* snprintf of a number.
Decimal[n \in Nat] == IF n < 10 THEN <<n>> ELSE Append(Decimal[n \div 10], n % 10)
SignedDecimal(n) == IF n < 0 THEN <<Minus>> \o Decimal[-n] ELSE Decimal[n]

DecimalU64(s) ==
  LET digit(value, d) ==
        IF value = Refused \/ d > 9 \/ value > (MaxWord - d) \div 10
        THEN Refused ELSE value * 10 + d
  IN IF Len(s) \in 1 .. Len(Decimal[MaxWord]) THEN FoldLeft(digit, 0, s) ELSE Refused

JsonU64(j) ==
  CASE j[1] = "integer" -> IF j[2] \in 0 .. MaxSafe THEN j[2] ELSE Refused
    [] j[1] = "string"  -> DecimalU64(j[2])
    [] OTHER            -> Refused

JsonI64(j) ==
  LET negative == j[2] # << >> /\ j[2][1] = Minus
      value == DecimalU64(IF negative THEN Tail(j[2]) ELSE j[2])
  IN CASE j[1] = "integer" -> IF j[2] \in -MaxSafe .. MaxSafe THEN j[2] ELSE Refused
       [] j[1] = "string"  ->
            IF value = Refused \/ value > MaxSigned + (IF negative THEN 1 ELSE 0)
            THEN Refused ELSE IF negative THEN -value ELSE value
       [] OTHER            -> Refused

\* The bytes that pairs of hexadecimal digits stand for.
Nibble == 2^(ByteBits \div 2)
FromHex(s) == [i \in 1 .. Len(s) \div 2 |-> s[2 * i - 1] * Nibble + s[2 * i]]
ToHex(bytes) == [i \in 1 .. 2 * Len(bytes) |->
                   IF i % 2 = 1 THEN bytes[(i + 1) \div 2] \div Nibble
                                ELSE bytes[i \div 2] % Nibble]

JsonValue(f, j) ==
  IF j[1] = "null" THEN IF f.nullable THEN NoValue ELSE Refused
  ELSE CASE f.type \in Signed             -> JsonI64(j)
         [] f.type \in Unsigned           -> JsonU64(j)
         [] f.type = "bool"               -> IF j[1] = "bool" THEN j[2] ELSE Refused
         [] f.type = "f32"                -> IF j[1] \in {"integer", "real"}
                                             THEN j[2] ELSE Refused
         [] f.type \in {"text", "symbol"} -> IF j[1] = "string" THEN j[2] ELSE Refused
         [] f.type = "bytes"              ->
              IF j[1] = "string" /\ Len(j[2]) = 2 * f.width
                 /\ \A i \in DOMAIN j[2] : j[2][i] < Nibble
              THEN FromHex(j[2]) ELSE Refused

JsonEncodeValue(f, v) ==
  IF v = NoValue THEN <<"null">>
  ELSE CASE f.type \in {"i64", "u64"}     -> <<"string", SignedDecimal(v)>>
         [] f.type \in {"i8", "u8"}       -> <<"integer", v>>
         [] f.type = "bool"               -> <<"bool", v>>
         [] f.type = "f32"                -> <<"real", v>>
         [] f.type \in {"text", "symbol"} -> <<"string", v>>
         [] f.type = "bytes"              -> <<"string", ToHex(v)>>

-----------------------------------------------------------------------------
(* Filters on a field.                                                     *)

Comparison == {"eq", "ne", "lt", "le", "gt", "ge"}

\* wadb_value_compare of two values that are not null: memcmp, then the lengths.
Below(f, a, b) ==
  IF f.type \in {"bytes", "text", "symbol"}
  THEN LET common == 1 .. IF Len(a) < Len(b) THEN Len(a) ELSE Len(b)
           differ == {i \in common : a[i] # b[i]}
       IN IF differ = {} THEN Len(a) < Len(b) ELSE a[Min(differ)] < b[Min(differ)]
  ELSE a < b

\* Mutant: the constant is compared as it came.
FilterValueExact(f, j) ==
  LET v == JsonValue(f, j)
  IN IF v \in {NoValue, Refused} THEN Refused ELSE IF InRange(f, v) THEN v ELSE Refused

\* The value a filter compares with, as the plan keeps it.
FilterValue(f, j) ==
  LET v == JsonValue(f, j)
  IN IF v \in {NoValue, Refused} THEN Refused
     ELSE IF ~InRange(f, v) THEN Refused
     ELSE IF f.type = "f32" THEN Rounded(v) ELSE v

Matches(f, op, v, constant) ==
  CASE op = "is_null"     -> v = NoValue
    [] op = "is_not_null" -> v # NoValue
    [] OTHER ->
         /\ v # NoValue
         /\ CASE op = "eq" -> ~Below(f, v, constant) /\ ~Below(f, constant, v)
              [] op = "ne" -> Below(f, v, constant) \/ Below(f, constant, v)
              [] op = "lt" -> Below(f, v, constant)
              [] op = "le" -> ~Below(f, constant, v)
              [] op = "gt" -> Below(f, constant, v)
              [] op = "ge" -> ~Below(f, v, constant)

-----------------------------------------------------------------------------
CreateTable(defs) ==
  /\ schema = << >>
  /\ schema' = SchemaBuild(defs)
  /\ UNCHANGED <<given, at, row, intact>>

ReceiveValue(j) ==
  /\ row = << >>
  /\ given' = Append(given, j)
  /\ UNCHANGED <<schema, at, row, intact>>

\* The request has a value for every field: the row is encoded, and stamped with
\* its time when it is committed.
AppendRow(t) ==
  LET f == schema.fields
      values == [i \in DOMAIN f |-> JsonValue(f[i], given[i])]
  IN /\ row = << >> /\ Len(given) = Len(f)
     /\ row' = IF \E i \in DOMAIN f : values[i] = Refused THEN Refused
               ELSE EncodeRow(schema, values, t)
     /\ at' = t
     /\ UNCHANGED <<schema, given, intact>>

\* The bytes a recovery finds may be any bytes whose frame has a right checksum.
DamageByte(p, b) ==
  /\ row \notin {<< >>, Refused} /\ intact
  /\ row[p] # b
  /\ row' = [row EXCEPT ![p] = b]
  /\ intact' = FALSE
  /\ UNCHANGED <<schema, given, at>>

CodecInit == schema = << >> /\ given = << >> /\ at = 0 /\ row = << >> /\ intact = TRUE

CodecNext ==
  \/ \E defs \in Definitions : CreateTable(defs)
  \/ /\ schema \notin {<< >>, Refused}
     /\ \/ /\ Len(given) < Len(schema.fields)
           /\ \E j \in Inputs[schema.fields[Len(given) + 1].type] : ReceiveValue(j)
        \/ \E t \in Times : AppendRow(t)
        \/ \E p \in 1 .. schema.row_width, b \in Byte : DamageByte(p, b)

-----------------------------------------------------------------------------
(* What a request means, without the steps of the code.                    *)

Magnitude(s) == MapThenSumSet(LAMBDA i : s[i] * 10^(Len(s) - i), DOMAIN s)

\* The integer that j stands for.
IntegerMeant(j) ==
  LET digits == SelectSeq(j[2], LAMBDA c : c # Minus)
      short == Len(digits) \in 1 .. Len(Decimal[MaxWord])
  IN CASE j[1] = "integer" /\ j[2] \in -MaxSafe .. MaxSafe            -> j[2]
       [] j[1] = "string" /\ short /\ j[2] = digits               -> Magnitude(digits)
       [] j[1] = "string" /\ short /\ j[2] = <<Minus>> \o digits  -> -Magnitude(digits)
       [] OTHER                                                  -> Refused

\* The value that j stands for in field f, Refused when the field cannot hold it.
Meant(f, j) ==
  LET n == IntegerMeant(j)
      bound == Bits(f.width)
  IN CASE j[1] = "null" -> IF f.nullable THEN NoValue ELSE Refused
       [] j[1] # "null" /\ f.type \in Signed ->
            IF n # Refused /\ n \in -(bound \div 2) .. bound \div 2 - 1 THEN n ELSE Refused
       [] j[1] # "null" /\ f.type \in Unsigned ->
            IF n # Refused /\ n \in 0 .. bound - 1 /\ (j[1] = "string" => j[2][1] # Minus)
            THEN n ELSE Refused
       [] j[1] = "bool" /\ f.type = "bool" -> j[2]
       [] j[1] \in {"integer", "real"} /\ f.type = "f32" ->
            IF j[2] \in -MaxFloat .. MaxFloat THEN Rounded(j[2]) ELSE Refused
       [] j[1] = "string" /\ f.type \in {"text", "symbol"} ->
            IF Utf8(j[2]) /\ Len(j[2]) <= (IF f.type = "text" THEN f.size ELSE MaxString)
            THEN j[2] ELSE Refused
       [] j[1] = "string" /\ f.type = "bytes" ->
            IF Len(j[2]) = 2 * f.width /\ \A i \in DOMAIN j[2] : j[2][i] < Nibble
            THEN [i \in 1 .. f.width |-> j[2][2 * i - 1] * Nibble + j[2][2 * i]]
            ELSE Refused
       [] OTHER -> Refused

\* Values of field f in order; strings as in a dictionary.
Precedes(f, a, b) ==
  IF f.type \in {"bytes", "text", "symbol"}
  THEN \/ IsStrictPrefix(a, b)
       \/ \E i \in DOMAIN a \cap DOMAIN b :
            SubSeq(a, 1, i - 1) = SubSeq(b, 1, i - 1) /\ a[i] < b[i]
  ELSE a < b

\* What the comparison op says of a value and a constant; nothing of a null.
Compares(f, op, v, c) ==
  /\ v # NoValue
  /\ \/ op \in {"eq", "le", "ge"} /\ v = c
     \/ op \in {"ne", "lt", "le"} /\ Precedes(f, v, c)
     \/ op \in {"ne", "gt", "ge"} /\ Precedes(f, c, v)

(* A row is refused if and only if some field cannot hold the value sent   *)
(* for it.  Otherwise recovery accepts its bytes, each field reads back as *)
(* the value sent, whatever its neighbours are, the JSON answer sent back  *)
(* as a request gives the same value again, and each comparison of a       *)
(* filter selects the row just when it holds of the value sent and the one *)
(* that its constant stands for, and of no null.                           *)
(* (wadb_json_value, wadb_encode_row, wadb_decode_value and                *)
(* wadb_json_encode_value; the rounding of wadb_query_compile.)            *)
RowsExact ==
  row # << >> /\ intact =>
    LET f == schema.fields
        meant == [i \in DOMAIN f |-> Meant(f[i], given[i])]
    IN IF \E i \in DOMAIN f : meant[i] = Refused
       THEN row = Refused
       ELSE /\ row # Refused
            /\ ValidateRow(schema, row)
            /\ DecodeRow(schema, row) = meant
            /\ FromBits(Get(row, 0, WordBytes), WordBytes) = at
            /\ \A i \in DOMAIN f :
                 /\ JsonValue(f[i], JsonEncodeValue(f[i], meant[i])) = meant[i]
                 /\ Matches(f[i], "is_null", meant[i], NoValue)
                      # Matches(f[i], "is_not_null", meant[i], NoValue)
                 /\ \A j \in Inputs[f[i].type] :
                      LET c == FilterValue(f[i], j)
                      IN c # Refused =>
                           \A op \in Comparison :
                             Matches(f[i], op, meant[i], c)
                               <=> Compares(f[i], op, meant[i], Meant(f[i], j))

(* A row that recovery accepts is, byte for byte, the one that encoding    *)
(* its values gives: no stray null bit, padding or length gets through.    *)
(* (wadb_validate_row.)                                                    *)
CanonicalRows ==
  row \notin {<< >>, Refused} /\ ValidateRow(schema, row) =>
    row = EncodeRow(schema, DecodeRow(schema, row),
                    FromBits(Get(row, 0, WordBytes), WordBytes))
=============================================================================
