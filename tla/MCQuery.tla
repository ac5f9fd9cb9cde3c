------------------------------ MODULE MCQuery -------------------------------
(***************************************************************************)
(* Small instances of a query (src/query): the bytes of its rows and the   *)
(* values it filters them by, RowCodec; the rows it returns, Scan; the     *)
(* aggregates it makes of the rows of a scan, one by one, Grouping.  No    *)
(* part looks at the state of another, so two rest while the third runs.   *)
(***************************************************************************)
EXTENDS Scan, Grouping, RowCodec

MCKey == {1, 2, 3, Null}
MCValue == {-2, 2}
MCMinInt == -5

\* All but one key collide, and their probes wrap around a table of four; buckets
\* collide as they come.
MCHash == [k \in MCKey \cup (-5 .. 4) |->
             IF k = Null THEN 3 ELSE IF k = 2 THEN 0 ELSE IF k \in {1, 3} THEN 3 ELSE 2 * (k + 5)]

\* Rows of two fields, one of them of any type and the other a boolean or a text,
\* and one whose null bits take more than one byte.
Definition(type, size, nullable) == [type |-> type, size |-> size, nullable |-> nullable]
MCDefinitions ==
  LET any == {Definition(t, 0, n) : n \in BOOLEAN,
                t \in {"i8", "u8", "i64", "u64", "bool", "f32", "symbol", "text"}}
        \cup {Definition(t, z, n) : t \in {"bytes", "text"}, z \in {1, 2, 9}, n \in BOOLEAN}
        \cup {Definition("bool", 1, FALSE)}
      other == {Definition("bool", 0, TRUE), Definition("text", 2, TRUE),
                Definition("text", 1, FALSE)}
  IN {<< >>} \cup {<<a, b>> : a \in any, b \in other} \cup {<<b, a>> : a \in any, b \in other}
       \cup {<<Definition("bool", 0, TRUE), Definition("text", 1, TRUE),
               Definition("bool", 0, TRUE)>>}

\* Integers and decimal strings on both sides of every bound, strings cut inside
\* a character, and values of another type.
MCInputs ==
  LET strings(set) == {<<"string", s>> : s \in set}
      integer == {<<"integer", n>> : n \in {-6, -5, -3, -2, 1, 3, 4, 5, 6}}
        \cup strings({<< >>, <<0>>, <<7>>, <<8>>, <<1, 5>>, <<1, 6>>, <<10>>,
                      <<10, 0>>, <<10, 8>>, <<10, 9>>, <<1, 10>>, <<0, 0, 3>>})
  IN [type \in {"i8", "u8", "i64", "u64", "bool", "f32", "symbol", "bytes", "text"} |->
        {<<"null">>} \cup
        CASE type \in {"i8", "u8", "i64", "u64"} -> integer
          [] type = "bool"   -> {<<"bool", 0>>, <<"bool", 1>>, <<"integer", 1>>}
          [] type = "f32"    -> {<<"real", x>> : x \in -3 .. 3}
                                  \cup {<<"integer", 1>>, <<"integer", 4>>, <<"bool", 1>>}
          [] type = "symbol" -> strings({<<0>>, <<2, 3>>, <<2>>, <<1, 2, 3>>})
          [] type = "bytes"  -> strings({<< >>, <<0, 1>>, <<1, 1>>, <<0, 2>>,
                                         <<1, 0, 0, 1>>, <<1, 1, 0, 0>>})
          [] type = "text"   -> strings({<< >>, <<1>>, <<0, 1>>, <<2, 3>>, <<2>>,
                                         <<1, 2, 3>>})]
MCSymbols == <<<<0>>, <<2, 3>>>>

ScanRests ==
  /\ segments = << >> /\ time = [r \in Row |-> 0] /\ start = 0 /\ end = 0 /\ first_after = 0
  /\ budget = 0 /\ snapshot = << >> /\ after = 0 /\ pc = "rest" /\ segment = 1
  /\ position = 1 /\ bytes_scanned = 0 /\ rebuilt = FALSE /\ rows = << >>
  /\ delivered = << >>

GroupRests ==
  /\ memory = 0 /\ by = "nothing" /\ from = 0 /\ until = 0 /\ width = 0 /\ origin = 0
  /\ order = "none" /\ descending = FALSE /\ stage = "rest"
  /\ first_bucket = 0 /\ bucket_count = 0 /\ bucket = 0 /\ created = 0
  /\ groups = << >> /\ group_capacity = 0 /\ slots = << >> /\ used = 0
  /\ result = << >> /\ consumed = << >>

CodecRests == schema = Refused /\ given = << >> /\ at = 0 /\ row = << >> /\ intact = TRUE

QueryInit ==
  \/ ScanInit /\ GroupRests /\ CodecRests
  \/ GroupInit /\ ScanRests /\ CodecRests
  \/ CodecInit /\ ScanRests /\ GroupRests

QueryNext ==
  \/ ScanNext /\ UNCHANGED <<group_vars, codec_vars>>
  \/ GroupNext /\ UNCHANGED <<scan_vars, codec_vars>>
  \/ CodecNext /\ UNCHANGED <<scan_vars, group_vars>>

QuerySpec == QueryInit /\ [][QueryNext]_<<scan_vars, group_vars, codec_vars>>
=============================================================================
