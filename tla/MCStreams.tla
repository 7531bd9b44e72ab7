------------------------------ MODULE MCStreams -----------------------------
(* Scripts for Streams: numbers at the edges of every width in every base, *)
(* pairs that are read back behind every kind of separator, and programs   *)
(* that poll a line on which a number or a word is still arriving.         *)
EXTENDS Streams

Unsigned(bits) == {x \in {0, 1, 9, 10, 99, 100, 127, 128, 255, 256, 9999, 10000, 2^(Bits - 1) - 1,
                          2^(Bits - 1), 2^Bits - 1} : x < 2^bits}
Signed(bits) == {signed(x, bits) : x \in Unsigned(bits)} \cup {-x : x \in Unsigned(bits - 1)}
Widths == {Narrow, Bits}
Numbers(kind, width, Values(_)) ==
  UNION {[kind : {kind}, bits : {w}, value : Values(w)] : w \in width}

Decimals == Numbers("int", Widths, Signed) \cup Numbers("int", Widths, Unsigned)
            \cup Numbers("uint", Widths, Unsigned) \cup [kind : {"int"}, bits : {2 * Bits}, value : {2^Bits + 7}]
Dumps == UNION {Numbers(k, Widths, Signed) : k \in {"hint", "cint"}}

Char(c) == [kind |-> "char", value |-> c]
Separators == {[kind |-> "newline"], Char(9), Char(32), Char(44)}
String(t) == [kind |-> "string", text |-> t]
Words == {String(<<97>>), String(<<97, 98>>), String(<<97, 45, 49>>)}

ReadInt == [op |-> "readInt"]
ReadString(maxLength) == [op |-> "readString", maxLength |-> maxLength]
Call(i) == IF i.kind = "string" THEN ReadString(4) ELSE ReadInt
Script(items, calls, waits) == [items |-> items, calls |-> calls, waits |-> waits]

Alone == {Script(<<i>>, <<ReadInt>>, TRUE) : i \in Decimals \cup Dumps}
Ends == {i \in Decimals : i.bits = Bits /\ i.value \in {0, 10, 9999, -1, -10, 2^(Bits - 1) - 1, -(2^(Bits - 1) - 1)}}
Pairs ==
  {Script(<<i, s, j>>, <<Call(i), Call(j)>>, TRUE) : i, j \in Ends, s \in Separators}
  \cup {Script(<<i, s, j>>, <<Call(i), Call(j)>>, TRUE) : i \in Words, j \in Words \cup Ends, s \in Separators \ {Char(44)}}

(* Numbers and words without a separator, in buffers that are too short.   *)
Unclear ==
  {Script(<<i, j>>, <<ReadInt, ReadInt>>, TRUE) : i \in Ends, j \in {e \in Ends : e.value < 10000} \cup Words}
  \cup {Script(<<i, s, j>>, <<ReadString(n), ReadString(n), ReadString(n)>>, TRUE) :
          i, j \in Words, s \in Separators, n \in 1 .. 3}

NumberItem(v) == [kind |-> "int", bits |-> Bits, value |-> v]
Polls ==
  {Script(<<NumberItem(v), s, NumberItem(-5)>>, <<ReadInt, ReadInt, ReadInt>>, FALSE) : v \in {-12, 30}, s \in Separators}
  \cup {Script(<<w, Char(32), NumberItem(-5)>>, <<ReadString(n), ReadString(n), ReadInt>>, FALSE) : w \in Words, n \in 2 .. 4}

MCScripts == Alone \cup Pairs \cup Unclear \cup Polls
=============================================================================
