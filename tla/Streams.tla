------------------------------- MODULE Streams ------------------------------
(***************************************************************************)
(* Numbers and strings written to a character device (COutDevice,          *)
(* coutdevice.h) and read from another one at the end of its line          *)
(* (CInDevice, cindevice.h), one character at a time: get does not wait,   *)
(* so that a reader may find the line empty in the middle of a number.     *)
(*                                                                         *)
(* Characters are their codes.  Bits is the width of int32_t, Narrow that  *)
(* of the smaller types, which are converted to int32_t to save space.     *)
(***************************************************************************)
EXTENDS Integers, Sequences

CONSTANTS
  Bits, Narrow, \* the widths
  Depth,        \* characters that the transmitter and the line hold
  Scripts       \* what is written, what is called to read it, and when

ASSUME WidthAssumption ==
  Narrow < Bits /\ \A b \in {Bits, Narrow} : b \in Nat \ {0} /\ b % 8 = 0

VARIABLES
  script,              \* the script that runs
  entry, text,         \* writer: the item it is at, what is left to put of it
  begins,              \* where each item begins in what was sent
  sent, arrived, taken,  \* the line: all that was put, and how much arrived and was got
  call, reading, from, \* reader: which call, where it is, where it began
  neg, val, found,     \* readInt: the sign, the number, whether there was a digit
  word,                \* readString: what it has stored
  results              \* what the calls returned, and what they got

writer == <<entry, text, begins, sent>>
reader == <<call, reading, from, neg, val, found, word, results, taken>>
streamVars == <<script, writer, arrived, reader>>

Zero == 48
Minus == 45
Hexadecimal == <<Zero, 120>>   \* 0x
Whitespace == {32, 10, 13, 9}
Number == Zero .. Zero + 9

(* How many numbers have w bits, and such a number in two's complement.    *)
Pow2(w) ==
  LET two[n \in 0 .. w] == IF n = 0 THEN 1 ELSE 2 * two[n - 1] IN two[w]
signed(x, w) == LET m == x % Pow2(w) IN IF m < Pow2(w - 1) THEN m ELSE m - Pow2(w)

(* The items of a script are numbers of a type, which decimal devices take *)
(* up to Bits wide and others at most so, characters and strings; a buffer *)
(* has room for a zero.                                                    *)
Character == 0 .. 255
IsNumber(i) ==
  /\ i.value \in Int /\ i.bits \in Nat \ {0} /\ i.bits % 8 = 0
  /\ i.kind \in {"hint", "cint"} => i.bits <= Bits
  /\ i.kind \in {"int", "uint"} /\ i.bits <= Bits =>
       i.value < Pow2(i.bits) /\ i.value >= (IF i.kind = "int" THEN -Pow2(i.bits - 1) ELSE 0)
IsItem(i) ==
  \/ i.kind \in {"int", "uint", "hint", "cint"} /\ IsNumber(i)
  \/ i.kind = "string" /\ i.text \in Seq(Character)
  \/ i.kind = "char" /\ i.value \in Character
  \/ i.kind = "newline"
IsCall(c) == c.op = "readInt" \/ (c.op = "readString" /\ c.maxLength \in 1 .. 255)
ASSUME ScriptsAssumption == \A s \in Scripts :
  /\ s.waits \in BOOLEAN /\ Len(s.items) \in Nat /\ Len(s.calls) \in Nat
  /\ \A k \in 1 .. Len(s.items) : IsItem(s.items[k])
  /\ \A k \in 1 .. Len(s.calls) : IsCall(s.calls[k])

StreamInit ==
  /\ script \in Scripts
  /\ entry = 1 /\ text = <<>> /\ begins = <<>>
  /\ sent = <<>> /\ arrived = 0 /\ taken = 0
  /\ call = 1 /\ reading = "idle" /\ from = 0
  /\ neg = FALSE /\ val = 0 /\ found = FALSE /\ word = <<>> /\ results = <<>>

-----------------------------------------------------------------------------
(* Division and remainder as C has them, towards zero.                     *)
Tenth(d) == IF d < 0 THEN -((-d) \div 10) ELSE d \div 10
Remainder(d) == d - 10 * Tenth(d)

(* The digits that the loops of writeInt and writeUInt find, last first.   *)
digits(d) ==
  LET of[n \in -Pow2(Bits) .. Pow2(Bits)] ==
        IF n = 0 THEN <<>> ELSE Append(of[Tenth(n)], Zero + Remainder(n))
  IN  of[d]

(* A number of another width than int32_t is converted to it; the sign is  *)
(* turned in the width of the type, and an unsigned one is never negative. *)
writeInt(n, bits) ==
  LET d == IF bits = Bits THEN n ELSE signed(n, Bits)
  IN  CASE d = 0 -> <<Zero>>
        [] d < 0 -> <<Minus>> \o digits(signed(-d, Bits))
        [] d > 0 -> digits(d)

writeUInt(n, bits) ==
  CASE bits # Bits          -> writeInt(signed(n, Bits), Bits)
    [] bits = Bits /\ n = 0 -> <<Zero>>
    [] OTHER                -> digits(n)

(* Byte i of a number, the lowest one first, and its two digits.           *)
byte(d, i) == (d \div Pow2(8 * (i - 1))) % 256
\* Mutant: ten is written as a digit.
hexTen(h) == IF h > 10 THEN 97 + h - 10 ELSE Zero + h

hex(h) == IF h > 9 THEN 97 + h - 10 ELSE Zero + h
_write1HInt(b) == <<hex(b \div 16), hex(b % 16)>>

(* Both write the bytes downwards; in two digits, or as they are.          *)
writeCInt(d, length) == [k \in 1 .. length |-> byte(d, length + 1 - k)]
writeHInt(d, length) ==
  Hexadecimal \o [k \in 1 .. 2 * length |->
                    _write1HInt(writeCInt(d, length)[(k + 1) \div 2])[2 - (k % 2)]]

(* The operators << of COutDevice, for the base of the device.             *)
written(i) ==
  CASE i.kind = "string"  -> i.text
    [] i.kind = "char"    -> <<i.value>>
    [] i.kind = "newline" -> <<10, 13>>
    [] i.kind = "int"     -> writeInt(i.value, i.bits)
    [] i.kind = "uint"    -> writeUInt(i.value, i.bits)
    [] i.kind = "hint"    -> writeHInt(i.value % Pow2(i.bits), i.bits \div 8)
    [] i.kind = "cint"    -> writeCInt(i.value % Pow2(i.bits), i.bits \div 8)

Write ==
  /\ text = <<>> /\ entry <= Len(script.items)
  /\ text' = written(script.items[entry]) /\ entry' = entry + 1
  /\ begins' = Append(begins, Len(sent))
  /\ UNCHANGED <<script, sent, arrived, reader>>

(* SecOut::put: wait for the device, and give it the character.            *)
secPut ==
  /\ text # <<>> /\ Len(sent) - arrived < Depth
  /\ sent' = Append(sent, Head(text)) /\ text' = Tail(text)
  /\ UNCHANGED <<script, entry, begins, arrived, reader>>

Arrive ==
  /\ arrived < Len(sent) /\ arrived' = arrived + 1
  /\ UNCHANGED <<script, writer, reader>>

-----------------------------------------------------------------------------
(* BaseClass::get: a character, if one has arrived.                        *)
get(c) == taken < arrived /\ c = sent[taken + 1] /\ taken' = taken + 1
noneYet == taken = arrived /\ UNCHANGED taken

Op == script.calls[call].op
Calling(op) == reading # "idle" /\ Op = op

(* Mutant: the number of the last call is not forgotten.                   *)
BeginKept ==
  /\ reading = "idle" /\ call <= Len(script.calls)
  /\ script.waits => entry > Len(script.items) /\ text = <<>> /\ arrived = Len(sent)
  /\ reading' = "whitespace" /\ from' = taken
  /\ neg' = FALSE /\ found' = FALSE /\ word' = <<>>
  /\ UNCHANGED <<script, writer, arrived, call, val, results, taken>>

(* A call begins; a program that waits has all of the script before it.    *)
Begin ==
  /\ reading = "idle" /\ call <= Len(script.calls)
  /\ script.waits => entry > Len(script.items) /\ text = <<>> /\ arrived = Len(sent)
  /\ reading' = "whitespace" /\ from' = taken
  /\ neg' = FALSE /\ val' = 0 /\ found' = FALSE /\ word' = <<>>
  /\ UNCHANGED <<script, writer, arrived, call, results, taken>>

(* A call returns: the number with its sign, or the word; dry says that    *)
(* it found no character any more.                                         *)
Return(dry) ==
  /\ results' = Append(results, [val |-> IF neg THEN signed(-val, Bits) ELSE val, found |-> found,
                                 word |-> word, from |-> from, to |-> taken', dry |-> dry])
  /\ reading' = "idle" /\ call' = call + 1
  /\ UNCHANGED <<neg, val, found, word>>

runDry ==
  /\ reading # "idle" /\ noneYet /\ Return(TRUE)
  /\ UNCHANGED <<script, writer, arrived, from>>

(* Both calls eat the whitespace before what they look for.                *)
eatWhitespace ==
  /\ reading = "whitespace" /\ \E c \in Whitespace : get(c)
  /\ UNCHANGED <<script, writer, arrived, call, reading, from, neg, val, found, word, results>>

(* readInt with the character that get gave it: the sign, a digit, or the  *)
(* end of the number.                                                      *)
readSign ==
  /\ Calling("readInt") /\ reading = "whitespace" /\ get(Minus)
  /\ neg' = TRUE /\ reading' = "number"
  /\ UNCHANGED <<script, writer, arrived, call, from, val, found, word, results>>

readDigit ==
  /\ Calling("readInt")
  /\ \E c \in Number : get(c) /\ val' = signed(val * 10 + (c - Zero), Bits)
  /\ found' = TRUE /\ reading' = "number"
  /\ UNCHANGED <<script, writer, arrived, call, from, neg, word, results>>

readEnd ==
  /\ Calling("readInt") /\ taken < arrived
  /\ LET c == sent[taken + 1]
     IN  c \notin Number /\ (reading = "whitespace" => c \notin Whitespace \cup {Minus}) /\ get(c)
  /\ Return(FALSE)
  /\ UNCHANGED <<script, writer, arrived, from>>

(* Mutant: the terminating zero has no room.                               *)
roomForAll(maxLength) == maxLength

(* readString: the room, without the terminating zero, is counted in       *)
(* uint8_t.                                                                *)
room(maxLength) == (maxLength - 1) % 256

readChar ==
  /\ Calling("readString") /\ taken < arrived /\ Len(word) < room(script.calls[call].maxLength)
  /\ LET c == sent[taken + 1]
     IN  c \notin Whitespace /\ get(c) /\ word' = Append(word, c)
  /\ reading' = "word"
  /\ UNCHANGED <<script, writer, arrived, call, from, neg, val, found, results>>

(* The word ends at a whitespace, or at the end of the buffer.             *)
readWordEnd ==
  /\ Calling("readString") /\ taken < arrived
  /\ LET c == sent[taken + 1]
     IN  /\ c \in Whitespace => reading = "word"
         /\ c \in Whitespace \/ Len(word) >= room(script.calls[call].maxLength)
         /\ get(c)
  /\ Return(FALSE)
  /\ UNCHANGED <<script, writer, arrived, from>>

StreamNext ==
  \/ Write \/ secPut \/ Arrive
  \/ Begin \/ runDry \/ eatWhitespace
  \/ readSign \/ readDigit \/ readEnd
  \/ readChar \/ readWordEnd

StreamSpec == StreamInit /\ [][StreamNext]_streamVars

-----------------------------------------------------------------------------
(* What a text means, as a number in a base; with 256, a character is a    *)
(* digit.                                                                  *)
DigitOf(c, base) ==
  CASE base = 256                 -> c
    [] base # 256 /\ c \in Number -> c - Zero
    [] OTHER                      -> 10 + (c - 97)
ValueOf(t, base) ==
  LET v[n \in 0 .. Len(t)] ==
        IF n = 0 THEN 0 ELSE v[n - 1] * base + DigitOf(t[n], base)
  IN  v[Len(t)]
IsDecimal(t) ==
  LET ds == IF t[1] = Minus THEN Tail(t) ELSE t
  IN  /\ t # <<>> /\ ds # <<>> /\ \A k \in 1 .. Len(ds) : ds[k] \in Number
      /\ ds[1] = Zero => t = <<Zero>>
Decimal(t) == IF t[1] = Minus THEN -ValueOf(Tail(t), 10) ELSE ValueOf(t, 10)

(* The numbers that a decimal device can write: not the least one, whose   *)
(* sign cannot be turned, and none that is wider than int32_t.             *)
Writable(i) == i.bits <= Bits /\ i.value # -Pow2(Bits - 1)

(* The characters that hold a number: the buffers of writeInt (sign and    *)
(* zero) and of writeUInt.                                                 *)
Buffer(i) == (Bits \div 8) * 3 + (IF i.kind = "int" THEN 1 ELSE 0)

Means(t, i) ==
  CASE i.kind \in {"int", "uint"} -> Writable(i) =>
         IsDecimal(t) /\ Decimal(t) = i.value /\ Len(t) <= Buffer(i)
    [] i.kind = "hint" ->
         /\ Len(t) = 2 + i.bits \div 4 /\ SubSeq(t, 1, 2) = Hexadecimal
         /\ ValueOf(SubSeq(t, 3, Len(t)), 16) = i.value % Pow2(i.bits)
    [] i.kind = "cint" -> Len(t) = i.bits \div 8 /\ ValueOf(t, 256) = i.value % Pow2(i.bits)
    [] OTHER -> t = written(i)

(* What has been put on the line for a number means the number: decimal    *)
(* with its sign and without leading zeros, within the buffer on the       *)
(* stack; hexadecimal and raw with all bytes, the highest one first.       *)
(* (writeInt, writeUInt, writeHInt, writeCInt at the edges of the widths.) *)
WritesValue ==
  \A k \in 1 .. Len(begins) :
    LET end == IF k < Len(begins) THEN begins[k + 1] ELSE Len(sent)
    IN  k < Len(begins) \/ text = <<>> =>
          Means(SubSeq(sent, begins[k] + 1, end), script.items[k])

(* How many elements of s, from the first one on, are in a set.            *)
Leading(s, S) == CHOOSE n \in 0 .. Len(s) :
  (\A k \in 1 .. n : s[k] \in S) /\ (n < Len(s) => s[n + 1] \notin S)
After(s, n) == SubSeq(s, n + 1, Len(s))

NumberPiece(piece, r) ==
  LET t     == After(piece, Leading(piece, Whitespace))
      minus == t # <<>> /\ t[1] = Minus
      u     == IF minus THEN Tail(t) ELSE t
      n     == Leading(u, Number)
      value == ValueOf(SubSeq(u, 1, n), 10)
  IN  /\ r.found = (n > 0) /\ r.val = signed(IF minus THEN -value ELSE value, Bits)
      /\ Len(u) = n + (IF r.dry THEN 0 ELSE 1)

WordPiece(piece, r, max) ==
  LET t == After(piece, Leading(piece, Whitespace))
  IN  /\ r.word = SubSeq(t, 1, Len(r.word)) /\ Len(r.word) <= max
      /\ \A k \in 1 .. Len(r.word) : r.word[k] \notin Whitespace
      /\ Len(t) = Len(r.word) + (IF r.dry THEN 0 ELSE 1)
      /\ ~r.dry => t[Len(t)] \in Whitespace \/ Len(r.word) = max

(* However the characters of a line arrive during the calls, a call        *)
(* returns what the characters that it took say, by their grammar: spaces, *)
(* then the longest number or the longest word that has room.  It stops    *)
(* within one only because the line is dry, and otherwise takes exactly    *)
(* one character more.  (readInt, readString.)                             *)
ReadsPiece ==
  \A k \in 1 .. Len(results) :
    LET r == results[k]
        c == script.calls[k]
        piece == SubSeq(sent, r.from + 1, r.to)
    IN  /\ r.from = IF k = 1 THEN 0 ELSE results[k - 1].to
        /\ IF c.op = "readInt" THEN NumberPiece(piece, r)
           ELSE WordPiece(piece, r, c.maxLength - 1)

(* Every second item separates two that are read: from a word by a space,  *)
(* from a number by any character that is no digit.                        *)
Data(k) == script.items[2 * k - 1]
Separates(s, i) ==
  \/ s.kind = "newline"
  \/ s.kind = "char" /\ IF i.kind = "string" THEN s.value \in Whitespace ELSE s.value \notin Number
ReadBy(i, c) ==
  CASE i.kind \in {"int", "uint"} -> c.op = "readInt" /\ Writable(i)
    [] i.kind = "string"          -> /\ c.op = "readString" /\ Len(i.text) \in 1 .. c.maxLength - 1
                                     /\ \A k \in 1 .. Len(i.text) : i.text[k] \notin Whitespace
    [] OTHER                      -> FALSE
Fits ==
  /\ Len(script.items) \in {2 * Len(script.calls) - 1, 2 * Len(script.calls)}
  /\ \A k \in 1 .. Len(script.calls) :
       /\ ReadBy(Data(k), script.calls[k])
       /\ 2 * k <= Len(script.items) => Separates(script.items[2 * k], Data(k))

(* A program that waits for the line, and reads with the call for each     *)
(* kind, gets back every number and every word that was written with one   *)
(* separator behind it: no call takes a sign or a character of the next.   *)
(* (operator<< of the decimal devices, readInt, readString.)               *)
ComesBack ==
  script.waits /\ Fits => \A k \in 1 .. Len(results) :
    IF Data(k).kind = "string" THEN results[k].word = Data(k).text
    ELSE results[k].found /\ results[k].val = signed(Data(k).value, Bits)
=============================================================================
