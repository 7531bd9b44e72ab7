--------------------------- MODULE RegisterLayout ---------------------------
(***************************************************************************)
(* How the bit-fields of a packed C++ structure lie in the memory of the   *)
(* microcontroller, and how a timer's tables of modes are kept: the        *)
(* vocabulary of the register maps under include/arm-halib/regmaps/local.  *)
(*                                                                         *)
(* A register map is a reference to address 0 (UseRegMap, regmaps.h:86),   *)
(* so that padding in front of a member is its address.  A map is a set of *)
(* fields; a field is a record of its name, its first bit (bit i of byte b *)
(* is number 8 * b + i), its width and the union it belongs to.            *)
(***************************************************************************)
EXTENDS Integers, Sequences, SequencesExt

\* A member of type uint8_t and the like, and a run of members of one bit.
\* The name "" is an unnamed member: padding.
Flags(names) == [i \in DOMAIN names |-> <<names[i], 1>>]

\* The members of one structure that begins at byte, the first one in the
\* lowest bits, each directly behind the one before.  Two structures at the
\* same byte are members of the same union.
View(byte, members) ==
    LET offset(i) == FoldLeft(LAMBDA sum, m : sum + m[2], 0, SubSeq(members, 1, i - 1))
    IN  {[union |-> byte, name |-> members[i][1], at |-> 8 * byte + offset(i),
          width |-> members[i][2]] : i \in {j \in DOMAIN members : members[j][1] # ""}}

Bits(f) == f.at .. f.at + f.width - 1
Bytes(f) == {bit \div 8 : bit \in Bits(f)}

\* Two names for the same bits, as the members of a union are.
Alias(f, g) == f.union = g.union /\ Bits(f) \cap Bits(g) # {}

Field(map, name) == CHOOSE f \in map : f.name = name

\* Bit i of a value, and the number that a field shows in a memory.
BitOf(value, i) == (value \div 2^i) % 2
Read(memory, f) ==
    LET sum[n \in 0 .. f.width] ==
          IF n = 0 THEN 0 ELSE sum[n - 1] + memory[f.at + n - 1] * 2^(n - 1)
    IN  sum[f.width]

=============================================================================
