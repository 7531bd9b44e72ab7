--------------------------- MODULE MCLocalRegMap ----------------------------
(***************************************************************************)
(* The programs for LocalRegMap: on every map of the five chips, two       *)
(* assignments to fields that are neighbours, under the interrupt lock or  *)
(* without one, with a handler that assigns a third; and on every timer    *)
(* the selection of every wave form and prescaler.                         *)
(***************************************************************************)
EXTENDS LocalRegMap

Rfa1 == INSTANCE AtMega128Rfa1
M1281 == INSTANCE AtMega1281
Legacy == INSTANCE LegacyAtMega128Rfa1
Can128 == INSTANCE At90Can128
Sam == INSTANCE Sam3s4b

Maps == Rfa1!Maps \cup M1281!Maps \cup Legacy!Maps \cup Can128!Maps \cup Sam!Maps
Timers == Rfa1!Timers \cup M1281!Timers \cup Legacy!Timers \cup Can128!Timers

Shares(f, g) == Bytes(f) \cap Bytes(g) # {}

(* g lies behind f, with Gap bits between them at most.                    *)
Gap == 2
Behind(f, g) == g.at - (f.at + f.width) \in 0 .. Gap
Close(f, g)  == Behind(f, g) \/ Behind(g, f)

(* All of the bits of f, turned over.                                      *)
flip(f, start) == [op |-> "assign", field |-> f, bits |-> [i \in 0 .. f.width - 1 |-> 1 - start]]

(* The fields around those of a program that are no other names of theirs. *)
Around(map, used) ==
  used \cup {e \in map : (\E f \in used : Shares(e, f)) /\ \A f \in used : ~Alias(e, f)}

between(locking, access) == [locking |-> locking, access |-> access]

(* A program that does the accesses: with the lock, that it synchronises   *)
(* inside, or in one window; then it reads the field of the handler.       *)
Locked(access, h) ==
  <<between(<<"lock">>, <<>>), between(<<>>, <<read(h)>> \o access), between(<<"unlock">>, <<>>)>>
Open(access, h) ==
  <<between(<<>>, <<read(h)>> \o access), between(<<>>, <<read(h)>>)>>

program(map, used, h, start, windows, mode) ==
  [fields |-> Around(map, used \cup {h}), start |-> start, windows |-> windows,
   handler |-> flip(h, start), mode |-> mode]

(* Two neighbours of a map and a third beside them; two fields of a chip,  *)
(* of the same map or of two, that share a byte.  The mutexes that lie on  *)
(* the status register of the SPI of the atmega1281 are left out.  Without *)
(* the lock the handler's field is in a byte of its own; in the map of the *)
(* ARM, whose fields may be loaded and stored by the word, always with it. *)
Triples(map) ==
  {t \in UNION {{f} \X {g \in map : Behind(f, g)} \X map : f \in map} :
     t[3] \notin {t[1], t[2]} /\ (Close(t[1], t[3]) \/ Close(t[2], t[3]))
     /\ ~Alias(t[1], t[3]) /\ ~Alias(t[2], t[3])}

Pairs(chip) ==
  {p \in UNION {{m} \X m \X UNION chip : m \in chip} :
     Shares(p[2], p[3]) /\ ~Alias(p[2], p[3]) /\ p[2] # p[3]}

TriplePrograms ==
  UNION {{LET accesses == <<flip(t[1], 0), flip(t[2], 0)>>
              apart == ~Shares(t[1], t[3]) /\ ~Shares(t[2], t[3])
                         /\ Cardinality(Bytes(t[3])) = 1 /\ map \notin Sam!Maps
          IN  program(map, {t[1], t[2]}, t[3], 0,
                IF apart THEN Open(accesses, t[3]) ELSE Locked(accesses, t[3]), {}) :
            t \in Triples(map)} : map \in Maps}

PairPrograms ==
  UNION {{program(p[1], {p[2]}, p[3], 1, Locked(<<flip(p[2], 1)>>, p[3]), {}) : p \in Pairs(chip)} :
           chip \in {Rfa1!Maps, Legacy!Maps, Can128!Maps, M1281!Maps \ {M1281!Spi}}}

(* A timer and its table of prescalers; of the entry 4 of timer 2 of the   *)
(* at90can128 the value is wrong, and no program selects it.               *)
Selections(timer) ==
  {[timer |-> timer[1], modes |-> timer[2], form |-> form, index |-> index] :
     form \in timer[2].forms,
     index \in {i \in DOMAIN timer[2].value : ~(timer[1] = Can128!Timer2 /\ i = 5)}}

ModePrograms ==
  UNION {{LET used == {Field(m.timer, name) : name \in {"wgm0", "wgm1", "cs"}}
              h == Field(m.timer, "coma")
          IN  program(m.timer, used, h, start,
                Locked(Selection(m), h), {m}) :
            m \in {m \in Selections(timer) : m.form % 3 = m.index % 3}} :
         timer \in Timers, start \in {0, 1}}

MCPrograms == TriplePrograms \cup PairPrograms \cup ModePrograms
=============================================================================
