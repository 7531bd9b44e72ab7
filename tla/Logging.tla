------------------------------ MODULE Logging -------------------------------
(***************************************************************************)
(* The logging framework (include/logging): log::emit, the singleton it    *)
(* constructs on first use, the switch of levels and the OutputStream,     *)
(* which prints numbers in the base that was set last.  The main program   *)
(* logs one access to the shared object, one character or one prefix at a  *)
(* time; an interrupt handler may log a whole message in between.  A build *)
(* may keep the base in a register while it prints a number, which is seen *)
(* only if a handler sets it; no property is about main's numbers then.    *)
(*                                                                         *)
(* External: the output device, whose put waits until it is ready.         *)
(***************************************************************************)
EXTENDS Integers, SequencesExt

CONSTANTS
  Char,       \* the characters
  Modulus,    \* 2^w, w being the width of the type of the numbers printed
  Uses        \* how the programs considered log, see IsUse

Level == {"error", "warning", "normal", "info", "trace", "debug", "user"}

(* A message: its level and what is sent to the stream - texts, numbers,   *)
(* pointers and numeratives.                                               *)
Bases == {2, 8, 10, 16}
Text  == Seq(Char) \ {<< >>}

Item ==
  [kind : {"text"}, text : Text] \cup [kind : {"base"}, n : Bases]
    \cup [kind : {"int"}, n : -(Modulus \div 2) .. Modulus - 1]
    \cup [kind : {"ptr"}, n : 0 .. Modulus - 1]

Message == [level : Level, items : Seq(Item)]

(* The message sets the base of its numbers itself.                        *)
OwnBase(m) ==
  \A j \in DOMAIN m.items : m.items[j].kind = "int" => m.items[1].kind = "base"

(* Main: the messages of the main program.  Handler: those of which the    *)
(* handler logs at most Max.  Locked: main holds a GlobalInterruptLock     *)
(* while it logs.  Switch: the output is an OutputLevelRunTimeSwitch, else *)
(* an OutputLevelSwitchDisabled, and level and current stand for nothing.  *)
(* Ordered: the build stores the members of the object before the flag of  *)
(* the singleton, as the source has it; none of them is volatile.  Zeroed: *)
(* the build makes the object zero before its constructors run, as new T() *)
(* asks for a class that declares none; or it drops these stores.          *)
Sound(u) == u.Ordered /\ ~ u.Zeroed

IsUse(u) ==
  /\ u.Main \in Seq(Message) /\ u.Handler \subseteq Message
  /\ \A m \in u.Handler : u.Locked \/ Sound(u) \/ OwnBase(m)
  /\ {u.Locked, u.Switch, u.Ordered, u.Zeroed} \subseteq BOOLEAN /\ u.Max \in Nat

ASSUME CharAssumption ==
  Level \cup {"0", "1", "2", "3", "4", "5", "6", "7", "8", "9", "a", "b", "c", "d", "e", "f",
             "x", "-", "?"} \subseteq Char
ASSUME ModulusAssumption == Modulus \in Nat /\ Modulus > 16
ASSUME UsesAssumption == \A u \in Uses : IsUse(u)

VARIABLES
  constructed,            \* the flag of singleton::instance
  base, level, current,   \* the object: OutputStream::base, _level, _current
  line,                   \* the characters put, each with its message
  use, emitted,           \* the program; the messages begun, main's and the handler's
  pc, mine, items,        \* main: where it is, its message, what is left of it
  ival, div, oldbase      \* the variables of printIntType and operator<<(void* )

object == <<constructed, base, level, current>>
print  == <<ival, div, oldbase>>
vars   == <<object, line, use, emitted, pc, mine, items, print>>

-----------------------------------------------------------------------------
(* The description of a level.  log::emit() has none: that of its level,   *)
(* Void, is a null pointer, which operator<< prints from address 0 on      *)
(* (Logger.h:202); what stands there is left out.                          *)
desc(l) == IF l = "normal" THEN << >> ELSE <<[kind |-> "text", text |-> <<l>>]>>

Items(m) == desc(m.level) \o m.items

(* The levels that OutputLevelRunTimeSwitch() switches on.                 *)
Switched == {"normal", "error"}

allowed(switch, lv, l) == switch => l \in lv

Digit(d) ==
  IF d < 16 THEN <<"0", "1", "2", "3", "4", "5", "6", "7",
                   "8", "9", "a", "b", "c", "d", "e", "f">>[d + 1] ELSE "?"

Prefix(b) == CASE b = 2 -> <<"b">> [] b = 8 -> <<"0">> [] b = 16 -> <<"0", "x">>
               [] OTHER -> << >>

(* handleSign and the conversion to an unsigned type.                      *)
magnitude(v) == (IF v < 0 THEN -v ELSE v) % Modulus

Sign(v) == IF v < 0 THEN <<"-">> ELSE << >>

-----------------------------------------------------------------------------
(* What a message looks like that is printed without interruption, by an   *)
(* object that prints in base b, and the base it leaves.                   *)
Digits(v, b) ==
  LET digits[n \in 0 .. Modulus - 1] ==
        IF n < b THEN <<Digit(n)>> ELSE Append(digits[n \div b], Digit(n % b))
  IN  digits[v]

Numeral(v, b) == Prefix(b) \o Digits(v, b)

PrintItem(s, x) ==
  CASE x.kind = "text" -> [s EXCEPT !.out = @ \o x.text]
    [] x.kind = "base" -> [s EXCEPT !.base = x.n]
    [] x.kind = "int"  ->
         [s EXCEPT !.out = @ \o Sign(x.n) \o Numeral(magnitude(x.n), s.base)]
    [] x.kind = "ptr"  -> [s EXCEPT !.out = @ \o Numeral(x.n, 16)]

PrintItems(s, xs) ==
  LET after[k \in 0 .. Len(xs)] ==
        IF k = 0 THEN s ELSE PrintItem(after[k - 1], xs[k])
  IN  after[Len(xs)]

Printed(b, m) == PrintItems([base |-> b, out |-> << >>], Items(m))

(* The messages of ms that have a number in N, printed one after the other *)
(* by a new object.                                                        *)
PrintNext(switch, s, m) ==
  IF allowed(switch, Switched, m.level) THEN PrintItems(s, Items(m)) ELSE s

PrintNth(switch, s, ms, k, N) == IF k \in N THEN PrintNext(switch, s, ms[k].m) ELSE s

New == [base |-> 10, out |-> << >>]

PrintedAll(switch, ms, N) ==
  LET after[k \in 0 .. Len(ms)] ==
        IF k = 0 THEN New ELSE PrintNth(switch, after[k - 1], ms, k, N)
  IN  after[Len(ms)]

TypeOK ==
  /\ constructed \in BOOLEAN
  /\ base \in {0, 2, 8, 10, 16} /\ oldbase \in {0, 2, 8, 10, 16}
  /\ level \in {{}, Switched} /\ current \in Level \cup {"disable"}
  /\ {ival, div} \subseteq 0 .. Modulus - 1
  /\ mine \in 0 .. Len(emitted) /\ use \in Uses

(* Static memory is zero before the object is constructed in it.           *)
Init ==
  /\ constructed = FALSE /\ base = 0 /\ level = {} /\ current = "disable"
  /\ line = << >>
  /\ use \in Uses /\ emitted = << >>
  /\ pc = "idle" /\ mine = 0 /\ items = << >>
  /\ ival = 0 /\ div = 0 /\ oldbase = 0

-----------------------------------------------------------------------------
(* log::emit of the main program: the instance, its construction on first  *)
(* use, zeroes first, then the base class, and the level.                  *)

emit ==
  LET logged == Cardinality({j \in DOMAIN emitted : emitted[j].main}) IN
  /\ pc = "idle" /\ logged < Len(use.Main)
  /\ emitted' = Append(emitted, [main |-> TRUE, m |-> use.Main[logged + 1]])
  /\ mine' = Len(emitted')
  /\ items' = Items(use.Main[logged + 1])
  /\ pc' = "instance"
  /\ UNCHANGED <<object, line, use, print>>

(* Mutant: the flag is set before the object is constructed.               *)
instanceFlagged ==
  /\ pc = "instance"
  /\ constructed' = TRUE
  /\ pc' = IF constructed THEN "level" ELSE IF use.Zeroed THEN "zero" ELSE "OutputStream"
  /\ UNCHANGED <<base, level, current, line, use, emitted, mine, items, print>>

instance ==
  /\ pc = "instance"
  /\ pc' = IF constructed THEN "level" ELSE IF use.Zeroed THEN "zero" ELSE "OutputStream"
  /\ constructed' = (constructed \/ ~ use.Ordered)
  /\ UNCHANGED <<base, level, current, line, use, emitted, mine, items, print>>

(* The flag may have been set meanwhile, by a handler that has found it    *)
(* clear and constructed the object.                                       *)
zero ==
  /\ pc = "zero" /\ pc' = "OutputStream"
  /\ base' = 0 /\ level' = {} /\ current' = "disable"
  /\ UNCHANGED <<constructed, line, use, emitted, mine, items, print>>

OutputStream ==
  /\ pc = "OutputStream" /\ pc' = "OutputLevel"
  /\ base' = 10
  /\ UNCHANGED <<constructed, level, current, line, use, emitted, mine, items, print>>

OutputLevel ==
  /\ pc = "OutputLevel" /\ pc' = "constructed"
  /\ level' = Switched /\ current' = "normal"
  /\ UNCHANGED <<constructed, base, line, use, emitted, mine, items, print>>

setConstructed ==
  /\ pc = "constructed" /\ pc' = "level"
  /\ constructed' = TRUE
  /\ UNCHANGED <<base, level, current, line, use, emitted, mine, items, print>>

setLevel ==
  /\ pc = "level" /\ pc' = "item"
  /\ current' = emitted[mine].m.level
  /\ UNCHANGED <<constructed, base, level, line, use, emitted, mine, items, print>>

-----------------------------------------------------------------------------
(* operator<< of OutputStream, if the level allows it.                     *)

put(s) == line' = line \o [j \in DOMAIN s |-> [c |-> s[j], n |-> mine]]

item ==
  /\ pc = "item"
  /\ \/ items = << >> /\ pc' = "idle" /\ UNCHANGED items
     \/ items # << >> /\ ~ allowed(use.Switch, level, current)
        /\ items' = Tail(items) /\ UNCHANGED pc
     \/ items # << >> /\ allowed(use.Switch, level, current)
        /\ pc' = Head(items).kind /\ UNCHANGED items
  /\ UNCHANGED <<object, line, use, emitted, mine, print>>

putText ==
  /\ pc = "text"
  /\ put(<<Head(Head(items).text)>>)
  /\ \/ /\ Len(Head(items).text) = 1
        /\ items' = Tail(items) /\ pc' = "item"
     \/ /\ Len(Head(items).text) > 1
        /\ items' = [items EXCEPT ![1].text = Tail(@)] /\ UNCHANGED pc
  /\ UNCHANGED <<object, use, emitted, mine, print>>

setBase ==
  /\ pc = "base" /\ pc' = "item"
  /\ base' = Head(items).n
  /\ items' = Tail(items)
  /\ UNCHANGED <<constructed, level, current, line, use, emitted, mine, print>>

handleSign ==
  /\ pc = "int" /\ pc' = "prefix"
  /\ put(Sign(Head(items).n))
  /\ ival' = magnitude(Head(items).n)
  /\ UNCHANGED <<object, use, emitted, mine, items, div, oldbase>>

(* A pointer is printed in base 16, and the base set back.                 *)
ptr ==
  /\ pc = "ptr" /\ pc' = "ptrBase"
  /\ oldbase' = base
  /\ UNCHANGED <<object, line, use, emitted, mine, items, ival, div>>

ptrBase ==
  /\ pc = "ptrBase" /\ pc' = "prefix"
  /\ base' = 16
  /\ ival' = Head(items).n
  /\ UNCHANGED <<constructed, level, current, line, use, emitted, mine, items, div, oldbase>>

(* Mutant: the base is not set back.                                       *)
ptrEndKept ==
  /\ pc = "ptrEnd" /\ pc' = "item"
  /\ items' = Tail(items)
  /\ UNCHANGED <<object, line, use, emitted, mine, print>>

ptrEnd ==
  /\ pc = "ptrEnd" /\ pc' = "item"
  /\ base' = oldbase
  /\ items' = Tail(items)
  /\ UNCHANGED <<constructed, level, current, line, use, emitted, mine, print>>

-----------------------------------------------------------------------------
(* printIntType: the prefix, the highest power of the base in the number,  *)
(* one digit after the other.  A step is one round of a loop.              *)

prefix ==
  /\ pc = "prefix" /\ pc' = "scale"
  /\ put(Prefix(base))
  /\ div' = 1
  /\ UNCHANGED <<object, use, emitted, mine, items, ival, oldbase>>

(* Mutant: the loop ends one power late for the powers of the base.        *)
scalesLoose == ival \div div > base

scales == ival \div div >= base

scale ==
  /\ pc = "scale"
  /\ \/ scales   /\ div' = (div * base) % Modulus /\ UNCHANGED pc
     \/ ~ scales /\ pc' = "digit" /\ UNCHANGED div
  /\ UNCHANGED <<object, line, use, emitted, mine, items, ival, oldbase>>

digit ==
  LET d == ival \div div IN
  /\ pc = "digit"
  /\ put(<<Digit(d)>>)
  /\ ival' = (ival - div * d) % Modulus
  /\ div' = div \div base
  /\ \/ div' > 0 /\ UNCHANGED <<pc, items>>
     \/ div' = 0 /\ Head(items).kind = "int" /\ pc' = "item" /\ items' = Tail(items)
     \/ div' = 0 /\ Head(items).kind = "ptr" /\ pc' = "ptrEnd" /\ UNCHANGED items
  /\ UNCHANGED <<object, use, emitted, mine, oldbase>>

-----------------------------------------------------------------------------
(* The handler logs a whole message; it constructs the object if nobody    *)
(* has finished to.                                                        *)
handler(m) ==
  LET b  == IF constructed THEN base ELSE 10
      lv == IF constructed THEN level ELSE Switched
      p  == Printed(b, m)
      on == allowed(use.Switch, lv, m.level)
  IN  /\ use.Locked => pc = "idle"
      /\ Cardinality({j \in DOMAIN emitted : ~ emitted[j].main}) < use.Max
      /\ emitted' = Append(emitted, [main |-> FALSE, m |-> m])
      /\ constructed' = TRUE /\ level' = lv /\ current' = m.level
      /\ base' = IF on THEN p.base ELSE b
      /\ line' = IF on THEN line \o [j \in DOMAIN p.out |-> [c |-> p.out[j], n |-> Len(emitted')]]
                       ELSE line
      /\ UNCHANGED <<use, pc, mine, items, print>>

-----------------------------------------------------------------------------
Next ==
  \/ emit \/ instance \/ zero \/ OutputStream \/ OutputLevel \/ setConstructed \/ setLevel
  \/ item \/ putText \/ setBase \/ handleSign \/ ptr \/ ptrBase \/ ptrEnd
  \/ prefix \/ scale \/ digit
  \/ \E m \in use.Handler : handler(m)

Spec == Init /\ [][Next]_vars

-----------------------------------------------------------------------------
(* What the messages with a number in N have put.                          *)
CharsNext(out, e, N) == IF e.n \in N THEN Append(out, e.c) ELSE out

Chars(s, N) ==
  LET after[k \in 0 .. Len(s)] ==
        IF k = 0 THEN << >> ELSE CharsNext(after[k - 1], s[k], N)
  IN  after[Len(s)]

(* They are what they would be, had they been printed alone.               *)
Alone(N) ==
  LET out == PrintedAll(use.Switch, emitted, N).out
  IN  IsPrefix(Chars(line, N), out) /\ (pc = "idle" => Chars(line, N) = out)

(***************************************************************************)
(* If main logs under a lock, every message comes out as if it were alone: *)
(* whole, in order, its numbers in the base that the messages before it    *)
(* have left, digit for digit (OutputStream.h:84-115) and up to the        *)
(* largest and the smallest value, and those of levels that are switched   *)
(* off not at all.                                                         *)
(***************************************************************************)
AsIfAlone ==
  use.Locked => /\ \A k \in DOMAIN line : line[k].n \in DOMAIN emitted
                /\ Alone(DOMAIN emitted)

(***************************************************************************)
(* Without a lock, a handler that sets no base and logs at a level that is *)
(* switched on does not disturb what main prints around it, wherever it    *)
(* comes in between, be it in the construction of the output.              *)
(***************************************************************************)
Unobtrusive ==
  /\ \A j \in DOMAIN use.Main : allowed(use.Switch, Switched, use.Main[j].level)
  /\ \A m \in use.Handler : /\ allowed(use.Switch, Switched, m.level)
                            /\ \A j \in DOMAIN m.items : m.items[j].kind # "base"

MainUndisturbed == Unobtrusive => Alone({n \in DOMAIN emitted : emitted[n].main})

(***************************************************************************)
(* The message of a handler comes out whole: it never meets an object that *)
(* is flagged and not constructed (singleton.h:36-46), if main logs under  *)
(* a lock, or wherever it interrupts main if the build keeps the order and *)
(* does not zero the object first.                                         *)
(***************************************************************************)
HandlersComplete ==
  \A n \in DOMAIN emitted :
    LET m == emitted[n].m IN
    (use.Locked \/ Sound(use)) /\ ~ emitted[n].main
        /\ allowed(use.Switch, Switched, m.level) /\ OwnBase(m) =>
      Chars(line, {n}) = Printed(10, m).out
=============================================================================
