---------------------------- MODULE LocalRegMap -----------------------------
(***************************************************************************)
(* A program on a register map that lies in the memory of the controller   *)
(* (base/localRegMap.h, regmaps.h), one access to the memory at a time.    *)
(*                                                                         *)
(* The members of a map are not volatile.  Between two synchronisations,   *)
(* which tell the compiler that memory changes, it may therefore keep a    *)
(* byte in a register of the processor: load it as early as behind the     *)
(* last synchronisation, and store it at any moment up to the next one.    *)
(* A bit-field cannot be stored alone; the whole byte is.  Taking and      *)
(* releasing the GlobalInterruptLock (arm/locking.h) is ordered against    *)
(* synchronisations, but not against accesses, for it names no memory.     *)
(* A handler interrupts between two accesses and does all of its own.      *)
(***************************************************************************)
EXTENDS RegisterLayout, FiniteSets

CONSTANT Programs

Bit == {0, 1}

(* The program p holds the lock from before its window w until behind it.  *)
Before(p, w) ==
  \E v \in 1 .. w - 1 :
    /\ p.windows[v].locking # <<>> /\ Last(p.windows[v].locking) = "lock"
    /\ \A u \in v + 1 .. w - 1 : p.windows[u].locking = <<>>
Quiet(p, w) == p.windows[w].locking = <<>> /\ Before(p, w)

(* An assignment is of all bits of a field that no other one overlaps.     *)
Assigns(p, a) ==
  /\ a.field \in p.fields /\ a.bits \in [0 .. a.field.width - 1 -> Bit]
  /\ \A f \in p.fields \ {a.field} : Bits(f) \cap Bits(a.field) = {}

(* A program reads the field of the handler, and assigns others: under the *)
(* lock where a byte is shared, or the field to read lies in two of them.  *)
Keeps(p, w, a) ==
  LET h == p.handler.field IN
  \/ /\ a.op = "assign" /\ Assigns(p, a) /\ a.field # h
     /\ Quiet(p, w) \/ Bytes(a.field) \cap Bytes(h) = {}
  \/ /\ a.op = "read" /\ a.field = h
     /\ Quiet(p, w) \/ \A b, c \in Bytes(h) : b = c

ASSUME ProgramsAssumption == \A p \in Programs :
  /\ p.start \in Bit /\ Assigns(p, p.handler)
  /\ \A f \in p.fields : f.at \in Nat /\ f.width \in Nat \ {0}
  /\ Len(p.windows) \in Nat
  /\ \A w \in 1 .. Len(p.windows) :
       /\ p.windows[w].locking \in Seq({"lock", "unlock"})
       /\ Len(p.windows[w].access) \in Nat
       /\ \A j \in 1 .. Len(p.windows[w].access) : Keeps(p, w, p.windows[w].access[j])

VARIABLES
  prog,          \* the program that runs
  window, done,  \* the window it is in, and its accesses that are done
  step,          \* its statements about the lock that are done
  masked,        \* whether the lock is held
  handled,       \* whether the handler has run
  mem,           \* the memory
  copy, held,    \* the registers of the processor, and the bytes kept there
  dirty,         \* the bits assigned there that are not stored
  got, shown     \* what the window has read; what could be read since it began

progress == <<window, done, step>>
cpu      == <<copy, held, dirty>>
vars     == <<prog, progress, masked, handled, mem, cpu, got, shown>>

OfByte(b) == 8 * b .. 8 * b + 7
Memory == UNION {OfByte(b) : b \in UNION {Bytes(f) : f \in prog.fields}}

(* The bits of field f; a memory in which it has been assigned.            *)
Shown(memory, f) == [i \in 0 .. f.width - 1 |-> memory[f.at + i]]
Assigned(memory, a) ==
  [bit \in Memory |-> IF bit \in Bits(a.field) THEN a.bits[bit - a.field.at] ELSE memory[bit]]

assign(f, v) == [op |-> "assign", field |-> f, bits |-> [i \in 0 .. f.width - 1 |-> BitOf(v, i)]]
read(f)      == [op |-> "read", field |-> f]

(* Mutant: the upper bits of the form are not shifted down.                *)
setWaveFormUnshifted(timer, modes, form) ==
  <<assign(Field(timer, "wgm0"), form % modes.low),
    assign(Field(timer, "wgm1"), form % modes.high)>>

(* The two methods of the timers, whose form lies in two fields.           *)
setWaveForm(timer, modes, form) ==
  <<assign(Field(timer, "wgm0"), form % modes.low),
    assign(Field(timer, "wgm1"), (form \div modes.low) % modes.high)>>
getWaveForm(timer, modes, memory) ==
  Read(memory, Field(timer, "wgm0")) + modes.low * Read(memory, Field(timer, "wgm1"))

(* What a program does that selects a wave form and a prescaler.           *)
Selection(m) ==
  setWaveForm(m.timer, m.modes, m.form)
    \o <<assign(Field(m.timer, "cs"), m.modes.code[m.index])>>

(* The program p assigns a, and nothing to the same field behind it.       *)
IsLast(p, w, j) ==
  \A v \in 1 .. Len(p.windows) : \A i \in 1 .. Len(p.windows[v].access) :
    LET other == p.windows[v].access[i] IN
    other.op = "assign" /\ other.field = p.windows[w].access[j].field =>
      v < w \/ (v = w /\ i <= j)

Leaves(p, a) ==
  \E w \in 1 .. Len(p.windows) : \E j \in 1 .. Len(p.windows[w].access) :
    p.windows[w].access[j] = a /\ IsLast(p, w, j)

(* The field f, of three bits at most, holds the numbers up to n.          *)
Holds(f, n) == f.width \in 1 .. 3 /\ n \in 0 .. 2^f.width - 1

(* A program that is said to select a mode selects one of the tables of    *)
(* the timer last, and its fields have room for it.                        *)
ASSUME ModesAssumption == \A p \in Programs : \A m \in p.mode :
  /\ \A i \in 1 .. 3 : Leaves(p, Selection(m)[i])
  /\ m.modes.low \in Nat \ {0} /\ Holds(Field(m.timer, "wgm0"), m.modes.low - 1)
  /\ m.modes.high \in Nat \ {0} /\ Holds(Field(m.timer, "wgm1"), m.modes.high - 1)
  /\ m.form \in 0 .. m.modes.low * m.modes.high - 1
  /\ Holds(Field(m.timer, "cs"), m.modes.code[m.index])
  /\ m.modes.divisor[m.modes.code[m.index]] = m.modes.value[m.index]

Running  == window <= Len(prog.windows)
Accesses == IF Running THEN prog.windows[window].access ELSE <<>>
Locking  == IF Running THEN prog.windows[window].locking ELSE <<>>

TypeOK ==
  /\ prog \in Programs /\ window \in 1 .. Len(prog.windows) + 1
  /\ done \in 0 .. Len(Accesses) /\ step \in 0 .. Len(Locking)
  /\ mem \in [Memory -> Bit] /\ copy \in [Memory -> Bit]
  /\ {8 * b : b \in held} \cup dirty \subseteq Memory
  /\ masked \in BOOLEAN /\ handled \in BOOLEAN

Init ==
  /\ prog \in Programs /\ window = 1 /\ done = 0 /\ step = 0
  /\ masked = FALSE /\ handled = FALSE
  /\ mem = [bit \in Memory |-> prog.start] /\ copy = mem /\ held = {} /\ dirty = {}
  /\ got = {} /\ shown = {Shown(mem, prog.handler.field)}

-----------------------------------------------------------------------------
(* The bytes that an access needs in a register: all of what it reads, and *)
(* those that it assigns a part of.                                        *)
Needs(a) == {b \in Bytes(a.field) : a.op = "read" \/ ~ OfByte(b) \subseteq Bits(a.field)}

Load(b) ==
  /\ b \notin held /\ \E j \in done + 1 .. Len(Accesses) : b \in Needs(Accesses[j])
  /\ copy' = [bit \in Memory |-> IF bit \in OfByte(b) THEN mem[bit] ELSE copy[bit]]
  /\ held' = held \cup {b}
  /\ UNCHANGED <<prog, progress, masked, handled, mem, dirty, got, shown>>

Access ==
  /\ done < Len(Accesses) /\ done' = done + 1
  /\ LET a == Accesses[done'] IN
     /\ Needs(a) \subseteq held
     /\ IF a.op = "assign"
        THEN /\ copy' = Assigned(copy, a) /\ held' = held \cup Bytes(a.field)
             /\ dirty' = dirty \cup Bits(a.field) /\ got' = got
        ELSE got' = got \cup {Shown(copy, a.field)} /\ UNCHANGED cpu
  /\ UNCHANGED <<prog, window, step, masked, handled, mem, shown>>

Store(b) ==
  /\ OfByte(b) \cap dirty # {}
  /\ mem' = [bit \in Memory |-> IF bit \in OfByte(b) THEN copy[bit] ELSE mem[bit]]
  /\ dirty' = dirty \ OfByte(b)
  /\ shown' = shown \cup {Shown(mem', prog.handler.field)}
  /\ UNCHANGED <<prog, progress, masked, handled, copy, held, got>>

(* Mutant: the constructor does not mask the interrupts.                   *)
LockOpen ==
  /\ step < Len(Locking) /\ step' = step + 1
  /\ masked' = FALSE
  /\ UNCHANGED <<prog, window, done, handled, mem, cpu, got, shown>>

(* GlobalInterruptLock, taken and released.                                *)
Lock ==
  /\ step < Len(Locking) /\ step' = step + 1
  /\ masked' = (Locking[step'] = "lock")
  /\ UNCHANGED <<prog, window, done, handled, mem, cpu, got, shown>>

(* Mutant: a synchronisation that stores only; what is kept stays.         *)
SyncKeeps ==
  /\ Running /\ done = Len(Accesses) /\ step = Len(Locking) /\ dirty = {}
  /\ window' = window + 1 /\ done' = 0 /\ step' = 0
  /\ got' = {} /\ shown' = {Shown(mem, prog.handler.field)}
  /\ UNCHANGED <<prog, masked, handled, mem, cpu>>

(* LocalRegMap::sync, SyncRegMap: what was assigned is stored, and what is *)
(* kept is forgotten.                                                      *)
Sync ==
  /\ Running /\ done = Len(Accesses) /\ step = Len(Locking) /\ dirty = {}
  /\ window' = window + 1 /\ done' = 0 /\ step' = 0
  /\ held' = {} /\ got' = {} /\ shown' = {Shown(mem, prog.handler.field)}
  /\ UNCHANGED <<prog, masked, handled, mem, copy, dirty>>

(* The handler assigns a field.                                            *)
Handle ==
  /\ ~masked /\ ~handled /\ handled' = TRUE
  /\ mem' = Assigned(mem, prog.handler)
  /\ shown' = shown \cup {Shown(mem', prog.handler.field)}
  /\ UNCHANGED <<prog, progress, masked, cpu, got>>

Next ==
  \/ \E b \in UNION {Bytes(f) : f \in prog.fields} : Load(b) \/ Store(b)
  \/ Access \/ Lock \/ Sync \/ Handle

Spec == Init /\ [][Next]_vars

-----------------------------------------------------------------------------
(* The fields as variables: what the memory shows of them, and what is     *)
(* assigned and not stored yet; 2 stands for nothing.                      *)
Place == UNION {{f} \X (0 .. f.width - 1) : f \in prog.fields}
valueOf == [p \in Place |-> mem[p[1].at + p[2]]]
pendingOf == [p \in Place |-> IF p[1].at + p[2] \in dirty THEN copy[p[1].at + p[2]] ELSE 2]

Independent == INSTANCE IndependentFields WITH value <- valueOf, pending <- pendingOf

(* The bit-fields of a register map, of any layout, behave as variables of *)
(* their own although they share bytes: no access of the program changes a *)
(* field that it does not assign, nor undoes what a handler has assigned   *)
(* in the meantime (register maps, UseRegMap and SyncRegMap).              *)
ImplementsIndependent == Independent!Spec

(* What the program reads of the field that the handler assigns is what    *)
(* the field has been at some moment since the last synchronisation: never *)
(* older, nor half old and half new (SyncRegMap; fields of two bytes).     *)
ReadsCurrent == got \subseteq shown

(* A timer that was given a wave form and a prescaler, whose bits lie in   *)
(* two bytes beside those of other fields, has them when the program is    *)
(* done: getWaveForm tells the form, and the clock is divided by what      *)
(* PSArray calls its value (setWaveForm, PSArray of the timers).           *)
ModeIsSelected ==
  ~Running => \A m \in prog.mode :
    /\ getWaveForm(m.timer, m.modes, mem) = m.form
    /\ m.modes.divisor[Read(mem, Field(m.timer, "cs"))] = m.modes.value[m.index]
=============================================================================
