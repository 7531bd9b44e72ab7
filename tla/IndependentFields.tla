-------------------------- MODULE IndependentFields -------------------------
(***************************************************************************)
(* What a register map promises to a program: the bit-fields behave as     *)
(* variables of their own.  An assignment to one changes that one only, at *)
(* some moment until the next synchronisation, and no assignment of a      *)
(* handler to another field is lost by it.                                 *)
(*                                                                         *)
(* A program is a record: the fields that are looked at, the bit that all  *)
(* the memory shows at the start, the accesses to fields in the windows    *)
(* between two synchronisations, and the assignment of a handler.          *)
(***************************************************************************)
EXTENDS Integers, Sequences

VARIABLES
  prog,          \* the program that runs, any one and always the same
  window, done,  \* the window it is in, and its accesses that are done
  handled,       \* whether the handler has run
  value,         \* the bits of the fields
  pending        \* the bits that were assigned and do not show yet

vars == <<prog, window, done, handled, value, pending>>

(* Bit i of field f.                                                       *)
Places == UNION {{f} \X (0 .. f.width - 1) : f \in prog.fields}
None == 2

Accesses == IF window <= Len(prog.windows) THEN prog.windows[window].access ELSE <<>>
Assigned(bits, a) == [p \in Places |-> IF p[1] = a.field THEN a.bits[p[2]] ELSE bits[p]]

Init ==
  /\ window = 1 /\ done = 0 /\ handled = FALSE
  /\ value = [p \in Places |-> prog.start]
  /\ pending = [p \in Places |-> None]

Access ==
  /\ done < Len(Accesses) /\ done' = done + 1
  /\ LET a == Accesses[done'] IN
     pending' = IF a.op = "assign" THEN Assigned(pending, a) ELSE pending
  /\ UNCHANGED <<prog, window, handled, value>>

Settle ==
  /\ \A p \in Places :
       \/ value'[p] = value[p] /\ pending'[p] = pending[p]
       \/ pending[p] # None /\ value'[p] = pending[p] /\ pending'[p] = None
  /\ DOMAIN value' = Places /\ DOMAIN pending' = Places
  /\ UNCHANGED <<prog, window, done, handled>>

Handle ==
  /\ ~handled /\ handled' = TRUE
  /\ value' = Assigned(value, prog.handler)
  /\ UNCHANGED <<prog, window, done, pending>>

Sync ==
  /\ window <= Len(prog.windows) /\ done = Len(Accesses)
  /\ pending = [p \in Places |-> None]
  /\ window' = window + 1 /\ done' = 0
  /\ UNCHANGED <<prog, handled, value, pending>>

Next == Access \/ Settle \/ Handle \/ Sync
Spec == Init /\ [][Next]_vars
=============================================================================
