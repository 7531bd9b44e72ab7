-------------------------------- MODULE Ring --------------------------------
(***************************************************************************)
(* The index arithmetic of QueueBuffer (common/queuebuffer.h): a ring of   *)
(* Length slots, poss the slot of the first element and pose the slot      *)
(* behind the last one.  The operators take the indices as parameters, so  *)
(* that the modules that share them may read the two indices in different  *)
(* steps.                                                                  *)
(***************************************************************************)
EXTENDS Naturals, Sequences

CONSTANT Length         \* the template parameter Length: number of slots

ASSUME LengthAssumption == Length \in Nat \ {0}

Slot == 0 .. Length - 1

(* Mutants: the slips isFull_i, add1overrun and count could have made.     *)
isFull_iNoWrap(poss, pose) == (IF poss = 0 THEN Length ELSE poss - 1) = pose

add1overrunTooFar(pos) == IF pos = Length THEN 0 ELSE pos + 1

countOffByOne(poss, pose) ==
  IF pose > poss THEN pose - poss ELSE (pose + Length - 1) - poss

(* The two results of isFull_i and isEmpty, the step of add1overrun.       *)
isFull_i(poss, pose) == (IF poss = 0 THEN Length - 1 ELSE poss - 1) = pose

isEmpty(poss, pose) == poss = pose

add1overrun(pos) == IF pos + 1 = Length THEN 0 ELSE pos + 1

count(poss, pose) ==
  IF pose > poss THEN pose - poss ELSE (pose + Length) - poss

(***************************************************************************)
(* What the ring holds: the sequence of the elements from poss (included)  *)
(* to pose (excluded), wrapping round at Length.                           *)
(***************************************************************************)
Used(poss, pose) == IF pose >= poss THEN pose - poss ELSE (pose + Length) - poss

Wrap(k) == IF k >= Length THEN k - Length ELSE k

Contents(bu, poss, pose) ==
  [i \in 1 .. Used(poss, pose) |-> bu[Wrap(poss + i - 1)]]
=============================================================================
