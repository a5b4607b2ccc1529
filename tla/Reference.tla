----------------------------- MODULE Reference -----------------------------
(***************************************************************************)
(* reference.h: a heap cell that holds a pointer, a strong and a weak      *)
(* count.  The last strong holder clears the pointer, so a weak holder     *)
(* asks reference_get whether the object is still there; the cell itself   *)
(* is freed when neither kind of holder is left.                           *)
(*                                                                         *)
(* The operators are pure: they map a cell to the cell the function leaves *)
(* behind.  "st" is the state of the heap block; "none" stands for the     *)
(* NULL reference, which every function of the header accepts.             *)
(***************************************************************************)
EXTENDS Integers

Cell == [st : {"none", "live", "freed"}, ptr : BOOLEAN,
         refcnt : Int, weak_refcnt : Int]

NoCell == [st |-> "none", ptr |-> FALSE, refcnt |-> 0, weak_refcnt |-> 0]

reference_new == [st |-> "live", ptr |-> TRUE, refcnt |-> 1, weak_refcnt |-> 0]

-----------------------------------------------------------------------------
(* Mutants of the operators below, used to validate the properties.        *)

DecKeepsPtr(c) ==
    IF c.st = "none" THEN c
    ELSE [c EXCEPT !.refcnt = @ - 1,
                   !.st = IF c.refcnt = 1 /\ c.weak_refcnt = 0 THEN "freed" ELSE @]

WeakDecNeverFrees(c) ==
    IF c.st = "none" THEN c ELSE [c EXCEPT !.weak_refcnt = @ - 1]

-----------------------------------------------------------------------------

(* The last strong count clears ptr; the cell goes when no weak count is left. *)
reference_dec(c) ==
    IF c.st = "none" THEN c
    ELSE IF c.refcnt # 1 THEN [c EXCEPT !.refcnt = @ - 1]
    ELSE [c EXCEPT !.refcnt = 0, !.ptr = FALSE,
                   !.st = IF c.weak_refcnt = 0 THEN "freed" ELSE @]

reference_weak_dec(c) ==
    IF c.st = "none" THEN c
    ELSE [c EXCEPT !.weak_refcnt = @ - 1,
                   !.st = IF c.weak_refcnt = 1 /\ ~c.ptr THEN "freed" ELSE @]

reference_weak_inc(c) ==
    IF c.st = "none" THEN c ELSE [c EXCEPT !.weak_refcnt = @ + 1]

(* NULL (FALSE) once the last strong holder has gone. *)
reference_get(c) == c.st # "none" /\ c.ptr

=============================================================================
