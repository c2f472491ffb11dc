----------------------------- MODULE Commands -------------------------------
(* The requests of the model-checking runs of the queue. *)
EXTENDS Integers, TLC

CONSTANTS r1, r2, r3, r4, r5

Blocks(l, w, lba, n, t) ==
  [lun |-> l, write |-> w, reorderable |-> TRUE, lba |-> lba, bcount |-> n,
   tag |-> t]

(* A command that is not a read or write: IdeReadWrite did not mark it.    *)
Other(l) == [Blocks(l, TRUE, 0, 0, "simple") EXCEPT !.reorderable = FALSE]

FiveReqs == {r1, r2, r3, r4, r5}

(* One device: a read, two writes that conflict with it or with each       *)
(* other, the second of them ORDERED, a read far away and a command that   *)
(* cannot be reordered.                                                    *)
OneLunCmd == (r1 :> Blocks(0, FALSE, 0, 2, "simple"))
          @@ (r2 :> Blocks(0, TRUE, 1, 2, "simple"))
          @@ (r3 :> Blocks(0, TRUE, 2, 4, "ordered"))
          @@ (r4 :> Blocks(0, FALSE, 9, 1, "simple"))
          @@ (r5 :> Other(0))

(* Two devices, four requests for device 0 (one of them HEAD_OF_QUEUE) and *)
(* one for device 1.                                                       *)
TwoLunCmd == (r1 :> Blocks(0, FALSE, 0, 2, "simple"))
          @@ (r2 :> Blocks(0, TRUE, 1, 2, "simple"))
          @@ (r3 :> Blocks(0, FALSE, 8, 1, "simple"))
          @@ (r4 :> Blocks(0, FALSE, 4, 1, "head"))
          @@ (r5 :> Blocks(1, TRUE, 0, 2, "simple"))
=============================================================================
