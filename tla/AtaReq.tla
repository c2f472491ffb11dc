------------------------------- MODULE AtaReq -------------------------------
(***************************************************************************)
(* What the queue knows of a request when it is queued: the fields that    *)
(* the PREPARE stage (IdeReadWrite) leaves in its ATA_REQ and the queue    *)
(* tag of its SRB.  A block range stands for the CDB it was decoded from.  *)
(*                                                                         *)
(* bcount is what the first ATA command of the request transfers: on a     *)
(* device without LBA a command ends with its track, and the rest of the   *)
(* blocks of the SRB is sent by later commands of the same request.        *)
(***************************************************************************)
EXTENDS Integers

CONSTANTS Reqs,    \* the requests (SRB extensions) the port driver may send
          Luns,    \* the devices of the channel, 0 and 1 on an ATA cable
          Cmd      \* Cmd[r]: the command request r carries

(* Srb->QueueAction; "simple" also stands for an SRB without a queue tag,  *)
(* which UniataQueueRequest treats alike.                                  *)
Tags == {"simple", "ordered", "head"}

Command == [lun : Luns, write : BOOLEAN, reorderable : BOOLEAN,
            lba : Nat, bcount : Nat, tag : Tags]

ASSUME CmdAssumption == Cmd \in [Reqs -> Command]

Lun(r) == Cmd[r].lun

OfLun(l) == {r \in Reqs : Lun(r) = l}

(* Two ranges of blocks, each given by its start and its length, meet.     *)
Meet(a, n, b, m) == a < b + m /\ b < a + n

Overlap(r, s) == Meet(Cmd[r].lba, Cmd[r].bcount, Cmd[s].lba, Cmd[s].bcount)

(* "if at least one Req is WRITE, target areas can not intersect" *)
Conflict(r, s) == (Cmd[r].write \/ Cmd[s].write) /\ Overlap(r, s)

BothReorderable(r, s) == Cmd[r].reorderable /\ Cmd[s].reorderable
=============================================================================
