----------------------------- MODULE ChanQueue -----------------------------
(***************************************************************************)
(* The request queue of a channel as id_queue.cpp keeps it: a doubly       *)
(* linked list of ATA_REQs per device, and in the channel the number of    *)
(* requests, the current request and the current device.  The state is one *)
(* record, so that the modules that compose the queue with its users apply *)
(* the queue operations to it:                                             *)
(*   first, last, depth, wait  per device (HW_LU_EXTENSION first_req,      *)
(*                             last_req, queue_depth, LunSelectWaitCount)  *)
(*   next, prev, ttl, state    per request (ATA_REQ)                       *)
(*   total, cur, cdev          queue_depth, cur_req, cur_cdev (HW_CHANNEL) *)
(* The channel has one or two devices (NumberLuns).                        *)
(***************************************************************************)
EXTENDS AtaReq, Sequences, FiniteSets

CONSTANTS NULL,         \* no request
          Reorder,      \* chan->UseReorder
          MinTtl,       \* MIN_REQ_TTL
          TtlMod,       \* ATA_REQ.ttl is a UCHAR: 256
          CostMax,      \* REORDER_COST_MAX, larger than any sum of seek costs
          SeekBackM,    \* LunExt->SeekBackMCost
          RwSwitchM,    \* LunExt->RwSwitchMCost
          RwSwitchCost  \* LunExt->RwSwitchCost

ASSUME QueueAssumption == /\ IsFiniteSet(Reqs) /\ NULL \notin Reqs
                          /\ Luns \in {{0}, {0, 1}}
                          /\ Reorder \in BOOLEAN
                          /\ MinTtl \in Nat
                          /\ TtlMod \in Nat \ {0}
                          /\ CostMax \in Nat /\ CostMax > 4
                          /\ {SeekBackM, RwSwitchM, RwSwitchCost} \subseteq Nat

CostTtl       == CostMax - 1
CostIntersect == CostMax - 2
CostDenied    == CostMax - 3
CostReselect  == CostMax \div 4

EmptyQueue ==
  [first |-> [l \in Luns |-> NULL], last |-> [l \in Luns |-> NULL],
   depth |-> [l \in Luns |-> 0],    wait |-> [l \in Luns |-> 0],
   next |-> [r \in Reqs |-> NULL],  prev |-> [r \in Reqs |-> NULL],
   ttl |-> [r \in Reqs |-> 0],      state |-> [r \in Reqs |-> "NONE"],
   total |-> 0, cur |-> NULL, cdev |-> 0]

(* The requests met when link (next or prev) is followed from r on.        *)
Chain(link, r) ==
  LET follow[n \in 0..Cardinality(Reqs)] ==
        [x \in Reqs \cup {NULL} |->
           IF x = NULL \/ n = 0 THEN << >> ELSE <<x>> \o follow[n - 1][link[x]]]
  IN  follow[Cardinality(Reqs)][r]

List(c, l) == Chain(c.next, c.first[l])

(* Planted defect: the blocks are not looked at. *)
GetCostBlind(c, a, b) ==
  IF c.ttl[b] = 0 THEN CostTtl
  ELSE IF ~BothReorderable(a, b) THEN CostDenied
  ELSE LET gap == Cmd[a].lba + Cmd[a].bcount - Cmd[b].lba
       IN  IF gap < 0 THEN -gap ELSE gap

(* UniataGetCost: what it costs to execute a right before b.               *)
GetCost(c, a, b) ==
  LET gap  == Cmd[a].lba + Cmd[a].bcount - Cmd[b].lba
      seek == gap * (IF gap < 0 THEN 1 - SeekBackM ELSE SeekBackM - 1)
  IN  IF c.ttl[b] = 0 THEN CostTtl
      ELSE IF ~BothReorderable(a, b) THEN CostDenied
      ELSE IF Conflict(a, b) THEN CostIntersect
      ELSE IF Cmd[a].write = Cmd[b].write THEN seek
      ELSE seek * RwSwitchM + RwSwitchCost

(* The gaps of a queue, counted from the tail; before and after are the    *)
(* requests a gap lies between.                                            *)
Gaps(c, l) ==
  LET back == Chain(c.prev, c.last[l])
  IN  {[at |-> i, before |-> back[i], after |-> back[i - 1]] : i \in 2..Len(back)}

(* What it costs more to execute r in gap g. *)
Extra(c, r, g) == GetCost(c, g.before, r) + GetCost(c, r, g.after)
                    - GetCost(c, g.before, g.after)

(* The walk from the tail does not get past gap g: r must not be put in    *)
(* front of the request after it, or the price is prohibitive.             *)
Barred(c, r, g) == \/ GetCost(c, r, g.after) > CostReselect
                   \/ Extra(c, r, g) > 3 * CostReselect

(* The places r may be inserted at, each with its price: where the walk    *)
(* starts from, and the gaps up to the first barred one.                   *)
Start(c, r) ==
  IF Reorder /\ Cmd[r].tag = "head"
  THEN [at |-> 1, behind |-> c.first[Lun(r)], cost |-> -CostReselect]
  ELSE [at |-> 1, behind |-> c.last[Lun(r)], cost |-> GetCost(c, c.last[Lun(r)], r)]

Offers(c, r) ==
  {Start(c, r)} \cup
  {[at |-> g.at, behind |-> g.before, cost |-> Extra(c, r, g)] :
     g \in {g \in Gaps(c, Lun(r)) :
             /\ Reorder /\ Cmd[r].tag # "ordered"
             /\ \A h \in Gaps(c, Lun(r)) : h.at <= g.at => ~Barred(c, r, h)}}

(* The cheapest, of equal ones the first met, is the one that is taken.    *)
InsertBehind(c, r) ==
  LET offers == Offers(c, r)
  IN  {o.behind : o \in {o \in offers : \A x \in offers :
                         o.cost < x.cost \/ (o.cost = x.cost /\ o.at <= x.at)}}

FirstTtl(depth) == (IF depth >= MinTtl THEN depth ELSE MinTtl) % TtlMod

(* UniataQueueRequest on an empty device queue: the device becomes the     *)
(* channel's current one, whatever the other device is doing.              *)
QueueFirst(c, r) ==
  [c EXCEPT !.ttl[r] = 0, !.prev[r] = NULL, !.next[r] = NULL,
            !.first[Lun(r)] = r, !.last[Lun(r)] = r, !.cdev = Lun(r)]

(* c with r linked in behind p; those that are now behind r have aged. *)
Linked(c, r, p) ==
  LET n      == c.next[p]
      behind == Chain(c.next, n)
      passed == {behind[i] : i \in 1..Len(behind)}
  IN  [c EXCEPT
         !.prev = [s \in Reqs |-> IF s = r THEN p ELSE IF s = n THEN r ELSE @[s]],
         !.next = [s \in Reqs |-> IF s = p THEN r ELSE IF s = r THEN n ELSE @[s]],
         !.last[Lun(r)] = IF n = NULL THEN r ELSE @,
         !.ttl = [s \in Reqs |-> IF s \in passed THEN (@[s] + TtlMod - 1) % TtlMod
                                 ELSE @[s]]]

(* ... and on a busy one: r gets its ttl, then its place. *)
Entered(c, r) == [c EXCEPT !.ttl[r] = FirstTtl(c.depth[Lun(r)])]

QueueBehind(c, r) ==
  CHOOSE d \in {Linked(Entered(c, r), r, p) : p \in InsertBehind(Entered(c, r), r)} : TRUE

(* Planted defect: the first request of a device becomes the current one,  *)
(* as its device becomes the current device.                               *)
QueueRequestAsCur(c, r) ==
  LET l == Lun(r)
  IN  [(IF c.depth[l] = 0 THEN QueueFirst(c, r) ELSE QueueBehind(c, r)) EXCEPT
         !.depth[l] = @ + 1,
         !.total = @ + 1,
         !.cur = IF c.depth[l] = 0 THEN r ELSE @]

QueueRequest(c, r) ==
  LET l    == Lun(r)
      head == IF c.depth[l] = 0 THEN r ELSE c.first[l]
  IN  [(IF c.depth[l] = 0 THEN QueueFirst(c, r) ELSE QueueBehind(c, r)) EXCEPT
         !.depth[l] = @ + 1,
         !.total = @ + 1,
         !.cur = IF c.total = 0 THEN head ELSE @]

(* Planted defect: the turns do not count.                                 *)
NextLunLonger(depth, wait, l) ==
  IF Luns = {0} THEN l ELSE IF depth[0] > depth[1] THEN 0 ELSE 1

(* The device whose turn it is: the one with the larger product of queue   *)
(* length and number of turns it has waited.                               *)
NextLun(depth, wait, l) ==
  IF Luns = {0} THEN l
  ELSE IF depth[0] * (wait[0] + 1) > depth[1] * (wait[1] + 1) THEN 0 ELSE 1

(* Planted defects: the successor is not linked back, or not counted.      *)
UnlinkForward(c, r) ==
  LET p == c.prev[r]
      n == c.next[r]
      l == Lun(r)
  IN  [c EXCEPT !.next = [s \in Reqs |-> IF s = p THEN n ELSE @[s]],
                !.first[l] = IF p = NULL THEN n ELSE @,
                !.last[l] = IF n = NULL THEN p ELSE @,
                !.depth[l] = @ - 1,
                !.total = @ - 1]

UnlinkUncounted(c, r) ==
  LET p == c.prev[r]
      n == c.next[r]
      l == Lun(r)
  IN  [c EXCEPT !.next = [s \in Reqs |-> IF s = p THEN n ELSE @[s]],
                !.prev = [s \in Reqs |-> IF s = n THEN p ELSE @[s]],
                !.first[l] = IF p = NULL THEN n ELSE @,
                !.last[l] = IF n = NULL THEN p ELSE @,
                !.total = @ - 1]

Unlink(c, r) ==
  LET p == c.prev[r]
      n == c.next[r]
      l == Lun(r)
  IN  [c EXCEPT !.next = [s \in Reqs |-> IF s = p THEN n ELSE @[s]],
                !.prev = [s \in Reqs |-> IF s = n THEN p ELSE @[s]],
                !.first[l] = IF p = NULL THEN n ELSE @,
                !.last[l] = IF n = NULL THEN p ELSE @,
                !.depth[l] = @ - 1,
                !.total = @ - 1]

(* d, with r just unlinked, after a current device and request are chosen. *)
Promote(d, l, r) ==
  [d EXCEPT !.cur = d.first[l],
            !.cdev = l,
            !.wait = [m \in Luns |-> IF m = l \/ d.depth[m] = 0 THEN 0 ELSE @[m] + 1],
            !.state[r] = "NONE"]

(* UniataRemoveRequest: unlink r and choose the next current request.      *)
RemoveRequest(c, r) ==
  IF c.depth[Lun(r)] = 0 \/ c.state[r] = "NONE" THEN c
  ELSE LET d == Unlink(c, r)
       IN  Promote(d, NextLun(d.depth, c.wait, Lun(r)), r)
=============================================================================
