------------------------------ MODULE ReqPlaces ------------------------------
(***************************************************************************)
(* Where id_queue.cpp may put a request, whatever the seek costs are.      *)
(* Each device has a queue; a new request goes to its tail, or overtakes   *)
(* some of the requests at the tail when reordering lets it; a request     *)
(* leaves when it is completed or aborted.  The request at the head is the *)
(* one the device is working on: nothing ever gets in front of it.         *)
(*                                                                         *)
(* The linked lists of ReqQueue, which chooses the place by cost,          *)
(* implement this specification; what the users of the queue get from it   *)
(* is stated in ReqOrder.                                                  *)
(***************************************************************************)
EXTENDS AtaReq, Sequences

CONSTANTS Reorder,   \* chan->UseReorder, the registry value ReorderEnable
          MaxDepth,  \* how many requests the port driver sends to a device
          MinTtl,    \* MIN_REQ_TTL
          TtlMod     \* ATA_REQ.ttl is a UCHAR: 256

ASSUME TtlAssumption == /\ Reorder \in BOOLEAN
                        /\ MaxDepth \in Nat
                        /\ MinTtl \in Nat
                        /\ TtlMod \in Nat \ {0}

VARIABLES queue,     \* queue[l]: the requests of device l, head first
          ttl        \* ttl[r]: overtakings request r still has to accept

Members(s) == {s[i] : i \in 1..Len(s)}

(* Planted defect: r is linked in, but not what follows it. *)
PutBehindUnlinked(s, p, r) ==
  [i \in 1..Len(s) + 1 |-> IF i <= p THEN s[i] ELSE IF i = p + 1 THEN r ELSE s[p]]

(* s with r inserted behind its first p elements, and s without element p. *)
PutBehind(s, p, r) ==
  [i \in 1..Len(s) + 1 |-> IF i <= p THEN s[i]
                           ELSE IF i = p + 1 THEN r ELSE s[i - 1]]
TakeOut(s, p) ==
  [i \in 1..Len(s) - 1 |-> IF i < p THEN s[i] ELSE s[i + 1]]

(* Planted defect: the blocks of the two requests are not compared. *)
MayPassBlindly(r, s) == ttl[s] > 0 /\ BothReorderable(r, s)

(* The promise of UniataGetCost: r may be placed in front of s. *)
MayPass(r, s) == ttl[s] > 0 /\ BothReorderable(r, s) /\ ~Conflict(r, s)

(* A HEAD_OF_QUEUE request goes right behind the head whatever is there.   *)
Jumps(r) == Reorder /\ Cmd[r].tag = "head"

Roams(r) == Reorder /\ Cmd[r].tag # "ordered"

(* Planted defect: the walk does not stop in front of the head. *)
PlacesPastHead(r, q) ==
  {p \in 0..Len(q) : \/ p = Len(q)
                     \/ Roams(r) /\ \A i \in p+1..Len(q) : MayPass(r, q[i])
                     \/ Jumps(r) /\ p = 1}

(* Behind how many requests of queue q a new request r may be placed.      *)
Places(r, q) ==
  {p \in 1..Len(q) : \/ p = Len(q)
                     \/ Roams(r) /\ \A i \in p+1..Len(q) : MayPass(r, q[i])
                     \/ Jumps(r) /\ p = 1}

(* (UCHAR)(max(queue_depth, MIN_REQ_TTL)), and the wrap of ttl--.          *)
FirstTtl(depth) == (IF depth >= MinTtl THEN depth ELSE MinTtl) % TtlMod

Ageless(t) == t   \* planted defect: no ttl--

Older(t) == IF t = 0 THEN TtlMod - 1 ELSE t - 1

InitPlaces == queue = [l \in Luns |-> << >>] /\ ttl = [r \in Reqs |-> 0]

(* The device has nothing to do: r is its queue. *)
PlaceFirst(r) ==
  /\ queue[Lun(r)] = << >>
  /\ queue' = [queue EXCEPT ![Lun(r)] = <<r>>]
  /\ ttl' = [ttl EXCEPT ![r] = 0]

(* r is placed behind the first p requests of its queue, and the requests  *)
(* behind it have been overtaken once more.                                *)
PlaceBehind(r, p) ==
  LET q      == queue[Lun(r)]
      behind == {q[i] : i \in p+1..Len(q)}
  IN  /\ r \notin Members(q)
      /\ Len(q) < MaxDepth
      /\ queue' = [queue EXCEPT ![Lun(r)] = PutBehind(q, p, r)]
      /\ ttl' = [s \in Reqs |-> IF s = r THEN FirstTtl(Len(q))
                                ELSE IF s \in behind THEN Older(ttl[s]) ELSE ttl[s]]

(* r is completed (normally from the head) or aborted. *)
TakeAway(r) ==
  /\ \E p \in 1..Len(queue[Lun(r)]) :
       /\ queue[Lun(r)][p] = r
       /\ queue' = [queue EXCEPT ![Lun(r)] = TakeOut(@, p)]
  /\ ttl' = [ttl EXCEPT ![r] = 0]

NextPlaces == \E r \in Reqs : \/ PlaceFirst(r)
                              \/ \E p \in Places(r, queue[Lun(r)]) : PlaceBehind(r, p)
                              \/ TakeAway(r)

SpecPlaces == InitPlaces /\ [][NextPlaces]_<<queue, ttl>>
=============================================================================
