------------------------------ MODULE ReqOrder ------------------------------
(***************************************************************************)
(* What the request queue of a channel promises about order: the places of *)
(* ReqPlaces with the history that the promise speaks about, who came      *)
(* before whom and how often a request was overtaken.                      *)
(***************************************************************************)
EXTENDS ReqPlaces

VARIABLES older,     \* <<a, b>>: a was in b's queue when b arrived
          passed     \* passed[r]: how often r was overtaken since it arrived

vars == <<queue, ttl, older, passed>>

Distinct(s) == \A i, j \in 1..Len(s) : s[i] = s[j] => i = j

Queued == UNION {Members(queue[l]) : l \in Luns}

(* The history saturates: what matters is whether it stays below TtlMod.   *)
Count(n) == IF n = TtlMod THEN n ELSE n + 1

Init == InitPlaces /\ older = {} /\ passed = [r \in Reqs |-> 0]

ArriveIdle(r) ==
  /\ PlaceFirst(r)
  /\ passed' = [passed EXCEPT ![r] = 0]
  /\ UNCHANGED older

ArriveBusy(r) ==
  LET q == queue[Lun(r)]
  IN  \E p \in Places(r, q) :
        /\ PlaceBehind(r, p)
        /\ passed' = [s \in Reqs |->
                        IF s = r THEN 0
                        ELSE IF s \in {q[i] : i \in p+1..Len(q)}
                             THEN Count(passed[s]) ELSE passed[s]]
        /\ older' = older \cup {<<s, r>> : s \in Members(q)}

Depart(r) ==
  /\ TakeAway(r)
  /\ older' = {e \in older : r \notin {e[1], e[2]}}
  /\ passed' = [passed EXCEPT ![r] = 0]

Next == \E r \in Reqs : ArriveIdle(r) \/ ArriveBusy(r) \/ Depart(r)

Spec == Init /\ [][Next]_vars
-----------------------------------------------------------------------------
(* Every request stands at most once, in the queue of its own device. *)
TypeOK ==
  /\ queue \in [Luns -> Seq(Reqs)]
  /\ ttl \in [Reqs -> 0..TtlMod - 1]
  /\ older \subseteq Reqs \X Reqs
  /\ passed \in [Reqs -> 0..TtlMod]
  /\ \A l \in Luns : /\ Distinct(queue[l])
                     /\ \A r \in Members(queue[l]) : Lun(r) = l

(* s stands in front of r although r was queued first. *)
Overtook(s, r) ==
  \E l \in Luns : \E i, j \in 1..Len(queue[l]) :
    /\ i < j /\ queue[l][i] = s /\ queue[l][j] = r
    /\ <<r, s>> \in older

(* The data hazard of reordering (the comments "can't insert Req1 before   *)
(* tooooo old Req2" and "target areas can not intersect" of UniataGetCost):*)
(* whatever sequence of arrivals, completions and aborts happened, of two  *)
(* queued requests that touch a common block and are not both reads, or of *)
(* which one is not reorderable, the older is in front, unless the younger *)
(* was tagged HEAD_OF_QUEUE.                                               *)
ConflictOrder ==
  \A r, s \in Reqs :
    Overtook(s, r) => \/ Jumps(s)
                      \/ Roams(s) /\ BothReorderable(s, r) /\ ~Conflict(s, r)

(* The purpose of ttl: without HEAD_OF_QUEUE requests, no request is       *)
(* overtaken more often than the ttl it started with, which is at most the *)
(* larger of MIN_REQ_TTL and the queue depth, so reordering starves        *)
(* nobody.                                                                 *)
OvertakeLimit == IF MaxDepth >= MinTtl THEN MaxDepth ELSE MinTtl

BoundedOvertaking ==
  (\A r \in Reqs : ~Jumps(r)) => \A r \in Queued : passed[r] <= OvertakeLimit

(* The request the device works on is the head of its queue; no arrival    *)
(* ever displaces it, not even with HEAD_OF_QUEUE.                         *)
HeadStays ==
  [][\A l \in Luns :
       queue[l] # << >> /\ Head(queue[l]) \in Members(queue'[l])
         => Head(queue'[l]) = Head(queue[l])]_vars
=============================================================================
