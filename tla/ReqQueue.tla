------------------------------ MODULE ReqQueue ------------------------------
(***************************************************************************)
(* The queue of a channel under any sequence of the calls its users make:  *)
(* a request is queued, the current request is completed, a request that   *)
(* is not current is aborted.  What happens on the bus in between is the   *)
(* subject of ChanIo.                                                      *)
(***************************************************************************)
EXTENDS ChanQueue, SequencesExt

CONSTANT MaxDepth   \* how many requests the port driver sends to a device

ASSUME DepthAssumption == MaxDepth \in Nat

VARIABLE chan

InitQueue == chan = EmptyQueue

(* AtapiStartIo clears the extension of a new SRB (UniAtaClearAtaReq), so  *)
(* what the last use left in it is forgotten when the request leaves.      *)
Leave(c, r) ==
  [RemoveRequest(c, r) EXCEPT !.next[r] = NULL, !.prev[r] = NULL, !.ttl[r] = 0]

(* AtapiStartIo__ with a new SRB. *)
PostReq(r) ==
  /\ chan.state[r] = "NONE"
  /\ chan.depth[Lun(r)] < MaxDepth
  /\ chan' = [QueueRequest(chan, r) EXCEPT !.state[r] = "QUEUED"]

(* The request UniataGetCurRequest returns is completed. *)
CompleteCur ==
  /\ chan.cur # NULL
  /\ chan' = Leave(chan, chan.cur)

(* SRB_FUNCTION_ABORT_COMMAND for a request that is waiting. *)
AbortReq(r) ==
  /\ chan.state[r] # "NONE"
  /\ r # chan.cur
  /\ chan' = Leave(chan, r)

NextQueue == CompleteCur \/ \E r \in Reqs : PostReq(r) \/ AbortReq(r)

SpecQueue == InitQueue /\ [][NextQueue]_chan
-----------------------------------------------------------------------------
Pending == {r \in Reqs : chan.state[r] # "NONE"}

(* The two directions of each list agree, the list holds exactly the       *)
(* pending requests of its device, each once, and queue_depth is its       *)
(* length.                                                                 *)
ListsAgree ==
  \A l \in Luns :
    /\ List(chan, l) = Reverse(Chain(chan.prev, chan.last[l]))
    /\ chan.depth[l] = Len(List(chan, l))
    /\ IsInjective(List(chan, l))
    /\ ToSet(List(chan, l)) = Pending \cap OfLun(l)

(* Neither device starves the other: a device with requests is passed over *)
(* at most as often as the other one can have requests queued.             *)
WaitBounded == \A l \in Luns : chan.wait[l] <= MaxDepth

(* The linked lists, the costs and the ttls implement ReqPlaces: only what *)
(* may be overtaken is overtaken (ttl not used up, both reorderable, no    *)
(* common block unless both read), and never the head.                     *)
Placing == INSTANCE ReqPlaces
             WITH queue <- [l \in Luns |-> List(chan, l)],
                  ttl <- [r \in Reqs |-> IF r \in Pending THEN chan.ttl[r] ELSE 0]

ImplementsPlaces == Placing!SpecPlaces
=============================================================================
