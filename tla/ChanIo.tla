------------------------------- MODULE ChanIo -------------------------------
(***************************************************************************)
(* One channel of a non-simplex IDE controller with hard disks on it: the  *)
(* request queue of ChanQueue, the loop of AtapiStartIo__ that takes       *)
(* requests from it, the interrupt handler, and what the port driver does  *)
(* when it loses patience (abort, device reset, bus reset).                *)
(*                                                                         *)
(* ScsiPort calls the driver with the adapter lock held, so handlers do    *)
(* not interleave: while AtapiStartIo__ is in its loop (run # Idle)        *)
(* nothing else happens.  One turn of the loop is one action.              *)
(***************************************************************************)
EXTENDS ChanQueue

CONSTANTS Kind,        \* Kind[r]: how the driver carries request r out
          Parts,       \* Parts[r]: ATA commands it takes (a track each)
          MaxRetries,  \* MAX_RETRIES
          Faults       \* what may go wrong, see FaultKinds

(* dma     a read or write (IdeReadWrite), set up when it is queued        *)
(* pio     a write without DMA: its first data go out with the command     *)
(* verify  cannot be prepared, ends with an interrupt (IdeVerify)          *)
(* probe   cannot be prepared, is answered without an interrupt (INQUIRY)  *)
(* sense   is answered while it is prepared (READ_CAPACITY)                *)
(* smart   an IO_CONTROL request (IdeSendSmartCommand)                     *)
Kinds == {"dma", "pio", "verify", "probe", "sense", "smart"}

(* error   a command ends with an error                                    *)
(* refuse  a command fails when it is sent (bad block list, ERR, no DRQ)   *)
(* stuck   BSY or DRQ never go away after a command                        *)
(* busy    a drive is busy on its own account when a command is sent       *)
(* The other three are calls of the port driver.                           *)
FaultKinds == {"error", "refuse", "stuck", "busy",
               "abort", "resetDevice", "immediate"}

ASSUME IoAssumption == /\ Kind \in [Reqs -> Kinds]
                       /\ Parts \in [Reqs -> Nat \ {0}]
                       /\ MaxRetries \in Nat \ {0}
                       /\ Faults \subseteq FaultKinds

VARIABLES queue,   \* the queue of the channel, a record of ChanQueue
          run,     \* the loop of AtapiStartIo__: its Srb and TopLevel
          dev,     \* the request whose command the hardware executes
          expect,  \* chan->ExpectingInterrupt
          tries,   \* AtaReq->retry
          parts,   \* ATA commands that are still to be done
          owed     \* RequestComplete notifications the port driver waits for

vars == <<queue, run, dev, expect, tries, parts, owed>>

Idle == [srb |-> NULL, top |-> FALSE]

(* A bus reset is completing the requests of the channel.                  *)
Resetting == [srb |-> NULL, top |-> TRUE]

(* The order of the REQ_STATE_ values. *)
Level == [NONE |-> 0, QUEUED |-> 1, PREPARE |-> 2, NEXT |-> 3, READY |-> 4,
          EXPECTING |-> 5, COMPLETE |-> 6]

InState(q, r, st) == [q EXCEPT !.state[r] = st]

Init == /\ queue = EmptyQueue
        /\ run = Idle
        /\ dev = NULL
        /\ expect = FALSE
        /\ tries = [r \in Reqs |-> 0]
        /\ parts = [r \in Reqs |-> 0]
        /\ owed = [r \in Reqs |-> 0]
-----------------------------------------------------------------------------
(* AtapiStartIo__ *)

(* AtapiStartIo: a new SRB, its extension cleared. *)
Call(r) ==
  /\ run = Idle
  /\ owed[r] = 0
  /\ queue' = [queue EXCEPT !.next[r] = NULL, !.prev[r] = NULL, !.ttl[r] = 0,
                            !.state[r] = "NONE"]
  /\ tries' = [tries EXCEPT ![r] = 0]
  /\ parts' = [parts EXCEPT ![r] = Parts[r]]
  /\ owed' = [owed EXCEPT ![r] = 1]
  /\ run' = [srb |-> r, top |-> TRUE]
  /\ UNCHANGED <<dev, expect>>

(* Planted defect: the current request is taken up whatever its state. *)
FetchAny(q, top) ==
  IF q.cur # NULL THEN [srb |-> q.cur, top |-> top] ELSE Idle

(* complete_req, second half: go on with the current request, unless it is *)
(* past QUEUED ("under processing").                                       *)
Fetch(q, top) ==
  IF q.cur # NULL /\ Level[q.state[q.cur]] <= Level["QUEUED"]
  THEN [srb |-> q.cur, top |-> top] ELSE Idle

(* complete_req with a status other than PENDING. *)
Finish(q, r, top) ==
  /\ queue' = RemoveRequest(q, r)
  /\ owed' = [owed EXCEPT ![r] = @ - 1]
  /\ run' = Fetch(queue', top)

(* UniataNeedQueueing: a new request waits if the channel has requests.    *)
MustWait(r) == run.srb = r /\ run.top /\ queue.total > 0

MayGo(r) == run.srb = r /\ ~(run.top /\ queue.total > 0)

(* CMD_ACTION_PREPARE, then queue the request; BUSY becomes PENDING. *)
Prepared(r) == CASE Kind[r] \in {"dma", "pio"} -> "READY"
                 [] Kind[r] \in {"verify", "probe"} -> "PREPARE"
                 [] OTHER -> "COMPLETE"

PostPending(r) ==
  /\ MustWait(r)
  /\ Kind[r] \notin {"sense", "smart"}
  /\ queue' = QueueRequest(InState(queue, r, Prepared(r)), r)
  /\ run' = Idle
  /\ UNCHANGED <<dev, expect, tries, parts, owed>>

PostAnswered(r) ==
  /\ MustWait(r)
  /\ Kind[r] = "sense"
  /\ Finish(QueueRequest(InState(queue, r, Prepared(r)), r), r, FALSE)
  /\ UNCHANGED <<dev, expect, tries, parts>>

(* A SMART request is not prepared. *)
PostSmart(r) ==
  /\ MustWait(r)
  /\ Kind[r] = "smart"
  /\ queue' = InState(QueueRequest(queue, r), r, "QUEUED")
  /\ run' = Idle
  /\ UNCHANGED <<dev, expect, tries, parts, owed>>

(* The queue when CMD_ACTION_ALL is carried out: a new request was queued. *)
Taken(r) == IF run.top THEN InState(QueueRequest(queue, r), r, "QUEUED") ELSE queue

(* The command is sent and an interrupt expected.  IdeSendSmartCommand     *)
(* leaves the state of its request as it is.                               *)
Execute(r) ==
  /\ MayGo(r)
  /\ Kind[r] \in {"dma", "pio", "verify", "smart"}
  /\ queue' = IF Kind[r] = "smart" THEN Taken(r) ELSE InState(Taken(r), r, "EXPECTING")
  /\ dev' = r
  /\ expect' = TRUE
  /\ run' = Idle
  /\ UNCHANGED <<tries, parts, owed>>

(* The drive stays busy, maybe with another command: AtaCommand48 returns  *)
(* a status without ERR, and IdeReadWrite takes the command for sent.      *)
Unsent(r) ==
  /\ MayGo(r)
  /\ Kind[r] = "dma"
  /\ dev # NULL \/ "busy" \in Faults
  /\ queue' = InState(Taken(r), r, "EXPECTING")
  /\ run' = Idle
  /\ UNCHANGED <<dev, expect, tries, parts, owed>>

(* Answered without an interrupt. *)
Answer(r) ==
  /\ MayGo(r)
  /\ Kind[r] \in {"probe", "sense"}
  /\ Finish(InState(Taken(r), r, "COMPLETE"), r, FALSE)
  /\ UNCHANGED <<dev, expect, tries, parts>>

(* The command fails at once.  TopLevel is reset for SCSI requests only. *)
Refuse(r) ==
  /\ "refuse" \in Faults
  /\ MayGo(r)
  /\ \/ /\ Kind[r] \in {"dma", "verify"}
        /\ Finish(InState(Taken(r), r, "COMPLETE"), r, FALSE)
     \/ /\ Kind[r] = "smart"
        /\ Finish(Taken(r), r, run.top)
  /\ UNCHANGED <<dev, expect, tries, parts>>

(* DRQ never comes for the data of a PIO write: IdeReadWrite removes the   *)
(* request, IdeSendCommand sets its state, complete_req removes it again.  *)
NoDrq(r) ==
  /\ "refuse" \in Faults
  /\ MayGo(r)
  /\ Kind[r] = "pio"
  /\ expect' = FALSE
  /\ Finish(InState(RemoveRequest(Taken(r), r), r, "COMPLETE"), r, FALSE)
  /\ UNCHANGED <<dev, tries, parts>>

Step == \E r \in Reqs : \/ PostPending(r) \/ PostAnswered(r) \/ PostSmart(r)
                        \/ Execute(r) \/ Unsent(r) \/ Answer(r)
                        \/ Refuse(r) \/ NoDrq(r)
-----------------------------------------------------------------------------
(* AtapiInterrupt__: the hardware has finished.  The handler takes the     *)
(* current request of the queue for the one that was executed.             *)
Interrupted(r) == run = Idle /\ dev # NULL /\ expect /\ r = queue.cur

(* A part of a chained transfer is done: the request stays where it is. *)
NextPart(r) ==
  /\ Interrupted(r)
  /\ parts[r] > 1
  /\ parts' = [parts EXCEPT ![r] = @ - 1]
  /\ queue' = InState(queue, r, "NEXT")
  /\ run' = [srb |-> r, top |-> FALSE]
  /\ dev' = NULL
  /\ expect' = FALSE
  /\ UNCHANGED <<tries, owed>>

(* Planted defects: the attempts are not counted, or one too many is made. *)
RetryUncounted(r) ==
  /\ "error" \in Faults
  /\ Interrupted(r)
  /\ Kind[r] = "dma"
  /\ queue' = InState(queue, r, "QUEUED")
  /\ run' = [srb |-> r, top |-> FALSE]
  /\ dev' = NULL
  /\ UNCHANGED <<tries, expect, parts, owed>>

RetryOnceMore(r) ==
  /\ "error" \in Faults
  /\ Interrupted(r)
  /\ Kind[r] = "dma"
  /\ tries[r] < MaxRetries
  /\ tries' = [tries EXCEPT ![r] = @ + 1]
  /\ queue' = InState(queue, r, "QUEUED")
  /\ run' = [srb |-> r, top |-> FALSE]
  /\ dev' = NULL
  /\ UNCHANGED <<expect, parts, owed>>

(* A failed DMA transfer is queued for another attempt. *)
Retry(r) ==
  /\ "error" \in Faults
  /\ Interrupted(r)
  /\ Kind[r] = "dma"
  /\ tries[r] + 1 < MaxRetries
  /\ tries' = [tries EXCEPT ![r] = @ + 1]
  /\ queue' = InState(queue, r, "QUEUED")
  /\ run' = [srb |-> r, top |-> FALSE]
  /\ dev' = NULL
  /\ UNCHANGED <<expect, parts, owed>>

(* Planted defect: the successor is started only if it was not prepared.   *)
DoneThenFetch(r) ==
  /\ Interrupted(r)
  /\ parts[r] <= 1
  /\ queue' = RemoveRequest(queue, r)
  /\ owed' = [owed EXCEPT ![r] = @ - 1]
  /\ run' = Fetch(queue', FALSE)
  /\ dev' = NULL
  /\ expect' = FALSE
  /\ UNCHANGED <<tries, parts>>

(* The request is done, or has failed for good; its successor is started   *)
(* whatever its state.                                                     *)
Done(r) ==
  /\ Interrupted(r)
  /\ \/ parts[r] <= 1
     \/ "error" \in Faults /\ (Kind[r] = "dma" => tries[r] + 1 >= MaxRetries)
  /\ queue' = RemoveRequest(queue, r)
  /\ owed' = [owed EXCEPT ![r] = @ - 1]
  /\ run' = [srb |-> queue'.cur, top |-> FALSE]
  /\ dev' = NULL
  /\ expect' = FALSE
  /\ UNCHANGED <<tries, parts>>

(* Planted defect: the request is completed and stays in the queue. *)
ResetCurrentInQueue ==
  /\ owed' = [r \in Reqs |-> IF r = queue.cur THEN owed[r] - 1 ELSE owed[r]]
  /\ dev' = NULL
  /\ expect' = FALSE
  /\ UNCHANGED queue

(* AtapiResetController__ with RESET_COMPLETE_CURRENT: the current request *)
(* is completed and the hardware stops.                                    *)
ResetCurrent ==
  /\ queue' = IF queue.cur = NULL THEN queue ELSE RemoveRequest(queue, queue.cur)
  /\ owed' = [r \in Reqs |-> IF r = queue.cur THEN owed[r] - 1 ELSE owed[r]]
  /\ dev' = NULL
  /\ expect' = FALSE

(* IntrPrepareResetController *)
Stuck ==
  /\ "stuck" \in Faults
  /\ Interrupted(queue.cur)
  /\ ResetCurrent
  /\ UNCHANGED <<run, tries, parts>>

Interrupt == Stuck \/ \E r \in Reqs : NextPart(r) \/ Retry(r) \/ Done(r)
-----------------------------------------------------------------------------
(* The other SRBs.  Each is completed at once: its own extension is in     *)
(* state NONE, so complete_req removes nothing and goes on with the        *)
(* current request, TopLevel still TRUE.                                   *)

(* SRB_FUNCTION_FLUSH, SRB_FUNCTION_SHUTDOWN and the like *)
Immediate ==
  /\ "immediate" \in Faults
  /\ run = Idle
  /\ run' = Fetch(queue, TRUE)
  /\ UNCHANGED <<queue, dev, expect, tries, parts, owed>>

(* SRB_FUNCTION_ABORT_COMMAND *)
Abort(r) ==
  /\ "abort" \in Faults
  /\ run = Idle
  /\ owed[r] = 1
  /\ queue.total > 0
  /\ \/ /\ Level[queue.state[r]] > Level["READY"]
        /\ ResetCurrent
     \/ /\ Level[queue.state[r]] <= Level["READY"]
        /\ queue' = RemoveRequest(queue, r)
        /\ owed' = [owed EXCEPT ![r] = @ - 1]
        /\ UNCHANGED <<dev, expect>>
  /\ run' = Fetch(queue', TRUE)
  /\ UNCHANGED <<tries, parts>>

(* SRB_FUNCTION_RESET_DEVICE for a disk: RESET_COMPLETE_NONE *)
ResetDevice ==
  /\ "resetDevice" \in Faults
  /\ run = Idle
  /\ dev' = NULL
  /\ expect' = FALSE
  /\ run' = Fetch(queue, TRUE)
  /\ UNCHANGED <<queue, tries, parts, owed>>

(* AtapiResetController, called when a request has timed out: with         *)
(* RESET_COMPLETE_ALL one request after the other is completed, then the   *)
(* hardware stops.                                                         *)
ResetBus ==
  /\ run = Idle
  /\ \E r \in Reqs : owed[r] > 0
  /\ run' = Resetting
  /\ UNCHANGED <<queue, dev, expect, tries, parts, owed>>

(* Planted defect: the port driver is not notified. *)
ResetOneSilently(r) ==
  /\ run = Resetting
  /\ r = queue.cur
  /\ queue' = RemoveRequest(queue, r)
  /\ UNCHANGED <<run, dev, expect, tries, parts, owed>>

ResetOne(r) ==
  /\ run = Resetting
  /\ r = queue.cur
  /\ queue' = RemoveRequest(queue, r)
  /\ owed' = [owed EXCEPT ![r] = @ - 1]
  /\ UNCHANGED <<run, dev, expect, tries, parts>>

ResetEnd ==
  /\ run = Resetting
  /\ queue.cur = NULL
  /\ dev' = NULL
  /\ expect' = FALSE
  /\ run' = Idle
  /\ UNCHANGED <<queue, tries, parts, owed>>

ResetStep == ResetEnd \/ \E r \in Reqs : ResetOne(r)

PortDriver == Immediate \/ ResetDevice \/ \E r \in Reqs : Call(r) \/ Abort(r)

Next == Step \/ Interrupt \/ PortDriver \/ ResetBus \/ ResetStep

Spec == Init /\ [][Next]_vars

(* The loop goes on, and a pending interrupt is served when the adapter    *)
(* lock is free; the hardware finishes every command.                      *)
Fairness == WF_vars(Step) /\ SF_vars(Interrupt)

(* ... without bus resets: nothing ever times out. *)
PatientSpec ==
  Init /\ [][Step \/ Interrupt \/ PortDriver]_vars /\ Fairness

(* ... and with them: the port driver's timer runs out for a request that  *)
(* is not completed.                                                       *)
TimeoutSpec ==
  Spec /\ Fairness /\ WF_vars(ResetStep) /\ SF_vars(ResetBus)
-----------------------------------------------------------------------------
Listed(l) == LET s == List(queue, l) IN {s[i] : i \in 1..Len(s)}

TypeOK ==
  /\ DOMAIN queue = DOMAIN EmptyQueue
  /\ queue.state \in [Reqs -> DOMAIN Level]
  /\ run.srb \in Reqs \cup {NULL} /\ run.top \in BOOLEAN
  /\ dev \in Reqs \cup {NULL}
  /\ expect \in BOOLEAN
  /\ tries \in [Reqs -> 0..MaxRetries - 1]
  /\ parts \in [Reqs -> Nat]
  /\ owed \in [Reqs -> Int]

(* The port driver gets exactly one RequestComplete for each SRB, and a    *)
(* request it waits for is in the queue of its device, or is the one that  *)
(* AtapiStartIo__ has in hand: none is completed twice, none is lost.      *)
CompletedOnce ==
  \A r \in Reqs : /\ owed[r] \in {0, 1}
                  /\ owed[r] = 1 <=> (r \in Listed(Lun(r)) \/ (run.srb = r /\ run.top))

(* UniataRemoveRequest, "Remove request from queue and get next request":  *)
(* when nobody works on the queue, a completed request is not in it and    *)
(* not the current one, and queue_depth is the length of the list.         *)
NoneLeftBehind ==
  run = Idle =>
    \A l \in Luns : /\ \A r \in Listed(l) : owed[r] = 1
                    /\ queue.depth[l] = Cardinality(Listed(l))

(* "fetch all queued commands for the channel": the loop of AtapiStartIo__ *)
(* and the interrupt handler leave no channel idle that has requests.      *)
StaysBusy == run = Idle /\ queue.total > 0 => dev # NULL

(* UniataGetCurRequest, "Get currently processed request": while the       *)
(* hardware executes a command, the current request is the one the command *)
(* belongs to, so the interrupt completes the right SRB.                   *)
CurIsExecuted == dev # NULL => queue.cur = dev

(* "current request is under precessing, thus we should do nothing here":  *)
(* AtapiStartIo__ never takes up a request that the hardware executes.     *)
LeftAlone == dev # NULL => run.srb # dev

(* A request is completed although its commands keep failing: the retries  *)
(* come to an end, and reordering or the other device do not hold it up.   *)
EveryoneCompleted == \A r \in Reqs : owed[r] > 0 ~> owed[r] <= 0
=============================================================================
