----------------------------- MODULE IntrCheck -----------------------------
(***************************************************************************)
(* How an interrupt of a controller with several channels is noticed and   *)
(* handed to the handler of its channel.                                   *)
(*                                                                         *)
(* AtapiInterrupt, the start of a command and the calls of the timer hold  *)
(* the adapter lock; AtapiInterrupt2 is connected to the same vector and   *)
(* does not.  What they share is CheckIntr, a lock and a message in one:   *)
(* CHECK and ACTIVE say who looks at the channel, DETECTED says that       *)
(* AtapiInterrupt2 took an interrupt off the device that the handler must  *)
(* see.  DisableIntr keeps a channel silent while it waits for a call of   *)
(* the timer.  The handler itself is reduced to its ways of ending.        *)
(***************************************************************************)
EXTENDS Integers, Sequences

CONSTANTS N,         \* deviceExtension->NumberChannels
          Chips,     \* kinds of interrupt check, see ChipCheck
          SecondIsr, \* values of BMList[].Isr2Enable to be looked at
          Waits      \* ways a handler may ask the timer for a second look

ASSUME IntrAssumption == /\ N \in Nat \ {0}
                         /\ Chips \subseteq {"plain", "flag", "sata"}
                         /\ SecondIsr \subseteq BOOLEAN
                         /\ Waits \subseteq {"again", "dpc", "rdp"}

Chan == 0..N - 1

VARIABLES
  hw,        \* [chip, isr2]: the controller, chosen once
  job,       \* the current request: "done" is a device that has interrupted,
             \* some packet devices do so while they are still busy
  line,      \* the device asserts its interrupt
  event,     \* a SATA link event of the channel is pending
  check,     \* chan->CheckIntr
  disabled,  \* chan->DisableIntr
  expecting, \* chan->ExpectingInterrupt
  count,     \* deviceExtension->ExpectingInterrupt
  dpcReq,    \* CTRFLAGS_DPC_REQ of chan->ChannelCtrlFlags
  timer,     \* chan->HwScsiTimer: which call the channel waits for
  first,     \* deviceExtension->FirstChannelToCheck
  calls,     \* handlers still to be called for the interrupt delivered
  holder,    \* who holds the adapter lock, and how far it is
  isr2,      \* AtapiInterrupt2, and how far it is
  dropped    \* history: channels whose interrupt the code throws away, see Lost

device == <<job, line, event, dropped>>
marks  == <<check, disabled, expecting, count, dpcReq, timer>>
vars   == <<hw, device, marks, first, calls, holder, isr2>>

Free     == [by |-> "none"]
NotInIsr == [at |-> "out"]

Init == /\ hw \in [chip : Chips, isr2 : SecondIsr]
        /\ job = [c \in Chan |-> "none"]
        /\ line = [c \in Chan |-> FALSE]
        /\ event = [c \in Chan |-> FALSE]
        /\ check = [c \in Chan |-> "IDLE"]
        /\ disabled = [c \in Chan |-> 0]
        /\ expecting = [c \in Chan |-> FALSE]
        /\ count = 0
        /\ dpcReq = [c \in Chan |-> FALSE]
        /\ timer = [c \in Chan |-> "none"]
        /\ first = 0
        /\ calls = <<>>
        /\ holder = Free
        /\ isr2 = NotInIsr
        /\ dropped = {}
-----------------------------------------------------------------------------
(* The controller's interrupt line, as the processor sees it. *)
Asserted == \E c \in Chan : (line[c] /\ disabled[c] = 0) \/ event[c]

(* The processor calls the handlers of the vector one after the other, in  *)
(* the order they were connected, until one says that it was its own       *)
(* interrupt; only then the vector may interrupt again.                    *)
Deliver ==
  /\ Asserted
  /\ calls = <<>>
  /\ holder.by # "isr" /\ isr2 = NotInIsr
  /\ calls' \in (IF hw.isr2 THEN {<<"isr", "isr2">>, <<"isr2", "isr">>}
                 ELSE {<<"isr">>})
  /\ UNCHANGED <<hw, device, marks, first, holder, isr2>>

Called(handler) == calls # <<>> /\ Head(calls) = handler

(* A handler returns status: if it is TRUE the others are not called. *)
Returned(status) == calls' = IF status THEN <<>> ELSE Tail(calls)

(* The device finishes what it was asked for. *)
Finish(c) ==
  /\ job[c] = "busy"
  /\ job' = [job EXCEPT ![c] = "done"]
  /\ line' = [line EXCEPT ![c] = TRUE]
  /\ UNCHANGED <<hw, event, dropped, marks, first, calls, holder, isr2>>

(* Some devices interrupt once more, when nothing is asked for any more. *)
Spurious(c) ==
  /\ job[c] = "none"
  /\ ~line[c]
  /\ line' = [line EXCEPT ![c] = TRUE]
  /\ UNCHANGED <<hw, job, event, dropped, marks, first, calls, holder, isr2>>

LinkEvent(c) ==
  /\ hw.chip = "sata"
  /\ ~event[c]
  /\ event' = [event EXCEPT ![c] = TRUE]
  /\ UNCHANGED <<hw, job, line, dropped, marks, first, calls, holder, isr2>>
-----------------------------------------------------------------------------
(* A register of the chip that knows of an interrupt of the channel ends   *)
(* the check (STOP) when it denies one.                                    *)
FlagRegister(c) == IF line[c] THEN "IGNORE" ELSE "STOP"

(* A link event that was cleared explains the interrupt.                   *)
LinkRegister(c) == IF event[c] THEN "UNEXPECTED" ELSE "IGNORE"

(* What the chip itself says of the channel.                               *)
ChipCheck(c) ==
  CASE hw.chip = "flag" -> FlagRegister(c)
    [] hw.chip = "sata" -> LinkRegister(c)
    [] OTHER            -> "IGNORE"

(* OurInterrupt before the status is looked at: an error of the DMA engine *)
(* or of the device, or an engine nobody has started, makes it UNEXPECTED. *)
Words(c) == {ChipCheck(c), "UNEXPECTED"}

(* Returns of AtapiCheckInterrupt__ that leave the base status unread, and *)
(* the interrupt asserted: the chip denies it, the DMA engine has not      *)
(* finished, the device is busy.                                           *)
Unread(c) ==
  {[res |-> r, reads |-> FALSE] :
     r \in {"IGNORE"} \cup (IF ChipCheck(c) = "STOP" THEN {} ELSE Words(c))}

(* Returns after the base status was read, which takes the interrupt off   *)
(* the device: it is ours if it is expected, unless that status has        *)
(* neither DRQ nor DRDY.  A device that was busy did not interrupt.        *)
Read(c) ==
  {[res |-> r, reads |-> TRUE] :
     r \in IF ChipCheck(c) = "STOP" \/ job[c] = "busy" THEN {}
           ELSE Words(c) \cup (IF expecting[c] THEN {"OUR"} ELSE {})}

(* The ways AtapiCheckInterrupt__ may end. *)
Checks(c) == Unread(c) \cup Read(c)

(* The command is sent, and the driver not told yet to expect its          *)
(* interrupt.                                                              *)
Sending(c) == holder.by = "io" /\ holder.own = c

(* Two ways the code throws an interrupt away that it has taken off the    *)
(* device: the status read has neither DRQ nor DRDY (4884), or it is read  *)
(* between the command (1035) and the note that it is expected (1102).     *)
Lost(c, chk) == /\ job[c] = "done" /\ chk.reads /\ chk.res # "OUR"
                /\ expecting[c] \/ Sending(c)

(* AtapiCheckInterrupt__ and what it takes off the hardware. *)
CheckInterrupt(c, chk) ==
  /\ line' = [line EXCEPT ![c] = @ /\ ~chk.reads]
  /\ event' = [event EXCEPT ![c] = FALSE]
  /\ dropped' = IF Lost(c, chk) THEN dropped \cup {c} ELSE dropped
  /\ UNCHANGED job
-----------------------------------------------------------------------------
(* What becomes of the fields of a channel, and of the hint that counts    *)
(* the interrupts expected.                                                *)
Result(j, exp, chk, dis, dpc, call, hint) ==
  [job |-> j, expecting |-> exp, check |-> chk, disabled |-> dis,
   dpcReq |-> dpc, timer |-> call, count |-> hint]

(* A third way to lose an interrupt: PostToDpc (5104) notes that none is    *)
(* expected, and a request that goes on in the DPC leaves it at that.      *)
Unheard(r) == r.job = "busy" /\ ~r.expecting

Set(c, r) ==
  /\ job' = [job EXCEPT ![c] = r.job]
  /\ expecting' = [expecting EXCEPT ![c] = r.expecting]
  /\ check' = [check EXCEPT ![c] = r.check]
  /\ disabled' = [disabled EXCEPT ![c] = r.disabled]
  /\ dpcReq' = [dpcReq EXCEPT ![c] = r.dpcReq]
  /\ timer' = [timer EXCEPT ![c] = r.timer]
  /\ count' = r.count
  /\ dropped' = IF Unheard(r) THEN dropped \cup {c} ELSE dropped \ {c}

OneLess == IF count > 0 THEN count - 1 ELSE 0

(* AtapiDisableInterrupts and AtapiEnableInterrupts: they nest.            *)
Silenced(c) == disabled[c] + 1
Given(c)    == IF disabled[c] > 0 THEN disabled[c] - 1 ELSE 0

(* Planted defect: the channel stays silent. *)
ReturnSilent(c, j, exp) ==
  Result(j, exp, "IDLE", disabled[c], dpcReq[c],
         IF disabled[c] > 0 THEN "enable" ELSE timer[c], 1)

(* ReturnEnableIntr: one DisableIntr is taken back, and another call of    *)
(* the timer is ordered to look for interrupts of the other channels.      *)
ReturnEnableIntr(c, j, exp) ==
  Result(j, exp, "IDLE", Given(c),
         dpcReq[c], IF disabled[c] > 0 THEN "enable" ELSE timer[c], 1)

(* Planted defect: the channel is silenced again in the DPC. *)
CallTimerDpcTwice(c, inDpc, j, exp, chk) ==
  Result(j, exp, chk, disabled[c] + 1, dpcReq[c], "callback",
         IF exp THEN count ELSE OneLess)

(* CallTimerDpc, CallTimerDpc2: the channel is silenced unless it is       *)
(* already, and the request looked at again by AtapiCallBack_X.            *)
CallTimerDpc(c, inDpc, j, exp, chk) ==
  Result(j, exp, chk, IF inDpc THEN disabled[c] ELSE Silenced(c),
         dpcReq[c], "callback", IF exp THEN count ELSE OneLess)

(* PostToDpc: the request is finished by AtapiInterruptDpc. *)
PostToDpc(c) ==
  Result(job[c], FALSE, check[c], Silenced(c), TRUE, "dpc", OneLess)

(* Ways AtapiInterrupt__ may end when it serves the channel: the next      *)
(* request was started or this one goes on in the device, it is done, it   *)
(* needs another look.                                                     *)
Outcomes(c, inDpc) ==
  {ReturnEnableIntr(c, "busy", e) : e \in {TRUE, expecting[c]}}
  \cup {ReturnEnableIntr(c, "none", FALSE)}
  \cup {CallTimerDpc(c, inDpc, "done", TRUE, check[c]) :
          w \in {x \in Waits : x = "again" /\ expecting[c]}}
  \cup {CallTimerDpc(c, inDpc, "rdp", FALSE, "IDLE") : w \in Waits \cap {"rdp"}}
  \cup (IF inDpc THEN {} ELSE {PostToDpc(c) : w \in Waits \cap {"dpc"}})

(* AtapiInterrupt__, with the IDLE its callers store when it is FALSE.     *)
(* Reading the base status takes the interrupt off the device.             *)
Handle(c, inDpc) ==
  \/ /\ ~inDpc /\ ~expecting[c]
     /\ check' = [check EXCEPT ![c] = "IDLE"]
     /\ UNCHANGED <<device, disabled, expecting, count, dpcReq, timer>>
  \/ /\ inDpc \/ expecting[c]
     /\ \E r \in Outcomes(c, inDpc) : Set(c, r)
     /\ line' = [line EXCEPT ![c] = FALSE]
     /\ UNCHANGED event
-----------------------------------------------------------------------------
(* A command for an idle channel is sent under the lock, ...               *)
Send(c) ==
  /\ holder = Free
  /\ job[c] = "none"
  /\ job' = [job EXCEPT ![c] = "busy"]
  /\ dropped' = dropped \ {c}
  /\ holder' = [by |-> "io", own |-> c]
  /\ UNCHANGED <<hw, line, event, marks, first, calls, isr2>>

(* ... and then its interrupt is expected: whatever CheckIntr says, it is  *)
(* IDLE now.                                                               *)
Expect ==
  /\ holder.by = "io"
  /\ check' = [check EXCEPT ![holder.own] = "IDLE"]
  /\ expecting' = [expecting EXCEPT ![holder.own] = TRUE]
  /\ count' = count + 1
  /\ holder' = Free
  /\ UNCHANGED <<hw, device, disabled, dpcReq, timer, first, calls, isr2>>

(* AtapiInterrupt is called.  It looks at the channels twice, first at     *)
(* those that expect an interrupt.                                         *)
IsrEnter ==
  /\ holder = Free
  /\ Called("isr")
  /\ holder' = [by |-> "isr", at |-> "scan", pass |-> 0, k |-> 0,
                seen |-> {}, status |-> FALSE, res |-> "IGNORE"]
  /\ count' = 0
  /\ UNCHANGED <<hw, device, check, disabled, expecting, dpcReq, timer, first, calls, isr2>>

InIsr(place) == holder.by = "isr" /\ holder.at = place

IsrChan == (holder.k + first) % N

NextOne(h) == [h EXCEPT !.k = @ + 1, !.at = "scan"]

(* The next channel needs no look, or the pass is over. *)
IsrPass ==
  /\ InIsr("scan")
  /\ \/ /\ holder.k < N
        /\ \/ IsrChan \in holder.seen
           \/ holder.pass = 0 /\ ~expecting[IsrChan]
        /\ holder' = NextOne(holder)
        /\ UNCHANGED <<first, calls>>
     \/ /\ holder.k = N
        /\ holder.pass = 0 /\ ~holder.status
        /\ holder' = [holder EXCEPT !.pass = 1, !.k = 0]
        /\ UNCHANGED <<first, calls>>
     \/ /\ holder.k = N
        /\ holder.pass = 1 \/ holder.status
        /\ holder' = Free
        /\ first' = IF holder.status THEN (first + 1) % N ELSE first
        /\ Returned(holder.status)
  /\ UNCHANGED <<hw, device, marks, isr2>>

(* Lock the channel; while AtapiInterrupt2 looks at it, spin.  What that   *)
(* has found is taken for an unexpected interrupt, and thrown away, if the *)
(* check before, of another channel, came to that.                         *)
IsrLock ==
  /\ InIsr("scan")
  /\ holder.k < N
  /\ IsrChan \notin holder.seen
  /\ holder.pass = 1 \/ expecting[IsrChan]
  /\ LET c == IsrChan
         h == [holder EXCEPT !.seen = @ \cup {c}]
     IN  \/ /\ disabled[c] > 0 \/ check[c] = "ACTIVE"
            /\ holder' = NextOne(h)
            /\ UNCHANGED <<check, dropped>>
         \/ /\ disabled[c] = 0
            /\ check[c] = "IDLE"
            /\ check' = [check EXCEPT ![c] = "ACTIVE"]
            /\ holder' = [h EXCEPT !.at = "check"]
            /\ UNCHANGED dropped
         \/ /\ disabled[c] = 0
            /\ check[c] = "DETECTED"
            /\ check' = [check EXCEPT ![c] = "ACTIVE"]
            /\ holder' = [h EXCEPT !.at = "handle"]
            /\ dropped' = IF holder.res = "UNEXPECTED" /\ job[c] = "done"
                          THEN dropped \cup {c} ELSE dropped
  /\ UNCHANGED <<hw, job, line, event, disabled, expecting, count, dpcReq, timer, first,
                 calls, isr2>>

IsrCheck ==
  /\ InIsr("check")
  /\ LET c == IsrChan
     IN  \E chk \in Checks(c) :
           /\ CheckInterrupt(c, chk)
           /\ IF chk.res = "IGNORE"
              THEN /\ check' = [check EXCEPT ![c] = "IDLE"]
                   /\ holder' = NextOne([holder EXCEPT !.res = chk.res])
              ELSE /\ holder' = [holder EXCEPT !.at = "handle", !.res = chk.res]
                   /\ UNCHANGED check
  /\ UNCHANGED <<hw, disabled, expecting, count, dpcReq, timer, first, calls, isr2>>

(* The last result decides, also for a channel that was not checked but    *)
(* taken over.                                                             *)
IsrHandle ==
  /\ InIsr("handle")
  /\ LET c == IsrChan
     IN  \/ /\ holder.res = "UNEXPECTED"
            /\ check' = [check EXCEPT ![c] = "IDLE"]
            /\ holder' = NextOne([holder EXCEPT !.status = TRUE])
            /\ UNCHANGED <<device, disabled, expecting, count, dpcReq, timer>>
         \/ /\ holder.res # "UNEXPECTED"
            /\ Handle(c, FALSE)
            /\ holder' = NextOne([holder EXCEPT !.status = @ \/ expecting[c]])
  /\ UNCHANGED <<hw, first, calls, isr2>>
-----------------------------------------------------------------------------
(* AtapiInterrupt2: on the first call after AtapiInterrupt it only leaves  *)
(* a hint.                                                                 *)
Isr2Enter ==
  /\ isr2 = NotInIsr
  /\ Called("isr2")
  /\ IF count = 0
     THEN /\ count' = 1
          /\ Returned(FALSE)
          /\ UNCHANGED isr2
     ELSE /\ isr2' = [at |-> "scan", c |-> 0, looked |-> 0, found |-> FALSE]
          /\ UNCHANGED <<count, calls>>
  /\ UNCHANGED <<hw, device, check, disabled, expecting, dpcReq, timer, first, holder>>

(* Planted defect: DETECTED and ACTIVE are no reason to keep away. *)
Isr2Takes(c) == TRUE

(* AtapiInterrupt2 keeps away from a channel another handler is at. *)
Isr2MayLock(c) == disabled[c] = 0 /\ check[c] = "IDLE"

Isr2Lock ==
  /\ isr2.at = "scan"
  /\ isr2.c < N
  /\ IF Isr2MayLock(isr2.c)
     THEN /\ check' = [check EXCEPT ![isr2.c] = "CHECK"]
          /\ isr2' = [isr2 EXCEPT !.at = "check", !.looked = @ + 1]
     ELSE /\ isr2' = [isr2 EXCEPT !.c = @ + 1]
          /\ UNCHANGED check
  /\ UNCHANGED <<hw, device, disabled, expecting, count, dpcReq, timer, first, calls,
                 holder>>

Isr2Check ==
  /\ isr2.at = "check"
  /\ \E chk \in Checks(isr2.c) :
       /\ CheckInterrupt(isr2.c, chk)
       /\ isr2' = [at |-> "set", c |-> isr2.c, looked |-> isr2.looked,
                   found |-> isr2.found, res |-> chk.res]
  /\ UNCHANGED <<hw, marks, first, calls, holder>>

(* Planted defect: the channel stays locked when nothing was found. *)
MarkFoundOnly(c, res) == IF res = "OUR" THEN "DETECTED" ELSE check[c]

(* What AtapiInterrupt2 leaves in CheckIntr. *)
Mark(c, res) == IF res = "OUR" THEN "DETECTED" ELSE "IDLE"

Isr2Set ==
  /\ isr2.at = "set"
  /\ check' = [check EXCEPT ![isr2.c] = Mark(isr2.c, isr2.res)]
  /\ IF isr2.res = "UNEXPECTED"
     THEN isr2' = NotInIsr /\ Returned(TRUE)
     ELSE /\ isr2' = [at |-> "scan", c |-> isr2.c + 1, looked |-> isr2.looked,
                      found |-> isr2.found \/ isr2.res = "OUR"]
          /\ UNCHANGED calls
  /\ UNCHANGED <<hw, device, disabled, expecting, count, dpcReq, timer, first, holder>>

(* TRUE if an interrupt was found while another handler was at one of the  *)
(* channels: that handler is expected to look for it (ReCheckIntr, which   *)
(* nobody reads).                                                          *)
Isr2Leave ==
  /\ isr2.at = "scan"
  /\ isr2.c = N
  /\ isr2' = NotInIsr
  /\ Returned(isr2.found /\ isr2.looked # N)
  /\ UNCHANGED <<hw, device, marks, first, holder>>
-----------------------------------------------------------------------------
(* The timer calls what a channel asked for: AtapiCallBack_X,              *)
(* AtapiInterruptDpc or AtapiEnableInterrupts__.  Each is done with its    *)
(* own channel and then looks for interrupts AtapiInterrupt2 has found.    *)
TimerEnter(c) ==
  /\ holder = Free
  /\ timer[c] # "none"
  /\ timer' = [timer EXCEPT ![c] = "none"]
  /\ holder' = [by |-> timer[c], own |-> c, k |-> 0,
                at |-> IF timer[c] = "callback" THEN "own" ELSE "scan"]
  /\ UNCHANGED <<hw, device, check, disabled, expecting, count, dpcReq, first, calls,
                 isr2>>

InTimer(place) == holder.by \in {"callback", "dpc", "enable"} /\ holder.at = place

(* AtapiCallBack__ for its own channel: a request that expects no interrupt *)
(* waits for DSC only, and is completed or looked at again.                 *)
CallBackOwn ==
  /\ InTimer("own")
  /\ LET c == holder.own
     IN  \/ /\ expecting[c] \/ job[c] = "none"
            /\ Handle(c, TRUE)
         \/ /\ ~expecting[c] /\ job[c] # "none"
            /\ \E r \in {Result("rdp", FALSE, check[c], disabled[c], dpcReq[c],
                                "callback", count),
                         ReturnEnableIntr(c, "none", FALSE),
                         ReturnEnableIntr(c, "busy", TRUE)} : Set(c, r)
            /\ UNCHANGED <<line, event>>
  /\ holder' = [holder EXCEPT !.at = "scan"]
  /\ UNCHANGED <<hw, first, calls, isr2>>

TimerChan == (holder.k + IF holder.by = "callback" THEN first ELSE 0) % N

(* The next channel is handled if it was left to this call (DPC_REQ), or   *)
(* if AtapiInterrupt2 found an interrupt of it.                            *)
TimerScan ==
  /\ InTimer("scan")
  /\ holder.k < N
  /\ LET c      == TimerChan
         posted == holder.by = "dpc" /\ dpcReq[c]
         found  == /\ check[c] = "DETECTED"
                   /\ holder.by = "callback" => c # holder.own
     IN  \/ /\ posted \/ found
            /\ check' = [check EXCEPT ![c] = IF posted THEN @ ELSE "ACTIVE"]
            /\ dpcReq' = [dpcReq EXCEPT ![c] = @ /\ ~posted]
            /\ holder' = [holder EXCEPT !.at = "handle"]
         \/ /\ ~posted /\ ~found
            /\ holder' = [holder EXCEPT !.k = @ + 1]
            /\ UNCHANGED <<check, dpcReq>>
  /\ UNCHANGED <<hw, device, disabled, expecting, count, timer, first, calls,
                 isr2>>

TimerHandle ==
  /\ InTimer("handle")
  /\ Handle(TimerChan, holder.by = "dpc")
  /\ holder' = [holder EXCEPT !.at = "scan", !.k = @ + 1]
  /\ UNCHANGED <<hw, first, calls, isr2>>

TimerLeave ==
  /\ InTimer("scan")
  /\ holder.k = N
  /\ holder' = Free
  /\ UNCHANGED <<hw, device, marks, first, calls, isr2>>
-----------------------------------------------------------------------------
Driver == \/ IsrPass \/ IsrLock \/ IsrCheck \/ IsrHandle
          \/ CallBackOwn \/ TimerScan \/ TimerHandle \/ TimerLeave

Second == Isr2Enter \/ Isr2Lock \/ Isr2Check \/ Isr2Set \/ Isr2Leave

Next == \/ Driver
        \/ Second
        \/ Deliver \/ IsrEnter \/ Expect
        \/ \E c \in Chan : \/ Finish(c) \/ Spurious(c) \/ LinkEvent(c)
                           \/ Send(c) \/ TimerEnter(c)

Spec == Init /\ [][Next]_vars
-----------------------------------------------------------------------------
(* A channel is never silenced twice, and the hint counts no more than the *)
(* requests there can be, and one.                                         *)
TypeOK ==
  /\ hw \in [chip : Chips, isr2 : SecondIsr]
  /\ job \in [Chan -> {"none", "busy", "done", "rdp"}]
  /\ {line, event, expecting, dpcReq} \subseteq [Chan -> BOOLEAN]
  /\ check \in [Chan -> {"IDLE", "CHECK", "DETECTED", "ACTIVE"}]
  /\ disabled \in [Chan -> 0..1]
  /\ count \in 0..N + 1
  /\ timer \in [Chan -> {"none", "callback", "dpc", "enable"}]
  /\ first \in Chan
  /\ dropped \subseteq Chan
  /\ holder.by \in {"none", "io", "isr", "callback", "dpc", "enable"}
  /\ isr2.at \in {"out", "scan", "check", "set"}

(* AtapiInterrupt spins while a channel is in CHECK: it must be there only *)
(* while AtapiInterrupt2 is looking, or the spinning never ends.           *)
SpinEnds == \A c \in Chan : check[c] = "CHECK" => isr2.at \in {"check", "set"} /\ isr2.c = c

(* Whom does the lock holder handle right now? *)
Handling(c) == \/ InIsr("check") /\ IsrChan = c
               \/ InIsr("handle") /\ IsrChan = c
               \/ InTimer("own") /\ holder.own = c
               \/ InTimer("handle") /\ TimerChan = c

(* A silent channel is given its interrupts back: there is a call of the   *)
(* timer that will, or it is being made.                                   *)
SilentHasCaller ==
  \A c \in Chan : disabled[c] > 0 =>
     \/ timer[c] \in {"callback", "dpc"}
     \/ Handling(c)
     \/ holder.by = "dpc" /\ dpcReq[c]

(* An interrupt that was taken off the device is not forgotten, whichever   *)
(* handler took it and whatever the others do meanwhile, unless it is      *)
(* thrown away in one of the ways named at Lost, Unheard and IsrLock.      *)
NotForgotten ==
  \A c \in Chan : job[c] = "done" /\ ~line[c] =>
     \/ check[c] # "IDLE"
     \/ timer[c] # "none"
     \/ Handling(c)
     \/ isr2.at = "set" /\ isr2.c = c
     \/ c \in dropped
=============================================================================
