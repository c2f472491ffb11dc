------------------------------- MODULE Packet -------------------------------
(***************************************************************************)
(* Packet commands of one ATAPI device, one at a time: how a command is    *)
(* prepared and sent (AtapiSendCommand), how the interrupts of its phases  *)
(* are served (AtapiInterrupt__), the second looks the timer takes, and    *)
(* the resets that end it.                                                 *)
(*                                                                         *)
(* A word is the unit of transfers; only how many words were moved is      *)
(* kept, since the buffer is filled from its start.                        *)
(***************************************************************************)
EXTENDS Integers

CONSTANTS Options,   \* adapters and devices: records [intDrq, useDpc, readWrite,
                     \*   control, rawRead, readOnly, speed, discs, faults]
          Commands,  \* records [op, dir, len, lun, aligned]
          MaxResets  \* bound on bus resets

ASSUME PacketAssumption == /\ MaxResets \in Nat
                           /\ \A c \in Commands :
                                c.len \in Nat /\ (c.dir = "none" => c.len = 0)
                           /\ \A o \in Options : o.speed \in {"pio", "slow", "fast"}

VARIABLES opt,    \* which of Options
          mode,   \* LunExt->TransferMode: "pio", "slow" or "fast"
          req,    \* the current request and its ATA_REQ
          chan,   \* the channel: what it expects and who will look at it
          dev,    \* the device: its phase, and what it moves
          report, \* how the last request ended
          resets

vars == <<opt, mode, req, chan, dev, report, resets>>

NoReq == [state |-> "NONE"]
NoReport == [status |-> "none"]

IdleDev == [phase |-> "idle", irq |-> FALSE, given |-> 0, total |-> 0,
            chunk |-> 0, key |-> "none", dsc |-> TRUE, sense |-> FALSE]

Init == /\ opt \in Options
        /\ mode = opt.speed
        /\ req = NoReq
        /\ chan = [expecting |-> FALSE, silent |-> FALSE, timer |-> "none",
                   rdp |-> FALSE, dma |-> FALSE, active |-> FALSE]
        /\ dev = IdleDev
        /\ report = NoReport
        /\ resets = 0

Lower(a, b) == IF a < b THEN a ELSE b

Sending == req.state \in {"QUEUED", "READY", "RETRY"}

(* The request is answered; the next one may come.  It was sent when the   *)
(* driver had given it to the device before this step, and posted when its *)
(* end was left to the DPC.                                                *)
Answer(status, length) ==
  /\ report' = [status |-> status, length |-> length, cmd |-> req.cmd,
                given |-> dev'.given, total |-> dev.total, key |-> dev.key,
                sent |-> ~Sending /\ req.state # "WAITS", posted |-> req.posted,
                active |-> chan'.active]
  /\ req' = NoReq

Quiet == UNCHANGED report

(* MapError: what the sense key in the error register is told as. *)
MapError == IF dev.key = "recovered" THEN "success" ELSE "error"
-----------------------------------------------------------------------------
NewRequest(c) ==
  /\ req = NoReq
  /\ req' = [state |-> "QUEUED", cmd |-> c, left |-> 0, moved |-> 0,
             dma |-> FALSE, force |-> FALSE, retried |-> FALSE, posted |-> FALSE]
  /\ report' = NoReport
  /\ UNCHANGED <<opt, mode, chan, dev, resets>>

(* Is DMA to be tried?  Never for request sense, for odd lengths, and for  *)
(* writing where the channel reads only.                                   *)
DmaWanted(c) ==
  /\ c.op # "sense" /\ c.len > 0 /\ c.aligned
  /\ CASE c.op = "read"    -> opt.readWrite
       [] c.op = "write"   -> opt.readWrite /\ ~opt.readOnly
       [] c.op = "rawread" -> opt.rawRead
       [] OTHER            -> opt.control /\ (c.dir = "in" \/ ~opt.readOnly)

(* CMD_ACTION_PREPARE; the DMA table may turn out impossible. *)
Prepared(r, mapped) ==
  [r EXCEPT !.left = r.cmd.len, !.moved = 0, !.dma = DmaWanted(r.cmd) /\ mapped]

Prepare(mapped) ==
  /\ req.state = "QUEUED"
  /\ \/ req.cmd.op \in {"read", "write"}
     \/ req.cmd.op = "rawread" /\ opt.rawRead
  /\ req' = [Prepared(req, mapped) EXCEPT !.state = "READY"]
  /\ UNCHANGED <<opt, mode, chan, dev, resets>> /\ Quiet

(* AtapiDmaReinit for the request.  The first slot of the retry tables     *)
(* holds the fastest modes, and the retry count of a packet command that   *)
(* is sent is 0: the mode is the best one also when the rate is to go down. *)
Reinit(r) == IF r.dma THEN opt.speed ELSE "pio"

(* SET FEATURES sets the mode, and like every command it ends the error    *)
(* state of the device.                                                    *)
AfterReinit(d, r) == IF Reinit(r) # mode /\ d.phase = "error"
                     THEN [d EXCEPT !.phase = "idle"] ELSE d

(* The request as it is when the device is looked at. *)
ToSend(r, mapped) ==
  LET p == IF r.state = "QUEUED" THEN Prepared(r, mapped) ELSE r
  IN  [p EXCEPT !.dma = @ /\ opt.speed # "pio"]

NoSuchLun(c) == IF opt.discs > 0 THEN c.lun > opt.discs - 1 ELSE c.lun > 0

SendNowhere(mapped) ==
  /\ Sending /\ NoSuchLun(req.cmd)
  /\ LET r == ToSend(req, mapped)
     IN  dev' = AfterReinit(dev, r) /\ mode' = Reinit(r)
  /\ UNCHANGED <<opt, chan, resets>>
  /\ Answer("selection timeout", req.cmd.len)

(* A device that hangs may go on hanging. *)
AfterReset == {IdleDev} \cup ({dev} \cap {d \in {dev} : d.phase = "hung"})

(* The device does not listen: soft reset, and the same call tries the     *)
(* request, prepared as it is, once more.                                  *)
MakeReset(r, c) ==
  /\ chan' = [c EXCEPT !.expecting = FALSE, !.rdp = FALSE]
  /\ dev' \in AfterReset
  /\ IF r.retried
     THEN Answer("selection timeout", r.cmd.len)
     ELSE req' = [r EXCEPT !.state = "RETRY", !.retried = TRUE] /\ Quiet

SendReset(mapped) ==
  /\ Sending /\ ~NoSuchLun(req.cmd)
  /\ dev.phase \in {"hung", "wrong"}
  /\ LET r == ToSend(req, mapped)
     IN  mode' = Reinit(r) /\ MakeReset(r, chan)
  /\ UNCHANGED <<opt, resets>>

(* Planted defect: the error of the command before is no reason to wait.   *)
Told(d, c) == FALSE

(* A device that still shows an error is left alone until its sense data   *)
(* are asked for.                                                          *)
Blocked(d, c) == d.phase = "error" /\ c.op # "sense"

SendBlocked(mapped) ==
  /\ Sending /\ ~NoSuchLun(req.cmd)
  /\ LET r == ToSend(req, mapped)
     IN  /\ Blocked(AfterReinit(dev, r), req.cmd)
         /\ mode' = Reinit(r)
  /\ UNCHANGED <<opt, chan, dev, resets>>
  /\ Answer(MapError, req.cmd.len)

(* A command that seeks may still be at it: then the request is left as it *)
(* is.  Otherwise data left over are read away and the device is sent the  *)
(* command.                                                                *)
Idle(d, c) == d.phase \in {"idle", "wrong", "error"} /\ ~Blocked(d, c)
Listens(d, c) == Idle(d, c) /\ (d.dsc \/ ~chan.rdp)

SendWaits(mapped) ==
  /\ Sending /\ ~NoSuchLun(req.cmd)
  /\ LET r == ToSend(req, mapped)
         d == AfterReinit(dev, r)
     IN  /\ Idle(d, req.cmd) /\ ~Listens(d, req.cmd)
         /\ req' = [r EXCEPT !.state = "WAITS"]
         /\ mode' = Reinit(r)
         /\ dev' = d
  /\ UNCHANGED <<opt, chan, resets>> /\ Quiet

(* What the device may make of a command: how many words it will move.     *)
Totals(c) ==
  CASE c.dir = "none" -> {0}
    [] OTHER -> {n \in {c.len - 1, c.len, c.len + 1} \cap Nat :
                   /\ n < c.len => "short" \in opt.faults
                   /\ n > c.len => "over" \in opt.faults /\ c.dir = "in"}

(* The device has a command, and the packet that tells what it is.  The    *)
(* packet of the next command overwrites the sense data of the last.       *)
Commanded(d, c) == {[IdleDev EXCEPT !.phase = "packet", !.total = n,
                                    !.sense = d.sense,
                                    !.dsc = d.dsc /\ c.op # "seek"] : n \in Totals(c)}

Given(d) == [d EXCEPT !.phase = "exec", !.sense = FALSE, !.irq = FALSE]

(* The channel as it is when a command goes out.  Nobody looks whether the *)
(* DMA engine still runs for the last one.                                 *)
Out(r, start) == [chan EXCEPT !.rdp = r.cmd.op = "seek", !.dma = r.dma,
                              !.expecting = TRUE, !.active = @ \/ (start /\ r.dma)]

(* The PACKET command of a device that interrupts when it wants the packet. *)
SendCommand(mapped) ==
  /\ opt.intDrq /\ Sending /\ ~NoSuchLun(req.cmd)
  /\ LET r == ToSend(req, mapped)
         d == AfterReinit(dev, r)
     IN  /\ Listens(d, req.cmd)
         /\ mode' = Reinit(r)
         /\ req' = [r EXCEPT !.state = "EXPECTING_CMD"]
         /\ chan' = Out(r, FALSE)
         /\ dev' \in Commanded(d, req.cmd)
  /\ UNCHANGED <<opt, resets>> /\ Quiet

(* Otherwise the packet is waited for and written, and the engine started. *)
SendPacket(mapped) ==
  /\ ~opt.intDrq /\ Sending /\ ~NoSuchLun(req.cmd)
  /\ LET r == ToSend(req, mapped)
         d == AfterReinit(dev, r)
     IN  /\ Listens(d, req.cmd)
         /\ mode' = Reinit(r)
         /\ req' = [r EXCEPT !.state = "EXPECTING_DATA"]
         /\ chan' = Out(r, TRUE)
         /\ dev' \in {Given(e) : e \in Commanded(d, req.cmd)}
  /\ UNCHANGED <<opt, resets>> /\ Quiet

(* The device answers the PACKET command or the packet with an error, or   *)
(* never asks for the packet.  In the first case the channel still expects *)
(* an interrupt.                                                           *)
SendFails(mapped) ==
  /\ ~opt.intDrq /\ Sending /\ ~NoSuchLun(req.cmd)
  /\ "refuse" \in opt.faults
  /\ LET r == ToSend(req, mapped)
     IN  /\ Listens(AfterReinit(dev, r), req.cmd)
         /\ mode' = Reinit(r)
         /\ \/ /\ chan' = Out(r, FALSE)
               /\ dev' = [IdleDev EXCEPT !.phase = "error", !.key = "other",
                                         !.sense = TRUE,
                                         !.dsc = dev.dsc /\ req.cmd.op # "seek"]
               /\ Answer("error", req.cmd.len)
            \/ MakeReset(r, Out(r, FALSE))
  /\ UNCHANGED <<opt, resets>>

Send == \E mapped \in BOOLEAN :
          \/ Prepare(mapped) \/ SendReset(mapped) \/ SendBlocked(mapped)
          \/ SendWaits(mapped) \/ SendCommand(mapped) \/ SendPacket(mapped)
          \/ SendFails(mapped) \/ SendNowhere(mapped)
-----------------------------------------------------------------------------
(* The device.  An interrupt means: look at my status.                     *)
Device(d) == dev' = d /\ UNCHANGED <<opt, mode, req, chan, report, resets>>

(* The engine moves the words of the command at the device. *)
ByDma == chan.active /\ chan.dma

AskPacket == /\ dev.phase = "packet"
             /\ Device([dev EXCEPT !.phase = "cod", !.irq = TRUE])

(* Without DMA: some words are there, or are wanted. *)
AskData ==
  /\ dev.phase = "exec" /\ ~ByDma
  /\ \E n \in 1 .. dev.total - dev.given :
       Device([dev EXCEPT !.phase = "data", !.chunk = n, !.irq = TRUE])

(* With DMA all words are moved; the device may interrupt while it is      *)
(* still busy, or after every block.                                       *)
MoveByDma ==
  /\ dev.phase = "exec" /\ ByDma
  /\ \/ \E p \in {"status"} \cup ({"late"} \cap opt.faults) :
          Device([dev EXCEPT !.phase = p, !.given = dev.total, !.irq = TRUE])
     \/ /\ "block" \in opt.faults /\ dev.given + 1 < dev.total
        /\ Device([dev EXCEPT !.phase = "block", !.given = @ + 1, !.irq = TRUE])

FinishDev == /\ dev.phase = "exec" /\ ~ByDma /\ dev.given = dev.total
             /\ Device([dev EXCEPT !.phase = "status", !.irq = TRUE])

LateEnds == /\ dev.phase = "late"
            /\ Device([dev EXCEPT !.phase = "status"])

(* A recovered error is told when all words are moved, with DMA too. *)
FailDev ==
  /\ dev.phase = "exec"
  /\ \E k \in opt.faults \cap {"hardware", "recovered", "other"} :
       /\ k = "recovered" => ByDma \/ dev.given = dev.total
       /\ Device([dev EXCEPT !.phase = "error", !.key = k, !.irq = TRUE,
                             !.sense = TRUE,
                             !.given = IF k = "recovered" THEN dev.total ELSE @])

(* The device asks for data it should send, or does not answer any more.   *)
Misbehave ==
  /\ dev.phase = "exec" /\ ~ByDma
  /\ \E p \in opt.faults \cap {"wrong", "hang"} :
       Device([dev EXCEPT !.phase = IF p = "wrong" THEN p ELSE "hung",
                          !.irq = p = "wrong"])

SeekDone == ~dev.dsc /\ Device([dev EXCEPT !.dsc = TRUE])

DeviceSteps == AskPacket \/ AskData \/ MoveByDma \/ FinishDev \/ LateEnds \/ FailDev
-----------------------------------------------------------------------------
(* A request that ends: nothing is expected any more.  The interrupts of   *)
(* the channel are enabled whenever the interrupt routine is left.         *)
Ended(c) == [c EXCEPT !.expecting = FALSE, !.silent = FALSE, !.rdp = FALSE]
On(c) == [c EXCEPT !.silent = FALSE]

(* The packet is written when it is asked for. *)
ServeCommand(c) ==
  /\ dev.phase = "cod"
  /\ req' = [req EXCEPT !.state = "EXPECTING_DATA"]
  /\ chan' = [On(c) EXCEPT !.active = @ \/ c.dma]
  /\ dev' = Given(dev)
  /\ Quiet

(* Planted defect: the call of the timer is not asked for. *)
LaterUncalled(c) == [c EXCEPT !.silent = TRUE]

(* The timer is to call; until then the channel is silent. *)
Later(c) == [c EXCEPT !.timer = "callback", !.silent = TRUE]

(* The device is still busy: another look later, or the end of it.         *)
ServeBusy(c, inDpc) ==
  /\ dev.phase \in {"late", "exec", "packet", "hung"}
  /\ \/ /\ opt.useDpc
        /\ req' = [req EXCEPT !.state = IF inDpc THEN "BUSY1" ELSE "BUSY0"]
        /\ chan' = Later(c)
        /\ dev' = [dev EXCEPT !.irq = FALSE]
        /\ Quiet
     \/ /\ ~opt.useDpc
        /\ chan' = [Ended(c) EXCEPT !.active = FALSE]
        /\ dev' = IdleDev
        /\ Answer("aborted", req.cmd.len)

(* Planted defect: the device decides how many words go to the buffer. *)
TakenAll == dev.chunk

(* How many words go to the buffer or come from it. *)
Taken == Lower(dev.chunk, req.left)

(* Planted defect: nothing is said of the words that are missing. *)
EarlyStatusGood(left) == "success"

EarlyStatus(left) == IF left = 0 THEN "success" ELSE "overrun"

(* Before a request is over that did without DMA the device is looked at   *)
(* once more.  If it is busy again (PIO_wait_busy), or has data nobody     *)
(* wants (PIO_wait_DRQ), the rest is left to the DPC, which forgets how    *)
(* the request ended and expects no interrupt; what is not left to it      *)
(* waits here, and resets the channel in the end.                          *)
NotReady(c, r, d, inDpc) ==
  \/ /\ opt.useDpc /\ ~inDpc
     /\ req' = [r EXCEPT !.state = "DPC", !.posted = TRUE]
     /\ chan' = [c EXCEPT !.timer = "dpc", !.silent = TRUE, !.expecting = FALSE]
     /\ dev' = d
     /\ Quiet
  \/ /\ ~opt.useDpc \/ inDpc
     /\ chan' = [Ended(c) EXCEPT !.active = FALSE]
     /\ dev' \in AfterReset
     /\ Answer("aborted", req.cmd.len)

(* Words are read.  The device may go on, or be idle, which ends the       *)
(* request, or be idle for a moment only.                                  *)
ServeRead(c, inDpc) ==
  /\ dev.phase = "data" /\ req.cmd.dir = "in"
  /\ LET left == req.left - Taken
         given == dev.given + dev.chunk
         r == [req EXCEPT !.left = left, !.moved = @ + Taken]
         d == [dev EXCEPT !.given = given, !.irq = FALSE]
     IN  \/ /\ req' = [r EXCEPT !.state = "EXPECTING_DATA"]
            /\ chan' = On(c)
            /\ dev' = [d EXCEPT !.phase = "exec"]
            /\ Quiet
         \/ /\ given = dev.total
            /\ chan' = Ended(c)
            /\ dev' \in {[d EXCEPT !.phase = "idle", !.irq = i] : i \in BOOLEAN}
            /\ Answer(EarlyStatus(left), req.cmd.len - left)
         \/ NotReady(c, r, [d EXCEPT !.phase = "exec"], inDpc)
         \/ given < dev.total /\ left = 0 /\ NotReady(c, r, d, inDpc)

ServeWrite(c) ==
  /\ dev.phase = "data" /\ req.cmd.dir = "out"
  /\ req' = [req EXCEPT !.left = @ - Taken, !.moved = @ + Taken,
                        !.state = "EXPECTING_DATA"]
  /\ chan' = On(c)
  /\ dev' = [dev EXCEPT !.given = @ + Taken, !.irq = FALSE, !.phase = "exec"]
  /\ Quiet

(* Data are asked for by a command that reads: the device is reset. *)
ServeWrong(c) ==
  /\ dev.phase = "wrong"
  /\ chan' = Ended(c)
  /\ IF req.cmd.op = "sense"
     THEN /\ dev' = [dev EXCEPT !.irq = FALSE]
          /\ Answer("error", 0)
     ELSE /\ dev' = IdleDev
          /\ Answer("bus reset", 0)

(* The command is over, but it seeks, and the device is busy with it: it   *)
(* was already at the first look, or is at the second (Check DSC).         *)
ServeSeek(c, inDpc) ==
  /\ dev.phase = "status" /\ chan.rdp /\ ~dev.dsc /\ "seeks" \in opt.faults
  /\ LET d == [dev EXCEPT !.phase = "idle", !.irq = FALSE]
     IN  \/ ~req.dma /\ NotReady(c, [req EXCEPT !.left = 0], d, inDpc)
         \/ /\ req' = [req EXCEPT !.state = "SEEKS"]
            /\ chan' = [Later(c) EXCEPT !.expecting = FALSE]
            /\ dev' = d
            /\ Quiet

(* The command is over, perhaps while the handler waited for the device to *)
(* be less busy.  All words count as moved.                                *)
ServeStatus(c) ==
  /\ dev.phase \in {"status", "late"}
  /\ chan' = Ended(c)
  /\ dev' = [dev EXCEPT !.phase = "idle", !.irq = FALSE]
  /\ Answer("success", req.cmd.len)

(* One block of a DMA transfer is through.  The state that says so was     *)
(* overwritten, and the rest is not waited for.                            *)
ServeBlock(c) ==
  /\ dev.phase = "block"
  /\ chan' = [Ended(c) EXCEPT !.dma = FALSE]
  /\ dev' = [dev EXCEPT !.phase = "exec", !.irq = FALSE]
  /\ Answer("success", req.cmd.len)

(* A hardware error in a fast mode makes the request be queued again. *)
TryAgain == req.dma /\ mode = "fast" /\ dev.key = "hardware"

ServeError(c) ==
  /\ dev.phase = "error"
  /\ dev' = [dev EXCEPT !.irq = FALSE]
  /\ \/ /\ TryAgain
        /\ req' = [req EXCEPT !.state = "QUEUED", !.dma = FALSE, !.force = TRUE]
        /\ chan' = On(c)
        /\ Quiet
     \/ /\ ~TryAgain /\ req.cmd.op # "sense"
        /\ chan' = Ended(c)
        /\ Answer(MapError, IF req.left = 0 THEN req.cmd.len ELSE 0)
     \/ /\ ~TryAgain /\ req.cmd.op = "sense"
        /\ chan' = Ended(c)
        /\ Answer("success", req.cmd.len)

(* AtapiInterrupt__, in the interrupt or in a call of the timer. *)
Serve(c, inDpc) ==
  \/ ServeCommand(c) \/ ServeRead(c, inDpc) \/ ServeWrite(c) \/ ServeWrong(c)
  \/ ServeBlock(c) \/ ServeBusy(c, inDpc) \/ ServeSeek(c, inDpc) \/ ServeStatus(c)
  \/ ServeError(c)

Waits == req.state \in {"WAITS", "SEEKS"}

Expects == req.state \in {"EXPECTING_CMD", "EXPECTING_DATA", "BUSY0", "BUSY1"}

(* Planted defect: the engine is left to end by itself. *)
Running(c) == c

(* AtapiCheckInterrupt__ stops the DMA engine, unless the interrupt is     *)
(* that of a block (in a mode up to WDMA2: SingleBlockIntr), or the device *)
(* is busy and has moved less than the engine has room for                 *)
(* (BM_STATUS_ACTIVE).  g_WaitBusyInISR is 1, and never changed.           *)
Stopped(c) ==
  [c EXCEPT !.active = /\ @
                       /\ \/ dev.phase = "block" /\ mode = "slow"
                          \/ dev.phase = "late" /\ dev.given < req.cmd.len]

Interrupt ==
  /\ dev.irq /\ chan.expecting /\ ~chan.silent /\ Expects
  /\ Serve(Stopped(chan), FALSE)
  /\ UNCHANGED <<opt, mode, resets>>

(* When nobody waits for it an interrupt is taken off the device. *)
Stray ==
  /\ dev.irq /\ ~chan.silent
  /\ req = NoReq \/ (~Sending /\ ~chan.expecting)
  /\ Device([dev EXCEPT !.irq = FALSE])

(* AtapiCallBack_X: the request is looked at again.  One that expects no   *)
(* interrupt waits for the end of a seek, or is left alone.                *)
CallBack ==
  /\ chan.timer = "callback" /\ ~Sending
  /\ LET c == [chan EXCEPT !.timer = "none"]
     IN  \/ chan.expecting /\ Expects /\ Serve(c, TRUE)
         \/ /\ req # NoReq => ~chan.expecting /\ ~chan.rdp
            /\ chan' = On(c)
            /\ UNCHANGED <<req, dev>> /\ Quiet
         \/ /\ Waits /\ ~chan.expecting /\ chan.rdp /\ ~dev.dsc
            /\ UNCHANGED <<req, dev, chan>> /\ Quiet
         \/ /\ Waits /\ ~chan.expecting /\ chan.rdp /\ dev.dsc
            /\ chan' = [On(c) EXCEPT !.rdp = FALSE]
            /\ UNCHANGED dev
            /\ Answer(IF req.state = "SEEKS" THEN "success" ELSE "pending", req.cmd.len)
         \/ /\ req.state = "WAITS" /\ chan.expecting
            /\ chan' = Ended(c)
            /\ UNCHANGED dev
            /\ Answer("success", req.cmd.len)
  /\ UNCHANGED <<opt, mode, resets>>

(* AtapiInterruptDpc: the end of a request is gone on with, as of one that *)
(* went well, whatever was found before and whatever the device's status   *)
(* says now.  A device with more data is served as in the interrupt.       *)
Dpc ==
  /\ chan.timer = "dpc"
  /\ LET c == [chan EXCEPT !.timer = "none"]
         seeking == dev.phase = "idle" /\ chan.rdp /\ ~dev.dsc
     IN  \/ req.left > 0 /\ (ServeRead(c, TRUE) \/ ServeWrong(c))
         \/ /\ \/ dev.phase \in {"exec", "hung"} \/ seeking
               \/ dev.phase \in {"data", "wrong"} /\ req.left = 0
            /\ NotReady(c, req, dev, TRUE)
         \/ /\ dev.phase \in {"idle", "status", "error"} /\ ~seeking
            /\ chan' = Ended(c)
            /\ dev' = [dev EXCEPT !.irq = FALSE,
                                  !.phase = IF @ = "error" THEN @ ELSE "idle"]
            /\ Answer("success", IF req.left = 0 THEN req.cmd.len ELSE 0)
  /\ UNCHANGED <<opt, mode, resets>>

(* The port driver has lost patience.  A call of the timer that was asked  *)
(* for is still to come; the DPC will find nothing left to it.             *)
ResetBus ==
  /\ req # NoReq /\ ~Sending /\ resets < MaxResets
  /\ resets' = resets + 1
  /\ chan' = [Ended(chan) EXCEPT !.dma = FALSE, !.active = FALSE,
                                 !.timer = IF @ = "dpc" THEN "none" ELSE @]
  /\ dev' \in AfterReset
  /\ Answer("bus reset", req.cmd.len)
  /\ UNCHANGED <<opt, mode>>

Next == \/ \E c \in Commands : NewRequest(c)
        \/ Send
        \/ Interrupt \/ Stray \/ CallBack \/ Dpc \/ ResetBus
        \/ DeviceSteps \/ Misbehave \/ SeekDone

Spec == Init /\ [][Next]_vars
-----------------------------------------------------------------------------
(* No more words go to or come from the buffer than it holds, whatever the *)
(* device says it has (the byte count registers in AtapiInterrupt__).      *)
TypeOK ==
  /\ mode \in {"pio", "slow", "fast"}
  /\ chan.timer \in {"none", "callback", "dpc"}
  /\ req # NoReq =>
       /\ Sending \/ Expects \/ Waits \/ req.state = "DPC"
       /\ req.left >= 0 /\ req.moved + req.left <= req.cmd.len

(* The device ended the command early and said so with its last interrupt: *)
(* the driver takes all words for moved.                                   *)
Untold == report.given < report.cmd.len /\ report.total < report.cmd.len

(* The issuer of a packet command is told how much was moved: all of it    *)
(* when the command succeeded, and what there was when it says overrun.    *)
(* The code makes four exceptions.  A request whose end is left to the DPC *)
(* is a success of length 0 when words are missing.  After a recovered     *)
(* error the length is 0 unless the driver counted the words down, which   *)
(* it does not with DMA.  While the device still shows that error the next *)
(* request is not sent, and called a success ("fail this request",         *)
(* AtapiSendCommand).  And a request that waits for a seek is, by a call   *)
(* of the timer that outlived a bus reset.  For blocks see BlocksAwaited.  *)
AsMoved ==
  "block" \notin opt.faults =>
    /\ report.status = "success" /\ report.cmd.op # "sense" =>
         \/ /\ report.sent /\ report.length = report.cmd.len
            /\ report.given >= report.cmd.len \/ Untold
         \/ report.posted /\ report.length = 0 /\ report.given < report.cmd.len
         \/ report.sent /\ report.key = "recovered" /\ report.length = 0
         \/ ~report.sent /\ (report.key = "recovered" \/ resets > 0)
    /\ report.status = "overrun" => report.length = report.given

(* "some devices interrupts on each block transfer even in DMA mode"       *)
(* (AtapiCheckInterrupt__): a request is not reported while the DMA engine *)
(* is at its buffer.  After a bus reset it may be, by a call of the timer  *)
(* that outlived the reset.                                                *)
BlocksAwaited == report.status = "success" /\ resets = 0 => ~report.active

(* The same of devices that interrupt once in a transfer: the DMA engine   *)
(* is stopped by whoever looks at the interrupt (AtapiDmaDone), however    *)
(* many looks it takes until the device is not busy.  The code makes one   *)
(* exception: a device that interrupts while it is busy, and moves fewer   *)
(* words than asked, leaves the engine running, for its own request and    *)
(* for those that come after it.                                           *)
EngineDone ==
  "block" \notin opt.faults /\ ~({"late", "short"} \subseteq opt.faults) => BlocksAwaited

(* The sense data of a command that failed are kept until they are asked   *)
(* for: no other command is sent (the check of IDE_STATUS_ERROR in         *)
(* AtapiSendCommand).  For a device used in PIO: with DMA the mode is set  *)
(* first, and ends the error state that is checked.                        *)
SenseKept ==
  [][opt.speed = "pio" /\ dev.sense /\ ~dev'.sense =>
       \/ dev' = IdleDev
       \/ req # NoReq /\ req.cmd.op = "sense"]_vars

(* A request the device has been given is looked at again: the device will *)
(* interrupt and be heard, or the timer is going to call.  Except one that *)
(* was left to the DPC and goes on there: no interrupt is expected for it  *)
(* any more, and only a bus reset ends it.                                 *)
Awaited ==
  \/ chan.timer # "none"
  \/ /\ Expects /\ ~req.posted =>
                   /\ chan.expecting /\ ~chan.silent
                   /\ dev.irq \/ dev.phase \in {"packet", "exec", "hung"}
     /\ req.state # "SEEKS"
=============================================================================
