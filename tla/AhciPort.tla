------------------------------ MODULE AhciPort ------------------------------
(***************************************************************************)
(* One AHCI port with one device: the request in its only command slot,    *)
(* the interrupt (UniataAhciStatus and the AHCI branches of                *)
(* AtapiInterrupt__) interleaved with what the host bus adapter does in    *)
(* between, the abort and the retry after an error, hot plug, and the port *)
(* reset of a bus reset.                                                   *)
(*                                                                         *)
(* StartIo, the interrupt routine and resets exclude each other; the       *)
(* hardware goes on in between.  Data are counted in units.                *)
(***************************************************************************)
EXTENDS Integers

CONSTANTS Devices,    \* records [atapi, faults]
          Len,        \* units of data of a request
          MaxRetries, \* MAX_RETRIES
          MaxEvents   \* bound on resets, hot plug events and failed aborts

ASSUME AhciAssumption == /\ Len \in Nat \ {0}
                         /\ MaxRetries \in Nat \ {0}
                         /\ MaxEvents \in Nat

VARIABLES dev,    \* which of Devices
          port,   \* the port's registers, its command slot and its link
          lun,    \* DFLAGS_DEVICE_PRESENT
          req,    \* the request in the slot
          isr,    \* the interrupt routine and what it has read
          report, \* how the last request ended
          events

vars == <<dev, port, lun, req, isr, report, events>>

NoReq == [state |-> "none"]
Idle == [pc |-> "idle"]

Init == /\ dev \in Devices
        /\ port = [st |-> TRUE, ci |-> FALSE, halted |-> FALSE, is |-> {},
                   his |-> FALSE, serr |-> "none", err |-> FALSE, moved |-> 0,
                   link |-> TRUE, end |-> "none", odd |-> "none"]
        /\ lun = TRUE
        /\ req = NoReq
        /\ isr = Idle
        /\ report = [status |-> "none"]
        /\ events = 0

(* Bits of the port's interrupt status that belong to a good command, and  *)
(* those for which a command that still runs is looked at.                 *)
Benign == {"DHR", "PS"}
(* Planted defect: failures of link and bus are not looked for. *)
SomeErrors == {"OF", "INF", "TFE"}
Errors == {"OF", "INF", "IF", "HBF", "TFE"}

Fault(f) == f \in dev.faults
Event == events < MaxEvents /\ events' = events + 1

(* The request is answered. *)
Answer(status, length) ==
  /\ report' = [status |-> status, length |-> length,
                moved |-> port.moved, end |-> port.end, odd |-> port.odd]
  /\ req' = NoReq
-----------------------------------------------------------------------------
(* The host bus adapter and the device.  "end" tells how the command in    *)
(* the slot ended, as the hardware sees it, "odd" whether its length was.  *)
Running == port.st /\ port.ci /\ ~port.halted /\ port.link

Raise(bits) ==
  [port EXCEPT !.is = @ \cup bits, !.his = TRUE]

HbaOnly == UNCHANGED <<dev, lun, req, isr, report>>

Finish ==
  /\ Running
  /\ \E n \in port.moved .. Len :
       /\ dev.atapi \/ n = Len
       /\ port' = [Raise({"DHR"}) EXCEPT !.ci = FALSE, !.moved = n, !.err = FALSE,
                                         !.end = "done"]
  /\ HbaOnly /\ UNCHANGED events

(* An interrupt in the middle of a command. *)
Early ==
  /\ Running /\ Fault("early")
  /\ \E n \in port.moved + 1 .. Len : port' = [Raise({"PS"}) EXCEPT !.moved = n]
  /\ HbaOnly /\ UNCHANGED events

(* The device reports an error; the link or the host bus fails.  On the    *)
(* last try an error that sets no error register comes after the data.     *)
Fail ==
  /\ Running
  /\ \E n \in port.moved .. Len, s \in {"none", "soft", "hard"} :
       LET stopped(bit, err, end) ==
             port' = [Raise({bit}) EXCEPT !.halted = TRUE, !.moved = n, !.err = err,
                                          !.serr = s, !.end = end]
       IN \/ Fault("task") /\ s = "none" /\ stopped("TFE", TRUE, "failed")
          \/ Fault("link") /\ s = "hard" /\ stopped("IF", FALSE, "failed")
          \/ /\ Fault("quiet")
             /\ dev.atapi \/ n = Len \/ req.retry + 1 < MaxRetries
             /\ \/ s = "soft" /\ stopped("IF", FALSE, "quiet")
                \/ s = "none" /\ stopped("HBF", FALSE, "quiet")
  /\ HbaOnly /\ UNCHANGED events

(* Less data come than were asked for, or more: the command stays. *)
Mismatch ==
  /\ Running /\ Fault("size")
  /\ \/ port.moved < Len /\ port' = [Raise({"INF"}) EXCEPT !.halted = TRUE, !.odd = "underflow"]
     \/ /\ ~req.write
        /\ port' = [Raise({"OF"}) EXCEPT !.halted = TRUE, !.moved = Len,
                                           !.odd = "overflow"]
  /\ dev.atapi \/ req.retry + 1 < MaxRetries
  /\ HbaOnly /\ UNCHANGED events

Worse(serr) == IF serr = "hard" THEN serr ELSE "soft"

Unplug ==
  /\ Fault("hot") /\ port.link /\ Event
  /\ port' = [Raise({"PRC"}) EXCEPT !.link = FALSE, !.serr = Worse(@)]
  /\ HbaOnly

(* The device that comes back has forgotten its command. *)
Plug ==
  /\ ~port.link /\ Event
  /\ port' = [Raise({"PRC", "PCS"}) EXCEPT !.link = TRUE, !.serr = Worse(@),
                                           !.halted = port.ci]
  /\ HbaOnly
-----------------------------------------------------------------------------
(* UniataAhciBeginTransaction: a command is issued before the port is      *)
(* started, and the adapter ignores it if the port was stopped.            *)
Begin(p) ==
  [p EXCEPT !.ci = p.st, !.st = TRUE, !.moved = 0, !.odd = "none",
            !.end = IF p.st THEN "none" ELSE "ignored"]

StartIo(write) ==
  /\ req = NoReq /\ isr.pc = "idle" /\ lun
  /\ port' = Begin(port)
  /\ req' = [state |-> "sent", write |-> write, retry |-> 0]
  /\ report' = [status |-> "none"]
  /\ UNCHANGED <<dev, lun, isr, events>>

(* UniataAhciAbortOperation: the port is stopped and started again, which  *)
(* clears its interrupt status; when it does not stop it is left so.       *)
Abort(p) ==
  {[p EXCEPT !.st = TRUE, !.ci = FALSE, !.halted = FALSE, !.is = {}]}
  \cup IF Fault("stuck") /\ events < MaxEvents
       THEN {[p EXCEPT !.st = FALSE, !.ci = FALSE, !.halted = FALSE]} ELSE {}

Stuck == events' = IF port'.st \/ ~port.st THEN events ELSE events + 1
-----------------------------------------------------------------------------
(* UniataAhciStatus: the interrupt status, then the command register, are  *)
(* read before what was read is cleared.                                   *)
Enter ==
  /\ isr.pc = "idle" /\ port.his
  /\ isr' = [pc |-> "ci", is |-> port.is]
  /\ UNCHANGED <<dev, port, lun, req, report, events>>

ReadCi ==
  /\ isr.pc = "ci"
  /\ isr' = [pc |-> "clear", is |-> isr.is, ci |-> port.ci, serr |-> port.serr]
  /\ UNCHANGED <<dev, port, lun, req, report, events>>

(* Planted defect: the port's bits are cleared before the controller's. *)
PortFirst(p) ==
  [p EXCEPT !.is = @ \ isr.is, !.his = p.is \ isr.is # {},
            !.serr = IF @ = isr.serr THEN "none" ELSE @]

(* The controller's bit is cleared while the port's bits are still set, so *)
(* it stays, and there will be another interrupt, with nothing or with     *)
(* what came in between behind it.                                         *)
Cleared(p) ==
  [p EXCEPT !.is = @ \ isr.is, !.his = p.is # {},
            !.serr = IF @ = isr.serr THEN "none" ELSE @]

Clear ==
  /\ isr.pc = "clear"
  /\ port' = Cleared(port)
  /\ isr' = [isr EXCEPT !.pc = IF isr.is \cap {"PCS", "PRC"} # {}
                               THEN "events" ELSE "serve"]
  /\ UNCHANGED <<dev, lun, req, report, events>>

(* UniataSataEvent.  An attached device that is known is asked for its     *)
(* identity, in the slot of whatever request there is, and a lost or       *)
(* regained link (both set PRC) forgets it.                                *)
Events ==
  /\ isr.pc = "events"
  /\ isr' = [isr EXCEPT !.pc = "serve"]
  /\ \/ /\ "PCS" \in isr.is /\ lun /\ port.link
        /\ port' \in Abort([Begin(port) EXCEPT !.is = {}, !.his = FALSE,
                                               !.serr = "none", !.err = FALSE,
                                               !.end = "other"])
        /\ Stuck
     \/ /\ ~("PCS" \in isr.is /\ lun /\ port.link)
        /\ UNCHANGED <<port, events>>
  /\ lun' = (lun /\ "PRC" \notin isr.is)
  /\ UNCHANGED <<dev, req, report>>

(* Planted defect: the command register is not looked at. *)
NeverUnexpected == FALSE

(* A command still runs and nothing is wrong with it.  For packet devices  *)
(* AtapiCheckInterrupt__ takes it for finished all the same.               *)
Unexpected == isr.ci /\ isr.is \cap Errors = {}

Ignore ==
  /\ isr.pc = "serve"
  /\ req = NoReq \/ (Unexpected /\ ~dev.atapi)
  /\ isr' = Idle
  /\ UNCHANGED <<dev, port, lun, req, report, events>>

(* The interrupt status says that something went wrong. *)
Underflow == isr.is = {"INF"} /\ ~port.err /\ isr.serr = "none" /\ ~req.write
Wrong == \/ port.err
         \/ isr.is \ Benign # {} /\ isr.is # {"OF"} /\ ~Underflow

(* UniataAhciEndTransaction: a command that still runs is aborted. *)
Ended == IF port.ci THEN Abort(port) ELSE {port}

Complete ==
  /\ ~Wrong
  /\ \E p \in Ended :
       port' \in IF isr.is = {"OF"} THEN Abort(p) ELSE {p}
  /\ Stuck
  /\ Answer(IF port.moved < Len THEN "overrun" ELSE "success", port.moved)
  /\ UNCHANGED lun

(* Errors of the link are not retried; a hard disk's others are. *)
Retried == req.retry + 1 + (IF isr.serr = "hard" THEN MaxRetries ELSE 0)

(* Planted defect: one try too many. *)
OnceMore == ~dev.atapi /\ Retried <= MaxRetries

Again == ~dev.atapi /\ Retried < MaxRetries

(* MapError: a hard disk's error registers without an error mean success.  *)
(* Forced by errors of the link, and always an error for packet devices.   *)
Told == IF port.err \/ isr.serr = "hard" \/ dev.atapi
        THEN "error" ELSE "success"

Recover ==
  /\ Wrong
  /\ \E q \in Ended : \E r \in Abort(q) :
       LET p == [r EXCEPT !.is = {}, !.his = FALSE,
                          !.serr = IF r.his THEN "none" ELSE @]
       IN \/ /\ Again /\ lun
             /\ port' = Begin(p)
             /\ req' = [req EXCEPT !.retry = Retried]
             /\ UNCHANGED report
             /\ events' = IF p.st THEN events ELSE events + 1
          \/ /\ ~(Again /\ lun)
             /\ port' = p
             /\ Answer(IF Again THEN "nodevice" ELSE Told, 0)
             /\ Stuck
  /\ UNCHANGED lun

Serve ==
  /\ isr.pc = "serve" /\ req # NoReq /\ (Unexpected => dev.atapi)
  /\ Complete \/ Recover
  /\ isr' = Idle
  /\ UNCHANGED dev
-----------------------------------------------------------------------------
(* AtapiResetController__ after a timeout: the request is answered, and    *)
(* UniataAhciReset either finds the device again, or not; then the port    *)
(* is left stopped, unless it was the identification that failed.          *)
Reset ==
  /\ isr.pc = "idle" /\ Event
  /\ \/ /\ port.link
        /\ lun' = TRUE
        /\ port' = [port EXCEPT !.st = TRUE, !.ci = FALSE, !.halted = FALSE, !.is = {},
                                !.his = FALSE, !.serr = "none", !.err = FALSE]
     \/ /\ ~port.link \/ Fault("stuck")
        /\ lun' = FALSE
        /\ port' = [port EXCEPT !.st = FALSE, !.ci = FALSE, !.halted = FALSE]
     \/ /\ port.link /\ Fault("stuck")
        /\ lun' = FALSE
        /\ \E st \in BOOLEAN :
             port' = [port EXCEPT !.st = st, !.ci = FALSE, !.halted = FALSE, !.is = {},
                                  !.his = FALSE, !.serr = "none", !.err = FALSE]
  /\ IF req = NoReq THEN UNCHANGED <<req, report>> ELSE Answer("busreset", 0)
  /\ UNCHANGED <<dev, isr>>
-----------------------------------------------------------------------------
Isr == Enter \/ ReadCi \/ Clear \/ Events \/ Ignore \/ Serve

Next == \/ \E write \in BOOLEAN : StartIo(write)
        \/ Isr
        \/ Finish \/ Early \/ Fail \/ Mismatch
        \/ Unplug \/ Plug
        \/ Reset

(* Commands end sooner or later, and interrupts are served; nothing makes  *)
(* a reset happen.                                                         *)
Fairness == WF_vars(Isr) /\ WF_vars(Finish)

Spec == Init /\ [][Next]_vars /\ Fairness
-----------------------------------------------------------------------------
(* A request is tried fewer than MAX_RETRIES times, and the data counted   *)
(* are those asked for.                                                    *)
TypeOK ==
  /\ port.is \subseteq Benign \cup Errors \cup {"PCS", "PRC"}
  /\ port.is # {} => port.his
  /\ port.moved \in 0 .. Len
  /\ isr.pc \in {"idle", "ci", "clear", "events", "serve"}
  /\ req # NoReq => req.retry < MaxRetries

(* The command will not come to an end: it was issued to a stopped port, a *)
(* device was identified in its slot, or the device is gone.               *)
Lost == \/ port.end \in {"ignored", "other"}
        \/ ~port.link \/ {"PRC", "PCS"} \cap port.is # {} \/ ~lun

(* Nobody waits for an interrupt that has been and gone: a request in the  *)
(* slot is being run, or an interrupt is pending or being served           *)
(* (UniataAhciStatus clears only what it has read, and the controller's    *)
(* bit before the port's: an interrupt that finds a running command but    *)
(* whose bits include the last command's would else be the last).          *)
NoneMissed ==
  req # NoReq => Running \/ port.his \/ isr.pc # "idle" \/ Lost

(* A hard disk's request is answered as done, or done in part, only if the *)
(* adapter ended it that way: an interrupt for something else does not     *)
(* complete it (the CI check of UniataAhciStatus).  The exceptions are the *)
(* driver's: a command of an odd length is stopped and counts as far as it *)
(* came, whatever it meets at that moment, and an error that sets no error *)
(* register is reported as success by the last try, with length 0.  One    *)
(* that was never run (Lost) may be reported as moved in part, by 0.       *)
Truthful ==
  ~dev.atapi =>
    /\ report.status = "success" => \/ report.end = "done"
                                    \/ report.odd # "none" /\ report.moved = Len
                                    \/ report.length = 0
    /\ report.status = "overrun" => report.odd # "none" \/ report.end \in {"ignored", "other"}

(* A request is answered without the help of a timeout. *)
Answered == req # NoReq ~> (req = NoReq \/ Lost)
=============================================================================
