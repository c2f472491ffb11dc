---------------------------- MODULE PacketProof ----------------------------
(***************************************************************************)
(* Proofs about Packet, for all adapters, devices, commands and bounds.    *)
(***************************************************************************)
EXTENDS Packet, TLAPS

States == {"QUEUED", "READY", "RETRY", "WAITS", "SEEKS", "EXPECTING_CMD",
           "EXPECTING_DATA", "BUSY0", "BUSY1", "DPC"}
Phases == {"idle", "packet", "cod", "exec", "data", "status", "late", "block",
           "error", "wrong", "hung"}
Keys == {"none", "hardware", "recovered", "other"}
Statuses == {"success", "error", "overrun", "aborted", "selection timeout",
             "bus reset", "pending"}

Requests == [state : States, cmd : Commands, left : Nat, moved : Nat,
             dma : BOOLEAN, force : BOOLEAN, retried : BOOLEAN,
             posted : BOOLEAN]
Channels == [expecting : BOOLEAN, silent : BOOLEAN,
             timer : {"none", "callback", "dpc"}, rdp : BOOLEAN, dma : BOOLEAN, active : BOOLEAN]
Devices == [phase : Phases, irq : BOOLEAN, given : Nat, total : Nat, chunk : Nat,
            key : Keys, dsc : BOOLEAN, sense : BOOLEAN]
Reports == [status : Statuses, length : Int, cmd : Commands, given : Nat,
            total : Nat, key : Keys, sent : BOOLEAN, posted : BOOLEAN,
            active : BOOLEAN]

Typed == /\ opt \in Options
         /\ mode \in {"pio", "slow", "fast"}
         /\ req \in Requests \cup {NoReq}
         /\ chan \in Channels
         /\ dev \in Devices
         /\ report \in Reports \cup {NoReport}
         /\ resets \in Nat

(* The buffer is never left: words moved and words to come are at most all. *)
InBuffer == req # NoReq => req.moved + req.left <= req.cmd.len

(* The end of the request is left to the DPC. *)
Posted == req.state = "DPC"

(* Who looks at the request next. *)
LookInv ==
  /\ chan.timer = "none" => ~chan.silent
  /\ chan.timer = "dpc" <=> Posted
  /\ Posted => req.posted
  /\ Expects /\ ~req.posted => chan.expecting
  /\ req.state = "SEEKS" => chan.timer = "callback" /\ chan.rdp /\ ~chan.expecting
  /\ Expects /\ ~req.posted /\ chan.timer = "none" =>
       dev.irq \/ dev.phase \in {"packet", "exec", "hung"}

(* Before the first bus reset a call that is to come belongs to the        *)
(* current request, which keeps the channel silent until then.             *)
CallInv ==
  resets = 0 /\ chan.timer = "callback" =>
    chan.silent /\ req.state \in {"BUSY0", "BUSY1", "SEEKS"}

(* The device interrupts once in a transfer, and not busy with less than   *)
(* it was asked for.                                                       *)
Once == "block" \notin opt.faults /\ ~({"late", "short"} \subseteq opt.faults)

(* And the DMA engine of such a device runs only while a command is being  *)
(* executed; no engine runs while a request is left to the DPC.            *)
EngineInv ==
  /\ resets = 0 /\ Once /\ chan.active =>
       req.state \in {"EXPECTING_CMD", "EXPECTING_DATA"} /\ chan.timer = "none"
  /\ Posted => ~chan.active

(* What the device may do it does. *)
FaultInv ==
  /\ dev.phase = "late" => "late" \in opt.faults
  /\ "short" \notin opt.faults /\ (Expects \/ Posted) => dev.total >= req.cmd.len

(* What the driver and the device have counted agrees. *)
Rest(len, given) == IF given < len THEN len - given ELSE 0

CountInv ==
  "block" \notin opt.faults =>
    /\ dev.phase # "block"
    /\ dev.phase \in {"status", "late"} => dev.given = dev.total
    /\ dev.phase = "error" /\ dev.key = "recovered" => dev.given = dev.total
    /\ req.state = "SEEKS" => dev.phase = "idle" /\ dev.given = dev.total
    /\ req.state \in {"READY", "RETRY"} => req.left = req.cmd.len
    /\ Expects /\ dev.phase \in {"packet", "cod"} =>
         dev.given = 0 /\ req.left = req.cmd.len
    /\ Expects \/ Posted =>
         (dev.phase \in {"exec", "data"} /\ req.cmd.dir = "in" =>
            req.left = Rest(req.cmd.len, dev.given))
    /\ Posted =>
         IF req.left = 0 THEN dev.given >= req.cmd.len \/ dev.total < req.cmd.len
                         ELSE dev.given < req.cmd.len

(* Sense data of a device that is used in PIO: they are there while it     *)
(* shows an error, and until the packet that asks for them is written.     *)
SenseInv ==
  opt.speed = "pio" =>
    /\ mode = "pio"
    /\ dev.sense =>
         \/ dev.phase = "error"
         \/ dev.phase \in {"packet", "cod"} /\ Expects /\ req.cmd.op = "sense"

IInv == /\ Typed
        /\ InBuffer
        /\ LookInv
        /\ CallInv
        /\ EngineInv
        /\ FaultInv
        /\ CountInv
        /\ SenseInv
        /\ AsMoved
        /\ EngineDone
-----------------------------------------------------------------------------
(* A request is one, or there is none. *)
LEMMA Present == ASSUME Typed
                 PROVE  /\ req.state \in States => req \in Requests
                        /\ req \in Requests => req # NoReq /\ req.state \in States
                        /\ req \notin Requests => req = NoReq /\ req.state = "NONE"
BY DEF Typed, Requests, NoReq, States

(* What a request that ends leaves behind. *)
LEMMA Answers ==
  ASSUME Typed, req \in Requests, dev' \in Devices, chan' \in Channels,
         NEW status \in Statuses, NEW length \in Int, Answer(status, length)
  PROVE  /\ req' = NoReq /\ req'.state = "NONE" /\ ~Expects'
         /\ report' \in Reports
         /\ report'.status = status /\ report'.length = length
         /\ report'.cmd = req.cmd /\ report'.given = dev'.given
         /\ report'.total = dev.total /\ report'.key = dev.key
         /\ report'.sent = (~Sending /\ req.state # "WAITS")
         /\ report'.posted = req.posted /\ report'.active = chan'.active
<1> DEFINE r == [status |-> status, length |-> length, cmd |-> req.cmd,
                 given |-> dev'.given, total |-> dev.total, key |-> dev.key,
                 sent |-> ~Sending /\ req.state # "WAITS", posted |-> req.posted,
                 active |-> chan'.active]
<1>1. report' = r /\ req' = NoReq
  BY DEF Answer
<1>2. req.cmd \in Commands /\ dev'.given \in Nat /\ dev.total \in Nat /\ dev.key \in Keys
      /\ chan'.active \in BOOLEAN /\ req.posted \in BOOLEAN
  BY DEF Typed, Requests, Devices, Channels
<1>3. r \in Reports
  BY <1>2 DEF Reports
<1>. QED
  BY <1>1, <1>3 DEF NoReq, Expects

(* Which modes there are. *)
LEMMA Modes == ASSUME Typed
               PROVE  opt.speed \in {"pio", "slow", "fast"}
BY PacketAssumption DEF Typed

(* Idle devices are devices. *)
LEMMA IdleTyped == IdleDev \in Devices
BY DEF IdleDev, Devices, Phases, Keys

(* The request as it is sent has room for its words and none of them moved. *)
LEMMA Prepares ==
  ASSUME IInv, Sending, NEW mapped \in BOOLEAN
  PROVE  /\ req \in Requests
         /\ ToSend(req, mapped) \in Requests
         /\ ToSend(req, mapped).cmd = req.cmd
         /\ ToSend(req, mapped).state = req.state
         /\ ToSend(req, mapped).retried = req.retried
         /\ ToSend(req, mapped).moved + ToSend(req, mapped).left <= req.cmd.len
         /\ "block" \notin opt.faults => ToSend(req, mapped).left = req.cmd.len
<1>1. req \in Requests /\ req.cmd.len \in Nat
  BY PacketAssumption, Present DEF IInv, Typed, Requests, Sending, States
<1> DEFINE p == IF req.state = "QUEUED" THEN Prepared(req, mapped) ELSE req
<1>2. PICK b \in BOOLEAN : b = (DmaWanted(req.cmd) /\ mapped)
  OBVIOUS
<1>3. Prepared(req, mapped) = [req EXCEPT !.left = req.cmd.len, !.moved = 0, !.dma = b]
  BY <1>2 DEF Prepared
<1>4. p \in Requests /\ p.cmd = req.cmd /\ p.state = req.state /\ p.retried = req.retried
  <2> DEFINE q == [req EXCEPT !.left = req.cmd.len, !.moved = 0, !.dma = b]
  <2>1. q \in Requests
    BY <1>1 DEF Requests
  <2>2. q.cmd = req.cmd /\ q.state = req.state /\ q.retried = req.retried
    BY <1>1 DEF Requests
  <2>3. p = q \/ p = req
    BY <1>3
  <2>. QED
    BY <1>1, <2>1, <2>2, <2>3
<1>5. p.moved + p.left <= req.cmd.len
  BY <1>1, <1>3, Present DEF IInv, InBuffer, Requests
<1>6. "block" \notin opt.faults => p.left = req.cmd.len
  BY <1>1, <1>3 DEF IInv, CountInv, Sending, Requests
<1> HIDE DEF p
<1>7. PICK e \in BOOLEAN : e = (p.dma /\ opt.speed # "pio")
  OBVIOUS
<1>8. ToSend(req, mapped) = [p EXCEPT !.dma = e]
  BY <1>7 DEF ToSend, p
<1>. QED
  BY <1>1, <1>4, <1>5, <1>6, <1>8 DEF Requests

(* SET FEATURES may end the error state of the device, never in PIO. *)
LEMMA Reinits ==
  ASSUME IInv, NEW r \in Requests
  PROVE  /\ Reinit(r) \in {"pio", "slow", "fast"}
         /\ AfterReinit(dev, r) \in Devices
         /\ \/ AfterReinit(dev, r) = dev
            \/ /\ dev.phase = "error"
               /\ AfterReinit(dev, r) = [dev EXCEPT !.phase = "idle"]
         /\ opt.speed = "pio" => Reinit(r) = "pio" /\ AfterReinit(dev, r) = dev
<1>1. Reinit(r) \in {"pio", "slow", "fast"} /\ dev \in Devices
  BY Modes DEF IInv, Typed, Reinit
<1>2. [dev EXCEPT !.phase = "idle"] \in Devices
  BY <1>1 DEF Devices, Phases
<1>. QED
  BY <1>1, <1>2 DEF IInv, SenseInv, Reinit, AfterReinit
-----------------------------------------------------------------------------
(* What AsMoved asks of the report that a step makes. *)
Reported(status, length) ==
  LET sent == ~Sending /\ req.state # "WAITS"
      untold == dev'.given < req.cmd.len /\ dev.total < req.cmd.len
  IN  "block" \notin opt.faults =>
        /\ status = "success" /\ req.cmd.op # "sense" =>
             \/ sent /\ length = req.cmd.len /\ (dev'.given >= req.cmd.len \/ untold)
             \/ req.posted /\ length = 0 /\ dev'.given < req.cmd.len
             \/ sent /\ dev.key = "recovered" /\ length = 0
             \/ ~sent /\ (dev.key = "recovered" \/ resets' > 0)
        /\ status = "overrun" => length = dev'.given

(* What a step that ends the request makes of channel and device. *)
Left ==
  /\ opt' = opt /\ mode' \in {"pio", "slow", "fast"} /\ resets' \in Nat
  /\ dev' \in Devices /\ chan' \in Channels
  /\ chan'.timer = "none" => ~chan'.silent
  /\ chan'.timer # "dpc" /\ (resets' = 0 => chan'.timer = "none")
  /\ resets' = 0 /\ Once => ~chan'.active
  /\ dev'.phase = "late" => "late" \in opt.faults
  /\ "block" \notin opt.faults =>
       /\ dev'.phase # "block"
       /\ dev'.phase \in {"status", "late"} => dev'.given = dev'.total
       /\ dev'.phase = "error" /\ dev'.key = "recovered" => dev'.given = dev'.total
  /\ opt.speed = "pio" => mode' = "pio" /\ (dev'.sense => dev'.phase = "error")

(* A request that ends leaves the invariant. *)
LEMMA Ends ==
  ASSUME IInv, req \in Requests, Left, NEW status \in Statuses, NEW length \in Int,
         Answer(status, length), Reported(status, length)
  PROVE  IInv'
<1>1. /\ req' = NoReq /\ req'.state = "NONE" /\ ~Expects' /\ report' \in Reports
      /\ report'.status = status /\ report'.length = length
      /\ report'.cmd = req.cmd /\ report'.given = dev'.given
      /\ report'.total = dev.total /\ report'.key = dev.key
      /\ report'.sent = (~Sending /\ req.state # "WAITS")
      /\ report'.posted = req.posted /\ report'.active = chan'.active
  BY Answers DEF IInv, Left
<1>2. Typed'
  BY <1>1 DEF IInv, Typed, Left
<1>3. /\ InBuffer' /\ LookInv' /\ CallInv' /\ EngineInv' /\ FaultInv'
      /\ CountInv' /\ SenseInv'
  BY <1>1 DEF Left, InBuffer, LookInv, CallInv, EngineInv, FaultInv, CountInv, SenseInv,
              Once, Posted
<1>4. AsMoved'
  BY <1>1 DEF Left, AsMoved, Untold, Reported
<1>5. EngineDone'
  BY <1>1 DEF Left, EngineDone, BlocksAwaited, Once
<1>. QED
  BY <1>2, <1>3, <1>4, <1>5 DEF IInv

(* One that ends without success says nothing of what was moved. *)
LEMMA Fails ==
  ASSUME IInv, req \in Requests, Left, NEW status \in Statuses, NEW length \in Int,
         Answer(status, length), status \notin {"success", "overrun"}
  PROVE  IInv'
<1>1. Reported(status, length)
  BY DEF Reported
<1>. QED
  BY <1>1, Ends

(* A step that makes no report need not care about the last one. *)
LEMMA Reports0 ==
  ASSUME IInv, opt' = opt, resets' = resets, UNCHANGED report \/ report' = NoReport
  PROVE  AsMoved' /\ EngineDone' /\ report' \in Reports \cup {NoReport}
BY DEF IInv, Typed, AsMoved, Untold, EngineDone, BlocksAwaited, NoReport
-----------------------------------------------------------------------------
(* An interrupt or a call of the timer that serves the request; c is the   *)
(* channel as AtapiInterrupt__ finds it.                                   *)
Serving(c) ==
  /\ Expects \/ (Posted /\ dev.phase \in {"data", "wrong"})
  /\ c \in Channels /\ c.timer # "dpc" /\ (~req.posted => c.expecting)
  /\ c.rdp = chan.rdp
  /\ resets = 0 => c.timer = "none"
  /\ resets = 0 /\ Once => ~c.active
  /\ UNCHANGED <<opt, mode, resets>>

(* The engine is stopped when an interrupt for other than a block is       *)
(* served, and the device is not busy.                                     *)
Halted(c, inDpc) == inDpc \/ dev.phase \in {"block", "late"} \/ ~c.active

(* What is known when the handler serves the request. *)
LEMMA Served == ASSUME IInv, NEW c, Serving(c)
                PROVE  /\ req \in Requests /\ req # NoReq /\ ~Sending
                       /\ req.state # "WAITS" /\ dev \in Devices
                       /\ req.cmd \in Commands /\ req.cmd.len \in Nat
                       /\ req.left \in Nat /\ req.posted \in BOOLEAN
BY PacketAssumption, Present
   DEF IInv, Typed, Serving, Expects, Posted, Sending, States, Requests

(* The packet is written. *)
LEMMA CommandServed == ASSUME IInv, NEW c, Serving(c), ServeCommand(c)
                       PROVE  IInv'
<1>1. req \in Requests /\ req # NoReq /\ dev \in Devices /\ c \in Channels
  BY Served DEF Serving
<1>2. /\ req' \in Requests /\ req'.state = "EXPECTING_DATA" /\ req'.cmd = req.cmd
      /\ req'.left = req.left /\ req'.moved = req.moved
      /\ req'.posted = req.posted
  BY <1>1 DEF ServeCommand, Requests, States
<1>3. /\ chan' \in Channels /\ chan'.timer = c.timer /\ ~chan'.silent
      /\ chan'.expecting = c.expecting
  BY <1>1 DEF ServeCommand, On, Channels, Serving
<1>4. /\ dev' \in Devices /\ dev'.phase = "exec" /\ ~dev'.sense
      /\ dev'.given = dev.given /\ dev'.total = dev.total
  BY <1>1 DEF ServeCommand, Given, Devices, Phases
<1>5. Typed' /\ AsMoved' /\ EngineDone'
  BY <1>2, <1>3, <1>4, Reports0 DEF IInv, Typed, Serving, ServeCommand, Quiet
<1>6. InBuffer' /\ LookInv' /\ CallInv' /\ EngineInv' /\ FaultInv' /\ SenseInv'
  BY <1>1, <1>2, <1>3, <1>4
     DEF IInv, InBuffer, LookInv, CallInv, EngineInv, SenseInv, Expects, Serving,
         FaultInv, Posted, Once
<1>7. CountInv'
  <2>1. "block" \notin opt.faults => dev.given = 0 /\ req.left = req.cmd.len
    BY DEF IInv, CountInv, Serving, ServeCommand, Posted
  <2>2. req.cmd.len \in Nat
    BY Served
  <2>. QED
    BY <1>2, <1>4, <2>1, <2>2 DEF CountInv, Rest, Expects, Serving, Posted
<1>. QED
  BY <1>5, <1>6, <1>7 DEF IInv

(* The device is busy: it is looked at later, or reset. *)
LEMMA BusyServed == ASSUME IInv, NEW c, NEW inDpc \in BOOLEAN,
                           Serving(c), ServeBusy(c, inDpc)
                    PROVE  IInv'
<1>1. /\ req \in Requests /\ req # NoReq /\ dev \in Devices /\ c \in Channels
      /\ ~Sending /\ req.state # "WAITS" /\ req.cmd.len \in Nat
  BY Served DEF Serving
<1>2. CASE /\ req' = [req EXCEPT !.state = IF inDpc THEN "BUSY1" ELSE "BUSY0"]
           /\ chan' = Later(c)
           /\ dev' = [dev EXCEPT !.irq = FALSE]
           /\ Quiet
  <2>1. /\ req' \in Requests /\ req'.state \in {"BUSY0", "BUSY1"} /\ req'.cmd = req.cmd
        /\ req'.left = req.left /\ req'.moved = req.moved
        /\ req'.posted = req.posted
    BY <1>1, <1>2 DEF Requests, States
  <2>2. /\ chan' \in Channels /\ chan'.timer = "callback" /\ chan'.silent
        /\ chan'.expecting = c.expecting /\ chan'.active = c.active
    BY <1>1, <1>2 DEF Later, Channels, Serving
  <2>3. /\ dev' \in Devices /\ dev'.phase = dev.phase /\ dev'.sense = dev.sense
        /\ dev'.given = dev.given /\ dev'.total = dev.total /\ dev'.key = dev.key
    BY <1>1, <1>2 DEF Devices
  <2>4. Typed' /\ AsMoved' /\ EngineDone'
    BY <2>1, <2>2, <2>3, <1>2, Reports0 DEF IInv, Typed, Serving, Quiet
  <2>5. InBuffer' /\ LookInv' /\ CallInv' /\ EngineInv' /\ FaultInv' /\ SenseInv'
    BY <1>1, <2>1, <2>2, <2>3
       DEF IInv, InBuffer, LookInv, CallInv, EngineInv, SenseInv, Expects, Serving,
           FaultInv, Posted, Once
  <2>6. CountInv'
    BY <2>1, <2>3 DEF IInv, CountInv, Expects, Serving, Posted
  <2>. QED
    BY <2>4, <2>5, <2>6 DEF IInv
<1>3. CASE /\ chan' = [Ended(c) EXCEPT !.active = FALSE]
           /\ dev' = IdleDev
           /\ Answer("aborted", req.cmd.len)
  <2>1. Left
    <3>1. /\ chan' \in Channels /\ chan'.timer = c.timer /\ ~chan'.silent
          /\ ~chan'.active
      BY <1>1, <1>3 DEF Ended, Channels
    <3>2. dev' \in Devices /\ dev'.phase = "idle" /\ ~dev'.sense
      BY <1>3, IdleTyped DEF IdleDev
    <3>. QED
      BY <3>1, <3>2 DEF Left, Serving, IInv, Typed, SenseInv, Once
  <2>2. "aborted" \in Statuses \ {"success", "overrun"} /\ req.cmd.len \in Int
    BY <1>1 DEF Statuses
  <2>. QED
    BY <1>1, <1>3, <2>1, <2>2, Fails
<1>. QED
  BY <1>2, <1>3 DEF ServeBusy

(* Words that are read or written fit into what is left of the buffer. *)
LEMMA TakenFits ==
  ASSUME IInv, req \in Requests, dev \in Devices
  PROVE  /\ Taken \in Nat /\ Taken <= req.left /\ Taken <= dev.chunk
         /\ req.left - Taken \in Nat
         /\ Taken < req.left => Taken = dev.chunk
BY DEF Taken, Lower, Requests, Devices

(* A request that is to end, and whose device is not ready: the rest is    *)
(* left to the DPC, or the channel reset.                                  *)
LEMMA NotReadyServed ==
  ASSUME IInv, NEW c, NEW inDpc \in BOOLEAN, Serving(c), inDpc \/ ~c.active,
         NEW r \in Requests, NEW d \in Devices, NotReady(c, r, d, inDpc),
         r.cmd = req.cmd, r.moved + r.left <= req.cmd.len,
         d.phase \in {"idle", "exec", "data", "hung", "wrong"}, d.total = dev.total,
         opt.speed = "pio" => ~d.sense,
         "block" \notin opt.faults =>
           /\ d.phase \in {"exec", "data"} /\ req.cmd.dir = "in" =>
                r.left = Rest(req.cmd.len, d.given)
           /\ IF r.left = 0 THEN d.given >= req.cmd.len \/ d.total < req.cmd.len
                            ELSE d.given < req.cmd.len
  PROVE  IInv'
<1>1. /\ req \in Requests /\ req # NoReq /\ c \in Channels /\ dev \in Devices
      /\ req.cmd.len \in Nat
  BY Served DEF Serving
<1>2. CASE /\ ~inDpc
           /\ req' = [r EXCEPT !.state = "DPC", !.posted = TRUE]
           /\ chan' = [c EXCEPT !.timer = "dpc", !.silent = TRUE, !.expecting = FALSE]
           /\ dev' = d
           /\ Quiet
  <2>1. /\ req' \in Requests /\ req'.state = "DPC" /\ req'.cmd = req.cmd
        /\ req'.left = r.left /\ req'.moved = r.moved /\ req'.posted
    BY <1>2 DEF Requests, States
  <2>2. /\ chan' \in Channels /\ chan'.timer = "dpc" /\ chan'.silent
        /\ ~chan'.expecting /\ ~chan'.active
    BY <1>1, <1>2 DEF Channels
  <2>3. Typed' /\ AsMoved' /\ EngineDone'
    BY <2>1, <2>2, <1>2, Reports0 DEF IInv, Typed, Serving, Quiet
  <2>4. InBuffer' /\ LookInv' /\ CallInv' /\ EngineInv'
    BY <2>1, <2>2 DEF InBuffer, LookInv, CallInv, EngineInv, Expects, Posted
  <2>5. FaultInv' /\ SenseInv'
    BY <1>1, <1>2, <2>1 DEF IInv, FaultInv, SenseInv, Expects, Posted, Serving
  <2>6. CountInv'
    BY <1>2, <2>1 DEF CountInv, Rest, Expects, Posted, Serving
  <2>. QED
    BY <2>3, <2>4, <2>5, <2>6 DEF IInv
<1>3. CASE /\ chan' = [Ended(c) EXCEPT !.active = FALSE]
           /\ dev' \in AfterReset
           /\ Answer("aborted", req.cmd.len)
  <2>1. /\ chan' \in Channels /\ chan'.timer = c.timer /\ ~chan'.silent
        /\ ~chan'.active
    BY <1>1, <1>3 DEF Ended, Channels
  <2>2. /\ dev' \in Devices /\ dev'.phase \in {"idle", "hung"}
        /\ opt.speed = "pio" => ~dev'.sense
    <3>1. CASE dev' = IdleDev
      BY <3>1, IdleTyped DEF IdleDev
    <3>2. CASE dev' = dev /\ dev.phase = "hung"
      BY <1>1, <3>2 DEF IInv, SenseInv
    <3>. QED
      BY <1>3, <3>1, <3>2 DEF AfterReset
  <2>3. Left
    BY <2>1, <2>2 DEF Left, Serving, IInv, Typed, SenseInv, Once
  <2>4. "aborted" \in Statuses \ {"success", "overrun"} /\ req.cmd.len \in Int
    BY <1>1 DEF Statuses
  <2>. QED
    BY <1>1, <1>3, <2>3, <2>4, Fails
<1>. QED
  BY <1>2, <1>3 DEF NotReady

(* Words are read. *)
LEMMA ReadServed == ASSUME IInv, NEW c, NEW inDpc \in BOOLEAN,
                           Serving(c), Halted(c, inDpc), ServeRead(c, inDpc)
                    PROVE  IInv'
<1>1. /\ req \in Requests /\ req # NoReq /\ dev \in Devices /\ c \in Channels
      /\ ~Sending /\ req.state # "WAITS" /\ req.cmd.len \in Nat
  BY Served DEF Serving
<1> DEFINE left == req.left - Taken
           given == dev.given + dev.chunk
           d == [dev EXCEPT !.given = given, !.irq = FALSE]
<1>2. /\ left \in Nat /\ given \in Nat /\ Taken \in Nat /\ req.left \in Nat
      /\ req.moved \in Nat /\ dev.chunk \in Nat /\ dev.given \in Nat
  BY <1>1, TakenFits DEF Requests, Devices
<1>3. /\ d \in Devices /\ d.given = given /\ d.total = dev.total /\ d.key = dev.key
      /\ d.sense = dev.sense /\ d.phase = "data"
  BY <1>1, <1>2 DEF Devices, ServeRead
<1>4. "block" \notin opt.faults =>
        /\ req.left = Rest(req.cmd.len, dev.given)
        /\ left = Rest(req.cmd.len, given)
        /\ left > 0 => req.cmd.len - left = given
  <2>1. "block" \notin opt.faults => req.left = Rest(req.cmd.len, dev.given)
    BY DEF IInv, CountInv, ServeRead, Serving, Posted
  <2>2. Taken = IF dev.chunk < req.left THEN dev.chunk ELSE req.left
    BY DEF Taken, Lower
  <2>. QED
    BY <1>1, <1>2, <2>1, <2>2 DEF Rest
<1>5. opt.speed = "pio" => ~dev.sense
  BY DEF IInv, SenseInv, ServeRead
<1> HIDE DEF left, given, d
<1>6. CASE /\ req' = [req EXCEPT !.left = left, !.moved = @ + Taken,
                                 !.state = "EXPECTING_DATA"]
           /\ chan' = On(c)
           /\ dev' = [d EXCEPT !.phase = "exec"]
           /\ Quiet
  <2>1. req' \in Requests
    <3>1. PICK m \in Nat : m = req.moved + Taken
      BY <1>2
    <3>2. req' = [req EXCEPT !.left = left, !.moved = m, !.state = "EXPECTING_DATA"]
      BY <1>6, <3>1
    <3>. QED
      BY <1>1, <1>2, <3>2 DEF Requests, States
  <2>2. /\ req'.state = "EXPECTING_DATA" /\ req'.cmd = req.cmd
        /\ req'.left = left /\ req'.moved = req.moved + Taken
        /\ req'.posted = req.posted
    BY <1>1, <1>6 DEF Requests
  <2>3. /\ chan' \in Channels /\ chan'.timer = c.timer /\ ~chan'.silent
        /\ chan'.expecting = c.expecting /\ chan'.active = c.active
    BY <1>1, <1>6 DEF On, Channels, Serving
  <2>4. dev' \in Devices
    BY <1>3, <1>6 DEF Devices, Phases
  <2>5. /\ dev'.phase = "exec" /\ dev'.sense = dev.sense
        /\ dev'.given = given /\ dev'.total = dev.total
    BY <1>3, <1>6 DEF Devices
  <2>6. Typed' /\ AsMoved' /\ EngineDone'
    BY <2>1, <2>3, <2>4, <1>6, Reports0 DEF IInv, Typed, Serving, Quiet
  <2>7. InBuffer'
    BY <1>1, <1>2, <2>2 DEF IInv, InBuffer, left
  <2>8. LookInv' /\ CallInv' /\ EngineInv' /\ FaultInv' /\ SenseInv'
    BY <1>1, <1>5, <2>2, <2>3, <2>5
       DEF IInv, LookInv, CallInv, EngineInv, SenseInv, Expects, Serving, FaultInv,
           Posted, Once
  <2>9. CountInv'
    BY <2>2, <2>5, <1>4 DEF IInv, CountInv, Expects, Serving, Posted
  <2>. QED
    BY <2>6, <2>7, <2>8, <2>9 DEF IInv
<1>7. CASE /\ given = dev.total
           /\ chan' = Ended(c)
           /\ dev' \in {[d EXCEPT !.phase = "idle", !.irq = i] : i \in BOOLEAN}
           /\ Answer(EarlyStatus(left), req.cmd.len - left)
  <2>1. PICK i \in BOOLEAN : dev' = [d EXCEPT !.phase = "idle", !.irq = i]
    BY <1>7
  <2>2. dev' \in Devices
    BY <1>3, <2>1 DEF Devices, Phases
  <2>3. dev'.phase = "idle" /\ dev'.sense = dev.sense /\ dev'.given = given
    BY <1>3, <2>1 DEF Devices
  <2>4. /\ chan' \in Channels /\ chan'.timer = c.timer /\ ~chan'.silent
        /\ chan'.active = c.active
    BY <1>1, <1>7 DEF Ended, Channels
  <2>5. Left
    BY <1>5, <2>2, <2>3, <2>4 DEF Left, Serving, IInv, Typed, SenseInv, Once
  <2>6. Reported(EarlyStatus(left), req.cmd.len - left)
    <3>1. CASE left = 0
      <4>1. EarlyStatus(left) = "success" /\ req.cmd.len - left = req.cmd.len
        BY <1>1, <3>1 DEF EarlyStatus
      <4>2. dev'.given >= req.cmd.len \/ (dev'.given < req.cmd.len /\ dev.total < req.cmd.len)
        <5>1. given = dev.total /\ dev'.given = dev.total /\ dev.total \in Nat
          BY <1>2, <1>7, <2>3
        <5>. QED
          BY <1>1, <5>1
      <4>. QED
        BY <1>1, <4>1, <4>2 DEF Reported
    <3>2. CASE left # 0
      <4>1. EarlyStatus(left) = "overrun" /\ left > 0
        BY <1>2, <3>2 DEF EarlyStatus
      <4>. QED
        BY <1>4, <2>3, <4>1 DEF Reported
    <3>. QED
      BY <3>1, <3>2
  <2>7. EarlyStatus(left) \in Statuses /\ req.cmd.len - left \in Int
    BY <1>1, <1>2 DEF EarlyStatus, Statuses
  <2>. QED
    BY <1>1, <1>7, <2>5, <2>6, <2>7, Ends
<1>8. ASSUME NEW e \in Devices, e.given = given, e.total = dev.total, e.sense = dev.sense,
             e.phase \in {"exec", "data"},
             NotReady(c, [req EXCEPT !.left = left, !.moved = @ + Taken], e, inDpc)
      PROVE  IInv'
  <2>1. PICK m \in Nat : m = req.moved + Taken
    BY <1>2
  <2>2. PICK r : r = [req EXCEPT !.left = left, !.moved = m]
    OBVIOUS
  <2>3. r \in Requests /\ r.cmd = req.cmd /\ r.left = left /\ r.moved = m
    BY <1>1, <1>2, <2>2 DEF Requests
  <2>4. m + left <= req.cmd.len
    BY <1>1, <1>2, <2>1 DEF IInv, InBuffer, left
  <2>5. NotReady(c, r, e, inDpc)
    BY <1>8, <2>1, <2>2
  <2>6. inDpc \/ ~c.active
    BY DEF Halted, ServeRead
  <2>7. "block" \notin opt.faults => IF left = 0 THEN given >= req.cmd.len
                                                ELSE given < req.cmd.len
    BY <1>1, <1>2, <1>4 DEF Rest
  <2>. QED
    BY <1>4, <1>5, <1>8, <2>3, <2>4, <2>5, <2>6, <2>7, NotReadyServed
<1>9. NotReady(c, [req EXCEPT !.left = left, !.moved = @ + Taken],
               [d EXCEPT !.phase = "exec"], inDpc) => IInv'
  <2>1. PICK e : e = [d EXCEPT !.phase = "exec"]
    OBVIOUS
  <2>2. e \in Devices /\ e.phase = "exec" /\ e.given = given /\ e.total = dev.total
        /\ e.sense = dev.sense
    BY <1>3, <2>1 DEF Devices, Phases
  <2>. QED
    BY <1>8, <2>1, <2>2
<1>10. NotReady(c, [req EXCEPT !.left = left, !.moved = @ + Taken], d, inDpc) => IInv'
  BY <1>3, <1>8
<1>. QED
  BY <1>6, <1>7, <1>9, <1>10 DEF ServeRead, left, given, d

(* Words are written. *)
LEMMA WriteServed == ASSUME IInv, NEW c, Serving(c), ServeWrite(c)
                     PROVE  IInv'
<1>1. /\ req \in Requests /\ req # NoReq /\ dev \in Devices /\ c \in Channels
      /\ req.cmd.len \in Nat
  BY Served DEF Serving
<1>2. PICK left \in Nat, moved \in Nat, given \in Nat :
        /\ left = req.left - Taken /\ moved = req.moved + Taken
        /\ given = dev.given + Taken
  BY <1>1, TakenFits DEF Requests, Devices
<1>3. /\ req' = [req EXCEPT !.left = left, !.moved = moved, !.state = "EXPECTING_DATA"]
      /\ chan' = On(c)
      /\ dev' = [dev EXCEPT !.given = given, !.irq = FALSE, !.phase = "exec"]
      /\ Quiet /\ dev.phase = "data" /\ req.cmd.dir = "out"
  BY <1>2 DEF ServeWrite
<1>4. req' \in Requests
  BY <1>1, <1>3 DEF Requests, States
<1>5. /\ req'.state = "EXPECTING_DATA" /\ req'.cmd = req.cmd
      /\ req'.left = left /\ req'.moved = moved /\ req'.posted = req.posted
  BY <1>1, <1>3 DEF Requests
<1>6. /\ chan' \in Channels /\ chan'.timer = c.timer /\ ~chan'.silent
      /\ chan'.expecting = c.expecting /\ chan'.active = c.active
  BY <1>1, <1>3 DEF On, Channels, Serving
<1>7. dev' \in Devices
  BY <1>1, <1>3 DEF Devices, Phases
<1>8. dev'.phase = "exec" /\ dev'.sense = dev.sense
  BY <1>1, <1>3 DEF Devices
<1>9. Typed' /\ AsMoved' /\ EngineDone'
  BY <1>3, <1>4, <1>6, <1>7, Reports0 DEF IInv, Typed, Serving, Quiet
<1>10. InBuffer'
  BY <1>1, <1>2, <1>5, TakenFits DEF IInv, InBuffer, Requests
<1>11. LookInv' /\ CallInv' /\ EngineInv' /\ FaultInv' /\ SenseInv' /\ CountInv'
  BY <1>1, <1>3, <1>5, <1>6, <1>8
     DEF IInv, LookInv, CallInv, EngineInv, SenseInv, CountInv, Expects, Serving,
         FaultInv, Posted, Once
<1>. QED
  BY <1>9, <1>10, <1>11 DEF IInv

(* What is left of channel and device when a request is over. *)
LEMMA LeavesIdle ==
  ASSUME IInv, NEW c, Serving(c), NEW dma \in BOOLEAN,
         chan' = [Ended(c) EXCEPT !.dma = dma],
         dev' \in Devices, dev'.phase \in Phases \ {"block", "status", "late"},
         "block" \notin opt.faults => dev'.phase # "error",
         opt.speed = "pio" => ~dev'.sense
  PROVE  Left
<1>1. /\ chan' \in Channels /\ chan'.timer = c.timer /\ ~chan'.silent
      /\ chan'.active = c.active
  BY DEF Ended, Channels, Serving
<1>. QED
  BY <1>1 DEF Left, Serving, IInv, Typed, SenseInv, Once

(* Data in the wrong direction. *)
LEMMA WrongServed == ASSUME IInv, NEW c, Serving(c), ServeWrong(c)
                     PROVE  IInv'
<1>1. /\ req \in Requests /\ dev \in Devices /\ c \in Channels
  BY Served DEF Serving
<1>2. chan' = [Ended(c) EXCEPT !.dma = c.dma] /\ c.dma \in BOOLEAN
  BY <1>1 DEF ServeWrong, Ended, Channels
<1>3. dev' \in Devices /\ dev'.phase \in {"wrong", "idle"} /\ (opt.speed = "pio" => ~dev'.sense)
  <2>1. CASE dev' = [dev EXCEPT !.irq = FALSE]
    BY <1>1, <2>1 DEF ServeWrong, Devices, IInv, SenseInv
  <2>2. CASE dev' = IdleDev
    BY <2>2, IdleTyped DEF IdleDev
  <2>. QED
    BY <2>1, <2>2 DEF ServeWrong
<1>4. Left
  BY <1>2, <1>3, LeavesIdle DEF Phases
<1>5. PICK length \in Int : length = 0
  OBVIOUS
<1>6. PICK status \in {"error", "bus reset"} : Answer(status, 0)
  BY DEF ServeWrong
<1>7. status \in Statuses /\ status \notin {"success", "overrun"}
  BY <1>6 DEF Statuses
<1>8. Answer(status, length)
  BY <1>5, <1>6, Zenon
<1>. QED
  BY <1>1, <1>4, <1>7, <1>8, Fails

(* A command that seeks is over, but for the seek. *)
LEMMA SeekServed == ASSUME IInv, NEW c, NEW inDpc \in BOOLEAN,
                           Serving(c), Halted(c, inDpc), ServeSeek(c, inDpc)
                    PROVE  IInv'
<1>1. /\ req \in Requests /\ req # NoReq /\ dev \in Devices /\ c \in Channels
      /\ req.cmd.len \in Nat /\ Expects
  BY Served DEF Serving, ServeSeek
<1>2. PICK d : d = [dev EXCEPT !.phase = "idle", !.irq = FALSE]
  OBVIOUS
<1>3. /\ d \in Devices /\ d.phase = "idle" /\ d.sense = dev.sense
      /\ d.given = dev.given /\ d.total = dev.total
  BY <1>1, <1>2 DEF Devices, Phases
<1>4. /\ "block" \notin opt.faults => dev.given = dev.total
      /\ opt.speed = "pio" => ~dev.sense
  BY DEF ServeSeek, IInv, CountInv, SenseInv
<1>5. CASE NotReady(c, [req EXCEPT !.left = 0], d, inDpc)
  <2>1. PICK r : r = [req EXCEPT !.left = 0]
    OBVIOUS
  <2>2. /\ r \in Requests /\ r.cmd = req.cmd /\ r.left = 0 /\ r.moved = req.moved
        /\ req.left \in Nat /\ req.moved \in Nat
    BY <1>1, <2>1 DEF Requests
  <2>3. r.moved + r.left <= req.cmd.len
    BY <1>1, <2>2 DEF IInv, InBuffer
  <2>4. inDpc \/ ~c.active
    BY DEF Halted, ServeSeek
  <2>5. "block" \notin opt.faults => d.given >= req.cmd.len \/ d.total < req.cmd.len
    BY <1>1, <1>3, <1>4 DEF Devices
  <2>. QED
    BY <1>3, <1>4, <1>5, <2>1, <2>2, <2>3, <2>4, <2>5, NotReadyServed
<1>6. CASE /\ req' = [req EXCEPT !.state = "SEEKS"]
           /\ chan' = [Later(c) EXCEPT !.expecting = FALSE]
           /\ dev' = d
           /\ Quiet
  <2>1. /\ req' \in Requests /\ req'.state = "SEEKS" /\ req'.cmd = req.cmd
        /\ req'.left = req.left /\ req'.moved = req.moved
        /\ req'.posted = req.posted
    BY <1>1, <1>6 DEF Requests, States
  <2>2. /\ chan' \in Channels /\ chan'.timer = "callback" /\ chan'.silent
        /\ ~chan'.expecting /\ chan'.rdp /\ chan'.active = c.active
    BY <1>1, <1>6 DEF ServeSeek, Later, Channels, Serving
  <2>3. Typed' /\ AsMoved' /\ EngineDone'
    BY <1>3, <1>6, <2>1, <2>2, Reports0 DEF IInv, Typed, Serving, Quiet
  <2>4. InBuffer' /\ LookInv' /\ CallInv' /\ EngineInv' /\ FaultInv'
    BY <1>1, <1>3, <1>6, <2>1, <2>2
       DEF IInv, InBuffer, LookInv, CallInv, EngineInv, FaultInv, Expects, Posted, Once,
           Serving
  <2>5. SenseInv' /\ CountInv'
    BY <1>3, <1>4, <1>6, <2>1
       DEF IInv, SenseInv, CountInv, Serving, Expects, Posted
  <2>. QED
    BY <2>3, <2>4, <2>5 DEF IInv
<1>. QED
  BY <1>2, <1>5, <1>6 DEF ServeSeek

(* The command is over. *)
LEMMA StatusServed == ASSUME IInv, NEW c, Serving(c), ServeStatus(c)
                      PROVE  IInv'
<1>1. /\ req \in Requests /\ dev \in Devices /\ c \in Channels
      /\ ~Sending /\ req.state # "WAITS" /\ req.cmd.len \in Nat
  BY Served DEF Serving
<1>2. chan' = [Ended(c) EXCEPT !.dma = c.dma] /\ c.dma \in BOOLEAN
  BY <1>1 DEF ServeStatus, Ended, Channels
<1>3. dev' \in Devices /\ dev'.phase = "idle" /\ dev'.sense = dev.sense /\ dev'.given = dev.given
  BY <1>1 DEF ServeStatus, Devices, Phases
<1>4. Left
  BY <1>2, <1>3, LeavesIdle DEF Phases, IInv, SenseInv, ServeStatus
<1>5. "block" \notin opt.faults => dev'.given = dev.total /\ dev.total \in Nat
  BY <1>1, <1>3 DEF IInv, CountInv, ServeStatus, Devices, Posted
<1>6. Reported("success", req.cmd.len)
  BY <1>1, <1>5 DEF Reported
<1>7. "success" \in Statuses /\ req.cmd.len \in Int /\ Answer("success", req.cmd.len)
  BY <1>1 DEF Statuses, ServeStatus
<1>. QED
  BY <1>1, <1>4, <1>6, <1>7, Ends

(* One block of a DMA transfer is through. *)
LEMMA BlockServed == ASSUME IInv, NEW c, Serving(c), ServeBlock(c)
                     PROVE  IInv'
<1>1. /\ req \in Requests /\ dev \in Devices /\ c \in Channels /\ req.cmd.len \in Nat
  BY Served DEF Serving
<1>2. dev' \in Devices /\ dev'.phase = "exec" /\ dev'.sense = dev.sense
  BY <1>1 DEF ServeBlock, Devices, Phases
<1>3. chan' = [Ended(c) EXCEPT !.dma = FALSE]
  BY DEF ServeBlock
<1>4. Left
  BY <1>2, <1>3, LeavesIdle DEF Phases, IInv, SenseInv, ServeBlock
<1>5. Reported("success", req.cmd.len)
  BY DEF Reported, IInv, CountInv, ServeBlock, Posted
<1>6. "success" \in Statuses /\ req.cmd.len \in Int /\ Answer("success", req.cmd.len)
  BY <1>1 DEF Statuses, ServeBlock
<1>. QED
  BY <1>1, <1>4, <1>5, <1>6, Ends

(* The device shows an error. *)
LEMMA ErrorServed == ASSUME IInv, NEW c, Serving(c), ServeError(c)
                     PROVE  IInv'
<1>1. /\ req \in Requests /\ req # NoReq /\ dev \in Devices /\ c \in Channels
      /\ ~Sending /\ req.state # "WAITS" /\ req.cmd.len \in Nat
  BY Served DEF Serving
<1>2. /\ dev' \in Devices /\ dev'.phase = "error" /\ dev'.sense = dev.sense
      /\ dev'.given = dev.given /\ dev'.total = dev.total /\ dev'.key = dev.key
  BY <1>1 DEF ServeError, Devices, Phases
<1>3. "block" \notin opt.faults /\ dev.key = "recovered" => dev.given = dev.total
  BY DEF IInv, CountInv, ServeError, Posted
<1>4. CASE /\ req' = [req EXCEPT !.state = "QUEUED", !.dma = FALSE, !.force = TRUE]
           /\ chan' = On(c)
           /\ Quiet
  <2>1. /\ req' \in Requests /\ req'.state = "QUEUED" /\ req'.cmd = req.cmd
        /\ req'.left = req.left /\ req'.moved = req.moved
        /\ req'.posted = req.posted
    BY <1>1, <1>4 DEF Requests, States
  <2>2. /\ chan' \in Channels /\ chan'.timer = c.timer /\ ~chan'.silent
        /\ chan'.expecting = c.expecting /\ chan'.active = c.active
    BY <1>1, <1>4 DEF On, Channels, Serving
  <2>3. Typed' /\ AsMoved' /\ EngineDone'
    BY <1>2, <1>4, <2>1, <2>2, Reports0 DEF IInv, Typed, Serving, Quiet
  <2>4. InBuffer' /\ LookInv' /\ CallInv' /\ EngineInv' /\ FaultInv' /\ SenseInv' /\ CountInv'
    BY <1>1, <1>2, <1>3, <2>1, <2>2
       DEF IInv, InBuffer, LookInv, CallInv, EngineInv, SenseInv, CountInv, Expects,
           Serving, FaultInv, Posted, Once
  <2>. QED
    BY <2>3, <2>4 DEF IInv
<1>5. ASSUME chan' = Ended(c)
      PROVE  Left
  <2>1. /\ chan' \in Channels /\ chan'.timer = c.timer /\ ~chan'.silent
        /\ chan'.active = c.active
    BY <1>1, <1>5 DEF Ended, Channels
  <2>. QED
    BY <1>2, <1>3, <2>1 DEF Left, Serving, IInv, Typed, SenseInv, Once
<1>6. CASE /\ req.cmd.op # "sense"
           /\ chan' = Ended(c)
           /\ Answer(MapError, IF req.left = 0 THEN req.cmd.len ELSE 0)
  <2>1. PICK length \in {0, req.cmd.len} :
           length = IF req.left = 0 THEN req.cmd.len ELSE 0
    OBVIOUS
  <2>2. length \in Int /\ MapError \in Statuses /\ MapError # "overrun"
    BY <1>1 DEF MapError, Statuses
  <2>3. CASE dev.key = "recovered"
    <3>1. "block" \notin opt.faults =>
             \/ length = req.cmd.len
                  /\ (dev'.given >= req.cmd.len
                      \/ (dev'.given < req.cmd.len /\ dev.total < req.cmd.len))
             \/ length = 0
      <4>1. dev.total \in Nat /\ dev'.given = dev.given
        BY <1>1, <1>2 DEF Devices
      <4>. QED
        BY <1>1, <1>3, <2>1, <2>3, <4>1
    <3>. QED
      BY <1>1, <1>5, <1>6, <2>1, <2>2, <2>3, <3>1, Ends DEF Reported
  <2>4. CASE dev.key # "recovered"
    BY <1>1, <1>5, <1>6, <2>1, <2>2, <2>4, Fails DEF MapError
  <2>. QED
    BY <2>3, <2>4
<1>7. CASE /\ req.cmd.op = "sense"
           /\ chan' = Ended(c)
           /\ Answer("success", req.cmd.len)
  <2>1. Reported("success", req.cmd.len)
    BY <1>7 DEF Reported
  <2>2. "success" \in Statuses /\ req.cmd.len \in Int
    BY <1>1 DEF Statuses
  <2>. QED
    BY <1>1, <1>5, <1>7, <2>1, <2>2, Ends
<1>. QED
  BY <1>4, <1>6, <1>7 DEF ServeError

(* AtapiInterrupt__ serves the request. *)
LEMMA AllServed == ASSUME IInv, NEW c, NEW inDpc \in BOOLEAN,
                          Serving(c), Halted(c, inDpc), Serve(c, inDpc)
                   PROVE  IInv'
BY CommandServed, ReadServed, WriteServed, WrongServed, BlockServed, BusyServed,
   SeekServed, StatusServed, ErrorServed DEF Serve

(* An interrupt is taken for the request. *)
LEMMA InterruptInv == ASSUME IInv, Interrupt
                      PROVE  IInv'
<1>1. chan \in Channels /\ Expects /\ chan.expecting /\ ~chan.silent
  BY DEF IInv, Typed, Interrupt
<1>2. PICK a \in BOOLEAN :
        a = /\ chan.active
            /\ \/ dev.phase = "block" /\ mode = "slow"
               \/ dev.phase = "late" /\ dev.given < req.cmd.len
  OBVIOUS
<1>3. Stopped(chan) = [chan EXCEPT !.active = a]
  BY <1>2 DEF Stopped
<1>4. PICK c \in Channels :
        /\ c = Stopped(chan) /\ c.expecting = chan.expecting
        /\ c.timer = chan.timer /\ c.rdp = chan.rdp /\ c.active = a
  BY <1>1, <1>3 DEF Channels
<1>5. chan.timer # "dpc" /\ (resets = 0 => chan.timer = "none")
  BY <1>1 DEF IInv, LookInv, CallInv, Channels, Expects, Posted
<1>6. Once => ~a
  <2>1. ASSUME Once, dev.phase = "late"
        PROVE  ~(dev.given < req.cmd.len)
    <3>1. dev.given = dev.total /\ "short" \notin opt.faults
      BY <2>1 DEF IInv, CountInv, FaultInv, Once
    <3>2. dev.total >= req.cmd.len
      BY <1>1, <3>1 DEF IInv, FaultInv
    <3>3. dev.total \in Nat /\ req.cmd.len \in Nat
      BY <1>1, Present, PacketAssumption DEF IInv, Typed, Devices, Expects, States, Requests
    <3>. QED
      BY <3>1, <3>2, <3>3
  <2>2. Once => dev.phase # "block"
    BY DEF IInv, CountInv, Once
  <2>. QED
    BY <1>2, <2>1, <2>2
<1>7. Serving(c) /\ Halted(c, FALSE)
  BY <1>1, <1>2, <1>4, <1>5, <1>6 DEF Serving, Halted, Interrupt
<1>8. Serve(c, FALSE)
  BY <1>4 DEF Interrupt
<1>. QED
  BY <1>7, <1>8, AllServed
-----------------------------------------------------------------------------
(* The timer calls. *)
LEMMA CallBackInv == ASSUME IInv, CallBack
                     PROVE  IInv'
<1> DEFINE c == [chan EXCEPT !.timer = "none"]
<1>1. /\ chan \in Channels /\ dev \in Devices /\ chan.timer = "callback" /\ ~Sending
      /\ opt' = opt /\ mode' = mode /\ resets' = resets /\ resets \in Nat
  BY DEF IInv, Typed, CallBack
<1>2. /\ c \in Channels /\ c.timer = "none" /\ c.active = chan.active
      /\ c.expecting = chan.expecting /\ c.rdp = chan.rdp
  BY <1>1 DEF Channels
<1>3. resets = 0 => chan.silent /\ req.state \in {"BUSY0", "BUSY1", "SEEKS"}
  BY <1>1 DEF IInv, CallInv, Posted
<1>4. ~Posted /\ (resets = 0 /\ Once => ~chan.active)
  BY <1>1, <1>2, <1>3 DEF IInv, LookInv, EngineInv
<1>5. dev' = dev => (opt.speed = "pio" => mode = "pio")
  BY DEF IInv, SenseInv
<1> HIDE DEF c
<1>6. CASE chan.expecting /\ Expects /\ Serve(c, TRUE)
  <2>1. Serving(c)
    BY <1>1, <1>2, <1>4, <1>6 DEF Serving
  <2>2. Halted(c, TRUE)
    BY DEF Halted
  <2>. QED
    BY <1>6, <2>1, <2>2, AllServed
<1>7. CASE /\ req # NoReq => ~chan.expecting /\ ~chan.rdp
           /\ chan' = On(c)
           /\ UNCHANGED <<req, dev>> /\ Quiet
  <2>1. /\ chan' \in Channels /\ chan'.timer = "none" /\ ~chan'.silent
        /\ chan'.active = c.active /\ chan'.expecting = chan.expecting
        /\ chan'.rdp = chan.rdp
    BY <1>2, <1>7 DEF On, Channels
  <2>2. (Expects => req.posted) /\ req.state # "SEEKS"
    BY <1>7, Present DEF IInv, Typed, LookInv, NoReq, Expects, Posted
  <2>3. Typed' /\ AsMoved' /\ EngineDone'
    BY <1>1, <1>7, <2>1, Reports0 DEF IInv, Typed, Quiet
  <2>4. InBuffer' /\ LookInv' /\ CallInv' /\ EngineInv' /\ FaultInv' /\ SenseInv' /\ CountInv'
    BY <1>1, <1>2, <1>4, <1>7, <2>1, <2>2
       DEF IInv, InBuffer, LookInv, CallInv, EngineInv, SenseInv, CountInv, Expects,
           FaultInv, Posted, Once
  <2>. QED
    BY <2>3, <2>4 DEF IInv
<1>8. CASE UNCHANGED <<req, dev, chan>> /\ Quiet
  <2>1. UNCHANGED vars
    BY <1>1, <1>8 DEF vars, Quiet
  <2>. QED
    BY <2>1 DEF vars, IInv, Typed, InBuffer, LookInv, CallInv, EngineInv, CountInv,
                SenseInv, AsMoved, Untold, EngineDone, BlocksAwaited, Expects, FaultInv,
                Posted, Once
<1>9. ASSUME Waits, UNCHANGED dev, chan'.active = c.active, chan' \in Channels,
             chan'.timer = "none", ~chan'.silent
      PROVE  Left
  <2>1. ~Expects
    BY <1>9 DEF Waits, Expects
  <2>. QED
    BY <1>1, <1>2, <1>4, <1>9, <2>1 DEF Left, IInv, Typed, SenseInv, FaultInv, CountInv, Once
<1>10. Waits => req \in Requests /\ req.cmd.len \in Int /\ req.cmd.len \in Nat
  BY Present, PacketAssumption DEF IInv, Typed, Waits, States, Requests
<1>11. CASE /\ Waits
            /\ chan' = [On(c) EXCEPT !.rdp = FALSE]
            /\ UNCHANGED dev
            /\ Answer(IF req.state = "SEEKS" THEN "success" ELSE "pending", req.cmd.len)
  <2>1. /\ chan' \in Channels /\ chan'.timer = "none" /\ ~chan'.silent
        /\ chan'.active = c.active
    BY <1>2, <1>11 DEF On, Channels
  <2>2. Left
    BY <1>9, <1>11, <2>1
  <2>3. CASE req.state = "SEEKS"
    <3>1. "block" \notin opt.faults => dev'.given = dev.total /\ dev.total \in Nat
      BY <1>1, <1>11, <2>3 DEF IInv, CountInv, Devices, Posted
    <3>2. Reported("success", req.cmd.len)
      BY <1>1, <1>10, <1>11, <2>3, <3>1 DEF Reported
    <3>3. "success" \in Statuses /\ Answer("success", req.cmd.len)
      BY <1>11, <2>3 DEF Statuses
    <3>. QED
      BY <1>10, <1>11, <2>2, <3>2, <3>3, Ends
  <2>4. CASE req.state # "SEEKS"
    <3>1. /\ "pending" \in Statuses /\ "pending" \notin {"success", "overrun"}
          /\ Answer("pending", req.cmd.len)
      BY <1>11, <2>4 DEF Statuses
    <3>. QED
      BY <1>10, <1>11, <2>2, <3>1, Fails
  <2>. QED
    BY <2>3, <2>4
<1>12. CASE /\ req.state = "WAITS"
            /\ chan' = Ended(c)
            /\ UNCHANGED dev
            /\ Answer("success", req.cmd.len)
  <2>1. /\ chan' \in Channels /\ chan'.timer = "none" /\ ~chan'.silent
        /\ chan'.active = c.active
    BY <1>2, <1>12 DEF Ended, Channels
  <2>2. Waits
    BY <1>12 DEF Waits
  <2>3. Left
    BY <1>9, <1>12, <2>1, <2>2
  <2>4. resets' > 0
    BY <1>1, <1>3, <1>12
  <2>5. Reported("success", req.cmd.len)
    BY <1>12, <2>4 DEF Reported
  <2>6. "success" \in Statuses
    BY DEF Statuses
  <2>. QED
    BY <1>10, <1>12, <2>2, <2>3, <2>5, <2>6, Ends
<1>. QED
  BY <1>6, <1>7, <1>8, <1>11, <1>12 DEF CallBack, c

(* The DPC calls. *)
LEMMA DpcInv == ASSUME IInv, Dpc
                PROVE  IInv'
<1> DEFINE c == [chan EXCEPT !.timer = "none"]
<1>1. /\ chan \in Channels /\ dev \in Devices /\ chan.timer = "dpc"
      /\ opt' = opt /\ mode' = mode /\ resets' = resets /\ resets \in Nat
      /\ mode \in {"pio", "slow", "fast"}
  BY DEF IInv, Typed, Dpc
<1>2. /\ c \in Channels /\ c.timer = "none" /\ c.active = chan.active /\ c.rdp = chan.rdp
  BY <1>1 DEF Channels
<1>3. Posted /\ req.posted /\ ~chan.active
  BY <1>1 DEF IInv, LookInv, EngineInv
<1>4. /\ req \in Requests /\ ~Sending /\ req.state # "WAITS" /\ req.cmd.len \in Nat
      /\ req.left \in Nat
  BY <1>3, Present, PacketAssumption
     DEF IInv, Typed, Posted, Sending, States, Requests
<1> HIDE DEF c
<1>5. dev.phase \in {"data", "wrong"} => Serving(c) /\ Halted(c, TRUE)
  BY <1>1, <1>2, <1>3 DEF Serving, Halted
<1>6. CASE ServeRead(c, TRUE) \/ ServeWrong(c)
  <2>1. CASE ServeRead(c, TRUE)
    BY <1>5, <2>1, ReadServed DEF ServeRead
  <2>2. CASE ServeWrong(c)
    BY <1>5, <2>2, WrongServed DEF ServeWrong
  <2>. QED
    BY <1>6, <2>1, <2>2
<1>7. ASSUME chan' \in Channels, chan'.timer = "none", ~chan'.silent, ~chan'.active,
             dev' \in Devices, dev'.phase \in {"idle", "hung", "error"},
             dev'.phase = "error" => dev'.given = dev.given /\ dev'.total = dev.total
                                      /\ dev'.key = dev.key /\ dev.phase = "error",
             opt.speed = "pio" /\ dev'.sense => dev'.phase = "error"
      PROVE  Left
  BY <1>1, <1>7 DEF Left, IInv, CountInv, SenseInv
<1>8. CASE NotReady(c, req, dev, TRUE)
  <2>1. /\ chan' = [Ended(c) EXCEPT !.active = FALSE] /\ dev' \in AfterReset
        /\ Answer("aborted", req.cmd.len)
    BY <1>8 DEF NotReady
  <2>2. chan' \in Channels /\ chan'.timer = "none" /\ ~chan'.silent /\ ~chan'.active
    BY <1>2, <2>1 DEF Ended, Channels
  <2>3. /\ dev' \in Devices /\ dev'.phase \in {"idle", "hung"}
        /\ opt.speed = "pio" => ~dev'.sense
    <3>1. CASE dev' = IdleDev
      BY <3>1, IdleTyped DEF IdleDev
    <3>2. CASE dev' = dev /\ dev.phase = "hung"
      BY <1>1, <3>2 DEF IInv, SenseInv
    <3>. QED
      BY <2>1, <3>1, <3>2 DEF AfterReset
  <2>4. Left
    BY <1>7, <2>2, <2>3
  <2>5. "aborted" \in Statuses \ {"success", "overrun"} /\ req.cmd.len \in Int
    BY <1>4 DEF Statuses
  <2>. QED
    BY <1>4, <2>1, <2>4, <2>5, Fails
<1>9. CASE /\ dev.phase \in {"idle", "status", "error"}
           /\ chan' = Ended(c)
           /\ dev' = [dev EXCEPT !.irq = FALSE, !.phase = IF @ = "error" THEN @ ELSE "idle"]
           /\ Answer("success", IF req.left = 0 THEN req.cmd.len ELSE 0)
  <2>1. PICK p \in {"error", "idle"} : p = IF dev.phase = "error" THEN dev.phase ELSE "idle"
    OBVIOUS
  <2>2. dev' = [dev EXCEPT !.irq = FALSE, !.phase = p]
    BY <1>9, <2>1
  <2>3. /\ dev' \in Devices /\ dev'.phase = p /\ dev'.given = dev.given
        /\ dev'.total = dev.total /\ dev'.key = dev.key /\ dev'.sense = dev.sense
    BY <1>1, <2>2 DEF Devices, Phases
  <2>4. chan' \in Channels /\ chan'.timer = "none" /\ ~chan'.silent /\ ~chan'.active
    BY <1>2, <1>3, <1>9 DEF Ended, Channels
  <2>5. opt.speed = "pio" /\ dev.sense => dev.phase = "error"
    BY <1>9 DEF IInv, SenseInv
  <2>6. Left
    BY <1>7, <2>1, <2>3, <2>4, <2>5
  <2>7. PICK length \in {0, req.cmd.len} :
          length = IF req.left = 0 THEN req.cmd.len ELSE 0
    OBVIOUS
  <2>8. Reported("success", length)
    <3>1. "block" \notin opt.faults =>
            IF req.left = 0 THEN dev.given >= req.cmd.len \/ dev.total < req.cmd.len
                            ELSE dev.given < req.cmd.len
      BY <1>3 DEF IInv, CountInv
    <3>2. dev.given \in Nat /\ dev.total \in Nat
      BY <1>1 DEF Devices
    <3>. QED
      BY <1>3, <1>4, <2>3, <2>7, <3>1, <3>2 DEF Reported
  <2>9. "success" \in Statuses /\ length \in Int /\ Answer("success", length)
    BY <1>4, <1>9, <2>7 DEF Statuses
  <2>. QED
    BY <1>4, <2>6, <2>8, <2>9, Ends
<1>. QED
  BY <1>6, <1>8, <1>9 DEF Dpc, c

(* The port driver has lost patience. *)
LEMMA ResetBusInv == ASSUME IInv, ResetBus
                     PROVE  IInv'
<1>1. /\ req \in Requests /\ chan \in Channels /\ dev \in Devices /\ resets \in Nat
      /\ opt' = opt /\ mode' = mode /\ mode \in {"pio", "slow", "fast"}
      /\ resets' = resets + 1
  BY Present DEF IInv, Typed, ResetBus
<1>2. req.cmd.len \in Int
  BY <1>1, PacketAssumption DEF Requests
<1>3. /\ chan' \in Channels /\ ~chan'.silent /\ ~chan'.active /\ chan'.timer # "dpc"
  <2>1. PICK t \in {"none", "callback"} : t = IF chan.timer = "dpc" THEN "none" ELSE chan.timer
    BY <1>1 DEF Channels
  <2>2. chan' = [Ended(chan) EXCEPT !.dma = FALSE, !.active = FALSE, !.timer = t]
    BY <2>1 DEF ResetBus, Ended
  <2>. QED
    BY <1>1, <2>2 DEF Ended, Channels
<1>4. dev' \in Devices /\ dev'.phase \in {"idle", "hung"} /\ (opt.speed = "pio" => ~dev'.sense)
  <2>1. CASE dev' = IdleDev
    BY <2>1, IdleTyped DEF IdleDev
  <2>2. CASE dev' = dev /\ dev.phase = "hung"
    BY <1>1, <2>2 DEF IInv, SenseInv
  <2>. QED
    BY <2>1, <2>2 DEF ResetBus, AfterReset
<1>5. Left
  <2>1. resets' \in Nat /\ resets' # 0
    BY <1>1
  <2>2. opt.speed = "pio" => mode = "pio"
    BY DEF IInv, SenseInv
  <2>. QED
    BY <1>1, <1>3, <1>4, <2>1, <2>2 DEF Left, Once
<1>6. /\ "bus reset" \in Statuses /\ "bus reset" \notin {"success", "overrun"}
      /\ Answer("bus reset", req.cmd.len)
  BY DEF Statuses, ResetBus
<1>. QED
  BY <1>1, <1>2, <1>5, <1>6, Fails
-----------------------------------------------------------------------------
(* A request comes. *)
LEMMA NewRequestInv == ASSUME IInv, NEW k \in Commands, NewRequest(k)
                       PROVE  IInv'
<1>1. /\ req = NoReq /\ req.state = "NONE" /\ k.len \in Nat
      /\ opt' = opt /\ mode' = mode /\ chan' = chan /\ dev' = dev
      /\ resets' = resets /\ report' = NoReport
  BY PacketAssumption DEF NewRequest, NoReq
<1>2. /\ req' \in Requests /\ req'.state = "QUEUED" /\ req'.cmd = k
      /\ req'.left = 0 /\ req'.moved = 0
  BY DEF NewRequest, Requests, States
<1>3. Typed' /\ AsMoved' /\ EngineDone'
  BY <1>1, <1>2, Reports0 DEF IInv, Typed
<1>4. InBuffer' /\ LookInv' /\ CallInv' /\ EngineInv' /\ FaultInv' /\ SenseInv' /\ CountInv'
  BY <1>1, <1>2
     DEF IInv, InBuffer, LookInv, CallInv, EngineInv, SenseInv, CountInv, Expects,
         FaultInv, Posted, Once
<1>. QED
  BY <1>3, <1>4 DEF IInv

(* What holds while a request is being sent. *)
LEMMA Sends ==
  ASSUME IInv, Sending
  PROVE  /\ req \in Requests /\ req # NoReq /\ req.cmd \in Commands
         /\ req.cmd.len \in Nat /\ req.cmd.len \in Int
         /\ chan \in Channels /\ dev \in Devices
         /\ ~Expects /\ ~Waits /\ ~Posted /\ chan.timer # "dpc"
         /\ resets = 0 => chan.timer = "none"
         /\ resets = 0 /\ Once => ~chan.active
         /\ opt.speed = "pio" => mode = "pio" /\ (dev.sense => dev.phase = "error")
<1>1. ~Expects /\ ~Waits /\ ~Posted /\ req.state \notin {"BUSY0", "BUSY1", "SEEKS"}
  BY DEF Sending, Expects, Waits, Posted
<1>2. req \in Requests /\ req # NoReq /\ chan \in Channels /\ dev \in Devices
  BY Present DEF IInv, Typed, Sending, States
<1>3. req.cmd \in Commands /\ req.cmd.len \in Nat
  BY <1>2, PacketAssumption DEF Requests
<1>4. chan.timer # "dpc" /\ (resets = 0 => chan.timer = "none")
  BY <1>1, <1>2 DEF IInv, LookInv, CallInv, Channels
<1>5. resets = 0 /\ Once => ~chan.active
  BY <1>1 DEF IInv, EngineInv, Sending
<1>6. opt.speed = "pio" => mode = "pio" /\ (dev.sense => dev.phase = "error")
  BY <1>1 DEF IInv, SenseInv
<1>. QED
  BY <1>1, <1>2, <1>3, <1>4, <1>5, <1>6

(* The request is prepared for the transfer. *)
LEMMA PrepareInv == ASSUME IInv, NEW mapped \in BOOLEAN, Prepare(mapped)
                    PROVE  IInv'
<1>1. Sending /\ req.state = "QUEUED"
  BY DEF Prepare, Sending
<1>2. PICK b \in BOOLEAN : b = (DmaWanted(req.cmd) /\ mapped)
  OBVIOUS
<1>3. req' = [req EXCEPT !.left = req.cmd.len, !.moved = 0, !.dma = b, !.state = "READY"]
  BY <1>1, <1>2, Sends DEF Prepare, Prepared, Requests
<1>4. req' \in Requests
  BY <1>1, <1>3, Sends DEF Requests, States
<1>5. /\ req'.state = "READY" /\ req'.cmd = req.cmd
      /\ req'.left = req.cmd.len /\ req'.moved = 0
  BY <1>1, <1>3, Sends DEF Requests
<1>6. /\ opt' = opt /\ mode' = mode /\ chan' = chan /\ dev' = dev
      /\ resets' = resets /\ report' = report
  BY DEF Prepare, Quiet
<1>7. Typed' /\ AsMoved' /\ EngineDone'
  BY <1>4, <1>6, Reports0 DEF IInv, Typed
<1>8. InBuffer' /\ LookInv' /\ CallInv' /\ EngineInv' /\ FaultInv' /\ SenseInv' /\ CountInv'
  BY <1>1, <1>5, <1>6, Sends
     DEF IInv, InBuffer, LookInv, CallInv, EngineInv, SenseInv, CountInv, Expects,
         Waits, FaultInv, Posted, Once
<1>. QED
  BY <1>7, <1>8 DEF IInv

(* A step of AtapiSendCommand leaves the device as it was, at most with    *)
(* its error state ended by SET FEATURES.                                  *)
LEMMA SendLeft ==
  ASSUME IInv, Sending, NEW r \in Requests, opt' = opt, resets' = resets,
         mode' = Reinit(r), chan' = chan,
         dev' = dev \/ dev' = AfterReinit(dev, r)
  PROVE  Left
<1>1. /\ mode' \in {"pio", "slow", "fast"} /\ dev' \in Devices
      /\ dev' = dev \/ dev' = [dev EXCEPT !.phase = "idle"]
      /\ opt.speed = "pio" => mode' = "pio" /\ dev' = dev
  BY Reinits, Sends
<1>2. \/ dev'.phase = "idle"
      \/ dev' = dev
  BY <1>1, Sends DEF Devices
<1>. QED
  BY <1>1, <1>2, Sends DEF Left, IInv, Typed, LookInv, FaultInv, CountInv, Once

(* No such logical unit. *)
LEMMA SendNowhereInv == ASSUME IInv, NEW mapped \in BOOLEAN, SendNowhere(mapped)
                        PROVE  IInv'
<1>1. Sending
  BY DEF SendNowhere
<1>2. PICK r \in Requests : r = ToSend(req, mapped)
  BY <1>1, Prepares
<1>3. Left
  BY <1>1, <1>2, SendLeft DEF SendNowhere
<1>4. /\ "selection timeout" \in Statuses
      /\ "selection timeout" \notin {"success", "overrun"}
      /\ Answer("selection timeout", req.cmd.len)
  BY DEF Statuses, SendNowhere
<1>. QED
  BY <1>1, <1>3, <1>4, Sends, Fails

(* The device still shows an error. *)
LEMMA SendBlockedInv == ASSUME IInv, NEW mapped \in BOOLEAN, SendBlocked(mapped)
                        PROVE  IInv'
<1>1. Sending
  BY DEF SendBlocked
<1>2. PICK r \in Requests : r = ToSend(req, mapped)
  BY <1>1, Prepares
<1>3. Left
  BY <1>1, <1>2, SendLeft DEF SendBlocked
<1>4. PICK status \in Statuses : status = MapError
  BY DEF Statuses, MapError
<1>5. Reported(status, req.cmd.len)
  BY <1>1, <1>4 DEF Reported, MapError
<1>6. Answer(status, req.cmd.len)
  BY <1>4 DEF SendBlocked
<1>. QED
  BY <1>1, <1>3, <1>5, <1>6, Sends, Ends

(* The device is busy with a seek. *)
LEMMA SendWaitsInv == ASSUME IInv, NEW mapped \in BOOLEAN, SendWaits(mapped)
                      PROVE  IInv'
<1>1. Sending
  BY DEF SendWaits
<1>2. PICK r \in Requests :
        /\ r = ToSend(req, mapped) /\ r.cmd = req.cmd
        /\ r.moved + r.left <= req.cmd.len
  BY <1>1, Prepares
<1>3. /\ req' = [r EXCEPT !.state = "WAITS"] /\ mode' = Reinit(r)
      /\ dev' = AfterReinit(dev, r) /\ opt' = opt /\ chan' = chan
      /\ resets' = resets /\ report' = report
  BY <1>2 DEF SendWaits, Quiet
<1>4. /\ req' \in Requests /\ req'.state = "WAITS" /\ req'.cmd = req.cmd
      /\ req'.left = r.left /\ req'.moved = r.moved
  BY <1>2, <1>3 DEF Requests, States
<1>5. Left
  BY <1>1, <1>3, SendLeft
<1>6. Typed' /\ AsMoved' /\ EngineDone'
  BY <1>3, <1>4, <1>5, Reports0 DEF IInv, Typed, Left, Once
<1>7. InBuffer'
  BY <1>2, <1>4 DEF InBuffer
<1>8. LookInv' /\ CallInv' /\ EngineInv' /\ FaultInv' /\ SenseInv' /\ CountInv'
  BY <1>3, <1>4, <1>5
     DEF Left, LookInv, CallInv, EngineInv, SenseInv, CountInv, Expects, FaultInv,
         Posted, Once
<1>. QED
  BY <1>6, <1>7, <1>8 DEF IInv

(* Soft reset, and once more. *)
LEMMA MakeResetInv ==
  ASSUME IInv, Sending, NEW mapped \in BOOLEAN, NEW r, r = ToSend(req, mapped),
         NEW c \in Channels, c.timer = chan.timer, c.silent = chan.silent,
         resets = 0 /\ Once => ~c.active,
         MakeReset(r, c), opt' = opt, mode' = Reinit(r), resets' = resets
  PROVE  IInv'
<1>1. /\ r \in Requests /\ r.cmd = req.cmd /\ r.moved + r.left <= req.cmd.len
      /\ "block" \notin opt.faults => r.left = req.cmd.len
  BY Prepares
<1>2. /\ chan' \in Channels /\ chan'.timer = chan.timer /\ chan'.silent = chan.silent
      /\ chan'.active = c.active
  BY DEF MakeReset, Channels
<1>3. dev' \in Devices /\ dev'.phase \in {"idle", "hung"} /\ (opt.speed = "pio" => ~dev'.sense)
  <2>1. CASE dev' = IdleDev
    BY <2>1, IdleTyped DEF IdleDev
  <2>2. CASE dev' = dev /\ dev.phase = "hung"
    BY <2>2, Sends
  <2>. QED
    BY <2>1, <2>2 DEF MakeReset, AfterReset
<1>4. mode' \in {"pio", "slow", "fast"} /\ (opt.speed = "pio" => mode' = "pio")
  BY <1>1, Reinits
<1>5. Left
  BY <1>2, <1>3, <1>4, Sends DEF Left, IInv, Typed, LookInv, Posted, Once
<1>6. CASE Answer("selection timeout", r.cmd.len)
  <2>1. /\ "selection timeout" \in Statuses
        /\ "selection timeout" \notin {"success", "overrun"}
    BY DEF Statuses
  <2>. QED
    BY <1>1, <1>5, <1>6, <2>1, Sends, Fails
<1>7. CASE req' = [r EXCEPT !.state = "RETRY", !.retried = TRUE] /\ Quiet
  <2>1. /\ req' \in Requests /\ req'.state = "RETRY" /\ req'.cmd = req.cmd
        /\ req'.left = r.left /\ req'.moved = r.moved
    BY <1>1, <1>7 DEF Requests, States
  <2>2. Typed' /\ AsMoved' /\ EngineDone'
    BY <1>5, <1>7, <2>1, Reports0 DEF IInv, Typed, Left, Quiet, Once
  <2>3. InBuffer'
    BY <1>1, <2>1 DEF InBuffer
  <2>4. LookInv' /\ CallInv' /\ EngineInv' /\ FaultInv' /\ SenseInv' /\ CountInv'
    BY <1>1, <1>5, <2>1
       DEF Left, LookInv, CallInv, EngineInv, SenseInv, CountInv, Expects, FaultInv,
           Posted, Once
  <2>. QED
    BY <2>2, <2>3, <2>4 DEF IInv
<1>. QED
  BY <1>6, <1>7 DEF MakeReset

(* The device is reset before the command is sent. *)
LEMMA SendResetInv == ASSUME IInv, NEW mapped \in BOOLEAN, SendReset(mapped)
                      PROVE  IInv'
<1>1. Sending
  BY DEF SendReset
<1>2. PICK r : r = ToSend(req, mapped)
  OBVIOUS
<1>3. /\ mode' = Reinit(r) /\ MakeReset(r, chan) /\ opt' = opt /\ resets' = resets
  BY <1>2 DEF SendReset
<1>. QED
  BY <1>1, <1>2, <1>3, MakeResetInv, Sends

(* The channel when a command goes out. *)
LEMMA GoesOut ==
  ASSUME IInv, Sending, NEW r \in Requests, NEW active \in BOOLEAN
  PROVE  /\ Out(r, active) \in Channels
         /\ Out(r, active).timer = chan.timer /\ Out(r, active).silent = chan.silent
         /\ Out(r, active).expecting
         /\ resets = 0 /\ Once /\ Out(r, active).active => active
<1>1. PICK a \in BOOLEAN, s \in BOOLEAN :
        a = (chan.active \/ (active /\ r.dma)) /\ s = (r.cmd.op = "seek")
  OBVIOUS
<1>2. Out(r, active) = [chan EXCEPT !.rdp = s, !.dma = r.dma, !.expecting = TRUE, !.active = a]
  BY <1>1 DEF Out
<1>. QED
  BY <1>1, <1>2, Sends DEF Channels, Requests

(* The device when it has a command. *)
LEMMA Starts ==
  ASSUME NEW d \in Devices, NEW k \in Commands, NEW e \in Commanded(d, k)
  PROVE  /\ e \in Devices /\ e.phase = "packet" /\ e.given = 0 /\ e.sense = d.sense
         /\ Given(e) \in Devices /\ Given(e).phase = "exec" /\ Given(e).given = 0
         /\ ~Given(e).sense
         /\ "short" \notin opt.faults => e.total >= k.len /\ Given(e).total >= k.len
<1>1. \A n \in Totals(k) : n \in Nat /\ ("short" \notin opt.faults => n >= k.len)
  BY PacketAssumption DEF Totals
<1>2. PICK n \in Totals(k) : e = [IdleDev EXCEPT !.phase = "packet", !.total = n,
                                          !.sense = d.sense,
                                          !.dsc = d.dsc /\ k.op # "seek"]
  BY DEF Commanded
<1>3. PICK s \in BOOLEAN : s = (d.dsc /\ k.op # "seek")
  OBVIOUS
<1>4. e = [IdleDev EXCEPT !.phase = "packet", !.total = n, !.sense = d.sense, !.dsc = s]
  BY <1>2, <1>3
<1>5. /\ e \in Devices /\ e.phase = "packet" /\ e.given = 0 /\ e.sense = d.sense
      /\ e.total = n
  BY <1>1, <1>4 DEF IdleDev, Devices, Phases, Keys
<1>. QED
  BY <1>1, <1>5 DEF Given, Devices, Phases

(* The PACKET command goes out. *)
LEMMA SendCommandInv == ASSUME IInv, NEW mapped \in BOOLEAN, SendCommand(mapped)
                        PROVE  IInv'
<1>1. Sending
  BY DEF SendCommand
<1>2. PICK r \in Requests :
        /\ r = ToSend(req, mapped) /\ r.cmd = req.cmd
        /\ r.moved + r.left <= req.cmd.len
        /\ "block" \notin opt.faults => r.left = req.cmd.len
  BY <1>1, Prepares
<1>3. PICK d \in Devices : d = AfterReinit(dev, r)
  BY <1>2, Reinits
<1>4. /\ Listens(d, req.cmd) /\ dev' \in Commanded(d, req.cmd)
      /\ mode' = Reinit(r) /\ req' = [r EXCEPT !.state = "EXPECTING_CMD"]
      /\ chan' = Out(r, FALSE) /\ opt' = opt /\ resets' = resets /\ report' = report
  BY <1>2, <1>3 DEF SendCommand, Quiet
<1>5. /\ req' \in Requests /\ req'.state = "EXPECTING_CMD" /\ req'.cmd = req.cmd
      /\ req'.left = r.left /\ req'.moved = r.moved
  BY <1>2, <1>4 DEF Requests, States
<1>6. /\ dev' \in Devices /\ dev'.phase = "packet" /\ dev'.given = 0
      /\ dev'.sense = d.sense /\ ("short" \notin opt.faults => dev'.total >= req.cmd.len)
  BY <1>1, <1>4, Starts, Sends
<1>7. /\ chan' \in Channels /\ chan'.timer = chan.timer /\ chan'.silent = chan.silent
      /\ chan'.expecting /\ (resets = 0 /\ Once => ~chan'.active)
  BY <1>1, <1>2, <1>4, GoesOut
<1>8. mode' \in {"pio", "slow", "fast"} /\ (opt.speed = "pio" => mode' = "pio" /\ d = dev)
  BY <1>3, <1>4, Reinits
<1>9. opt.speed = "pio" /\ d.sense => req.cmd.op = "sense"
  BY <1>1, <1>4, <1>8, Sends DEF Listens, Idle, Blocked
<1>10. Typed' /\ AsMoved' /\ EngineDone'
  BY <1>4, <1>5, <1>6, <1>7, <1>8, Reports0 DEF IInv, Typed
<1>11. InBuffer' /\ LookInv' /\ CallInv' /\ EngineInv' /\ FaultInv'
  BY <1>1, <1>2, <1>4, <1>5, <1>6, <1>7, Sends
     DEF IInv, InBuffer, LookInv, CallInv, EngineInv, Expects, FaultInv, Posted, Once
<1>12. SenseInv' /\ CountInv'
  BY <1>2, <1>4, <1>5, <1>6, <1>8, <1>9 DEF SenseInv, CountInv, Expects, Posted
<1>. QED
  BY <1>10, <1>11, <1>12 DEF IInv

(* The packet goes out with it. *)
LEMMA SendPacketInv == ASSUME IInv, NEW mapped \in BOOLEAN, SendPacket(mapped)
                       PROVE  IInv'
<1>1. Sending
  BY DEF SendPacket
<1>2. PICK r \in Requests :
        /\ r = ToSend(req, mapped) /\ r.cmd = req.cmd
        /\ r.moved + r.left <= req.cmd.len
        /\ "block" \notin opt.faults => r.left = req.cmd.len
  BY <1>1, Prepares
<1>3. PICK d \in Devices : d = AfterReinit(dev, r)
  BY <1>2, Reinits
<1>4. /\ dev' \in {Given(e) : e \in Commanded(d, req.cmd)}
      /\ mode' = Reinit(r) /\ req' = [r EXCEPT !.state = "EXPECTING_DATA"]
      /\ chan' = Out(r, TRUE) /\ opt' = opt /\ resets' = resets /\ report' = report
  BY <1>2, <1>3 DEF SendPacket, Quiet
<1>5. /\ req' \in Requests /\ req'.state = "EXPECTING_DATA" /\ req'.cmd = req.cmd
      /\ req'.left = r.left /\ req'.moved = r.moved
  BY <1>2, <1>4 DEF Requests, States
<1>6. /\ dev' \in Devices /\ dev'.phase = "exec" /\ dev'.given = 0 /\ ~dev'.sense
      /\ "short" \notin opt.faults => dev'.total >= req.cmd.len
  BY <1>1, <1>4, Starts, Sends
<1>7. /\ chan' \in Channels /\ chan'.timer = chan.timer /\ chan'.silent = chan.silent
      /\ chan'.expecting
  BY <1>1, <1>2, <1>4, GoesOut
<1>8. mode' \in {"pio", "slow", "fast"} /\ (opt.speed = "pio" => mode' = "pio")
  BY <1>4, Reinits
<1>9. Typed' /\ AsMoved' /\ EngineDone'
  BY <1>4, <1>5, <1>6, <1>7, <1>8, Reports0 DEF IInv, Typed
<1>10. InBuffer' /\ LookInv' /\ CallInv' /\ EngineInv' /\ FaultInv' /\ SenseInv'
  BY <1>1, <1>2, <1>4, <1>5, <1>6, <1>7, <1>8, Sends
     DEF IInv, InBuffer, LookInv, CallInv, EngineInv, SenseInv, Expects, FaultInv,
         Posted, Once
<1>11. CountInv'
  <2>1. req.cmd.len \in Nat
    BY <1>1, Sends
  <2>. QED
    BY <1>2, <1>4, <1>5, <1>6, <2>1 DEF CountInv, Rest, Expects, Posted
<1>. QED
  BY <1>9, <1>10, <1>11 DEF IInv

(* The device refuses the packet, or does not ask for it. *)
LEMMA SendFailsInv == ASSUME IInv, NEW mapped \in BOOLEAN, SendFails(mapped)
                      PROVE  IInv'
<1>1. Sending
  BY DEF SendFails
<1>2. PICK r \in Requests : r = ToSend(req, mapped) /\ r.cmd = req.cmd
  BY <1>1, Prepares
<1>3. mode' = Reinit(r) /\ opt' = opt /\ resets' = resets
  BY <1>2 DEF SendFails
<1>4. CASE /\ chan' = Out(r, FALSE)
           /\ dev' = [IdleDev EXCEPT !.phase = "error", !.key = "other",
                                     !.sense = TRUE,
                                     !.dsc = dev.dsc /\ req.cmd.op # "seek"]
           /\ Answer("error", req.cmd.len)
  <2>1. PICK s \in BOOLEAN : s = (dev.dsc /\ req.cmd.op # "seek")
    OBVIOUS
  <2>2. dev' = [IdleDev EXCEPT !.phase = "error", !.key = "other", !.sense = TRUE, !.dsc = s]
    BY <1>4, <2>1
  <2>3. dev' \in Devices /\ dev'.phase = "error" /\ dev'.key = "other"
    BY <2>2 DEF IdleDev, Devices, Phases, Keys
  <2>4. /\ chan' \in Channels /\ chan'.timer = chan.timer /\ chan'.silent = chan.silent
        /\ resets = 0 /\ Once => ~chan'.active
    BY <1>1, <1>2, <1>4, GoesOut
  <2>5. mode' \in {"pio", "slow", "fast"} /\ (opt.speed = "pio" => mode' = "pio")
    BY <1>3, Reinits
  <2>6. Left
    BY <1>1, <1>3, <2>3, <2>4, <2>5, Sends DEF Left, IInv, Typed, LookInv, Posted, Once
  <2>7. "error" \in Statuses /\ "error" \notin {"success", "overrun"}
    BY DEF Statuses
  <2>. QED
    BY <1>1, <1>4, <2>6, <2>7, Sends, Fails
<1>5. CASE MakeReset(r, Out(r, FALSE))
  <2>1. PICK c \in Channels :
          /\ c = Out(r, FALSE) /\ c.timer = chan.timer /\ c.silent = chan.silent
          /\ resets = 0 /\ Once => ~c.active
    BY <1>1, <1>2, GoesOut
  <2>. QED
    BY <1>1, <1>2, <1>3, <1>5, <2>1, MakeResetInv
<1>. QED
  BY <1>2, <1>4, <1>5 DEF SendFails

(* Sending as a whole, one lemma for each way it can go. *)
LEMMA SendInv == ASSUME IInv, Send
                 PROVE  IInv'
BY PrepareInv, SendResetInv, SendBlockedInv, SendWaitsInv, SendCommandInv,
   SendPacketInv, SendFailsInv, SendNowhereInv DEF Send
-----------------------------------------------------------------------------
(* What a step of the device alone must keep. *)
LEMMA DeviceMoves ==
  ASSUME IInv, NEW d \in Devices, Device(d),
         d.total = dev.total, Posted => d.given = dev.given,
         d.phase = "late" => "late" \in opt.faults,
         Expects /\ ~req.posted /\ chan.timer = "none" =>
           d.irq \/ d.phase \in {"packet", "exec", "hung"},
         "block" \notin opt.faults =>
           /\ d.phase # "block"
           /\ d.phase \in {"status", "late"} => d.given = d.total
           /\ d.phase = "error" /\ d.key = "recovered" => d.given = d.total
           /\ req.state = "SEEKS" => d.phase = "idle" /\ d.given = d.total
           /\ Expects /\ d.phase \in {"packet", "cod"} =>
                d.given = 0 /\ req.left = req.cmd.len
           /\ Expects \/ Posted =>
                (d.phase \in {"exec", "data"} /\ req.cmd.dir = "in" =>
                   req.left = Rest(req.cmd.len, d.given)),
         opt.speed = "pio" /\ d.sense =>
           \/ d.phase = "error"
           \/ d.phase \in {"packet", "cod"} /\ Expects /\ req.cmd.op = "sense"
  PROVE  IInv'
<1>1. /\ dev' = d /\ opt' = opt /\ mode' = mode /\ req' = req /\ chan' = chan
      /\ report' = report /\ resets' = resets
  BY DEF Device
<1>2. Typed' /\ AsMoved' /\ EngineDone'
  BY <1>1, Reports0 DEF IInv, Typed
<1>3. InBuffer' /\ LookInv' /\ CallInv' /\ EngineInv' /\ FaultInv'
  BY <1>1 DEF IInv, InBuffer, LookInv, CallInv, EngineInv, Expects, FaultInv, Posted,
              Once
<1>4. SenseInv' /\ CountInv'
  BY <1>1 DEF IInv, SenseInv, CountInv, Expects, Posted
<1>. QED
  BY <1>2, <1>3, <1>4 DEF IInv

(* The device asks for the packet. *)
LEMMA AskPacketInv == ASSUME IInv, AskPacket
                      PROVE  IInv'
<1>1. PICK d : d = [dev EXCEPT !.phase = "cod", !.irq = TRUE]
  OBVIOUS
<1>2. /\ d \in Devices /\ d.phase = "cod" /\ d.irq /\ d.given = dev.given
      /\ d.sense = dev.sense /\ d.total = dev.total
  BY <1>1 DEF IInv, Typed, Devices, Phases
<1>3. Device(d) /\ dev.phase = "packet"
  BY <1>1 DEF AskPacket
<1>. QED
  BY <1>2, <1>3, DeviceMoves DEF IInv, CountInv, SenseInv, Posted

(* The device asks for a block of data. *)
LEMMA AskDataInv == ASSUME IInv, AskData
                    PROVE  IInv'
<1>1. /\ dev \in Devices /\ dev.phase = "exec"
      /\ dev.total \in Nat /\ dev.given \in Nat
  BY DEF IInv, Typed, AskData, Devices
<1>2. PICK n \in 1 .. dev.total - dev.given :
        Device([dev EXCEPT !.phase = "data", !.chunk = n, !.irq = TRUE])
  BY DEF AskData
<1>3. n \in Nat
  BY <1>1
<1>4. PICK d : d = [dev EXCEPT !.phase = "data", !.chunk = n, !.irq = TRUE]
  OBVIOUS
<1>5. /\ d \in Devices /\ d.phase = "data" /\ d.irq /\ d.given = dev.given
      /\ d.sense = dev.sense /\ d.total = dev.total
  BY <1>1, <1>3, <1>4 DEF Devices, Phases
<1>6. Device(d)
  BY <1>2, <1>4
<1>. QED
  BY <1>1, <1>5, <1>6, DeviceMoves DEF IInv, CountInv, SenseInv, Posted

(* The bus master engine moves the data. *)
LEMMA MoveByDmaInv == ASSUME IInv, MoveByDma
                      PROVE  IInv'
<1>1. /\ dev \in Devices /\ dev.phase = "exec"
      /\ dev.total \in Nat /\ dev.given \in Nat
  BY DEF IInv, Typed, MoveByDma, Devices
<1>2. ~Posted /\ (req.state = "SEEKS" => "block" \in opt.faults)
  BY <1>1 DEF IInv, CountInv, EngineInv, MoveByDma, ByDma
<1>3. ASSUME NEW p \in {"status", "late"}, p = "late" => "late" \in opt.faults,
             Device([dev EXCEPT !.phase = p, !.given = dev.total, !.irq = TRUE])
      PROVE  IInv'
  <2>1. PICK d : d = [dev EXCEPT !.phase = p, !.given = dev.total, !.irq = TRUE]
    OBVIOUS
  <2>2. /\ d \in Devices /\ d.phase = p /\ d.irq
        /\ d.given = d.total /\ d.sense = dev.sense /\ d.total = dev.total
    BY <1>1, <2>1 DEF Devices, Phases
  <2>3. Device(d)
    BY <1>3, <2>1
  <2>. QED
    BY <1>1, <1>2, <1>3, <2>2, <2>3, DeviceMoves DEF IInv, SenseInv
<1>4. ASSUME "block" \in opt.faults,
             Device([dev EXCEPT !.phase = "block", !.given = @ + 1, !.irq = TRUE])
      PROVE  IInv'
  <2>5. PICK n \in Nat : n = dev.given + 1
    BY <1>1
  <2>1. PICK d : d = [dev EXCEPT !.phase = "block", !.given = n, !.irq = TRUE]
    OBVIOUS
  <2>2. d \in Devices
    BY <1>1, <2>1 DEF Devices, Phases
  <2>3. d.phase = "block" /\ d.irq /\ d.sense = dev.sense /\ d.total = dev.total
    BY <1>1, <2>1 DEF Devices
  <2>4. Device(d)
    BY <1>4, <2>1, <2>5
  <2>. QED
    BY <1>1, <1>2, <1>4, <2>2, <2>3, <2>4, DeviceMoves DEF IInv, SenseInv
<1>. QED
  BY <1>3, <1>4 DEF MoveByDma

(* The device has finished the command. *)
LEMMA FinishDevInv == ASSUME IInv, FinishDev
                      PROVE  IInv'
<1>1. dev \in Devices /\ dev.phase = "exec" /\ dev.given = dev.total
  BY DEF IInv, Typed, FinishDev
<1>2. PICK d : d = [dev EXCEPT !.phase = "status", !.irq = TRUE]
  OBVIOUS
<1>3. /\ d \in Devices /\ d.phase = "status" /\ d.irq /\ d.given = d.total
      /\ d.sense = dev.sense /\ d.total = dev.total /\ d.given = dev.given
  BY <1>1, <1>2 DEF Devices, Phases
<1>4. Device(d)
  BY <1>2 DEF FinishDev
<1>. QED
  BY <1>1, <1>3, <1>4, DeviceMoves DEF IInv, CountInv, SenseInv, Posted

(* A device that was late to drop BSY drops it. *)
LEMMA LateEndsInv == ASSUME IInv, LateEnds
                     PROVE  IInv'
<1>1. dev \in Devices /\ dev.phase = "late"
  BY DEF IInv, Typed, LateEnds
<1>2. PICK d : d = [dev EXCEPT !.phase = "status"]
  OBVIOUS
<1>3. /\ d \in Devices /\ d.phase = "status" /\ d.irq = dev.irq
      /\ d.given = dev.given /\ d.total = dev.total /\ d.sense = dev.sense
  BY <1>1, <1>2 DEF Devices, Phases
<1>4. Device(d)
  BY <1>2 DEF LateEnds
<1>. QED
  BY <1>1, <1>3, <1>4, DeviceMoves DEF IInv, LookInv, CountInv, SenseInv, Posted

(* The command fails, or succeeds with a recovered error. *)
LEMMA FailDevInv == ASSUME IInv, FailDev
                    PROVE  IInv'
<1>1. dev \in Devices /\ dev.phase = "exec"
  BY DEF IInv, Typed, FailDev
<1>2. PICK k \in {"hardware", "recovered", "other"} :
        /\ k = "recovered" => ByDma \/ dev.given = dev.total
        /\ Device([dev EXCEPT !.phase = "error", !.key = k, !.irq = TRUE, !.sense = TRUE,
                              !.given = IF k = "recovered" THEN dev.total ELSE @])
  BY DEF FailDev
<1>3. PICK n \in Nat : n = IF k = "recovered" THEN dev.total ELSE dev.given
  BY <1>1 DEF Devices
<1>4. PICK d : d = [dev EXCEPT !.phase = "error", !.key = k, !.irq = TRUE,
                               !.sense = TRUE, !.given = n]
  OBVIOUS
<1>5. d \in Devices
  BY <1>1, <1>4 DEF Devices, Phases, Keys
<1>6. /\ d.phase = "error" /\ d.irq /\ d.key = k
      /\ d.given = n /\ d.total = dev.total
  BY <1>1, <1>4 DEF Devices
<1>7. Device(d)
  BY <1>2, <1>3, <1>4
<1>8. Posted => d.given = dev.given
  BY <1>2, <1>3, <1>6 DEF IInv, EngineInv, ByDma
<1>. QED
  BY <1>1, <1>3, <1>5, <1>6, <1>7, <1>8, DeviceMoves DEF IInv, CountInv

(* The device shows a phase that makes no sense, or hangs. *)
LEMMA MisbehaveInv == ASSUME IInv, Misbehave
                      PROVE  IInv'
<1>1. dev \in Devices /\ dev.phase = "exec"
  BY DEF IInv, Typed, Misbehave
<1>2. PICK p \in {"wrong", "hang"} :
        Device([dev EXCEPT !.phase = IF p = "wrong" THEN p ELSE "hung",
                           !.irq = p = "wrong"])
  BY DEF Misbehave
<1>3. PICK q \in {"wrong", "hung"}, i \in BOOLEAN :
        q = (IF p = "wrong" THEN p ELSE "hung") /\ i = (p = "wrong")
  OBVIOUS
<1>4. PICK d : d = [dev EXCEPT !.phase = q, !.irq = i]
  OBVIOUS
<1>5. /\ d \in Devices /\ d.phase = q /\ d.irq = i /\ d.sense = dev.sense
      /\ d.given = dev.given /\ d.total = dev.total
  BY <1>1, <1>4 DEF Devices, Phases
<1>6. Device(d)
  BY <1>2, <1>3, <1>4
<1>. QED
  BY <1>1, <1>3, <1>5, <1>6, DeviceMoves DEF IInv, CountInv, SenseInv, Posted

(* A seek ends. *)
LEMMA SeekDoneInv == ASSUME IInv, SeekDone
                     PROVE  IInv'
<1>1. dev \in Devices
  BY DEF IInv, Typed
<1>2. PICK d : d = [dev EXCEPT !.dsc = TRUE]
  OBVIOUS
<1>3. /\ d \in Devices /\ d.phase = dev.phase /\ d.irq = dev.irq /\ d.given = dev.given
      /\ d.total = dev.total /\ d.key = dev.key /\ d.sense = dev.sense
  BY <1>1, <1>2 DEF Devices
<1>4. Device(d)
  BY <1>2 DEF SeekDone
<1>. QED
  BY <1>3, <1>4, DeviceMoves DEF IInv, LookInv, FaultInv, CountInv, SenseInv, Posted

(* An interrupt that nobody waits for. *)
LEMMA StrayInv == ASSUME IInv, Stray
                  PROVE  IInv'
<1>1. dev \in Devices /\ (Expects => req.posted)
  BY DEF IInv, Typed, LookInv, Stray, Expects, NoReq
<1>2. PICK d : d = [dev EXCEPT !.irq = FALSE]
  OBVIOUS
<1>3. /\ d \in Devices /\ d.phase = dev.phase /\ d.given = dev.given
      /\ d.total = dev.total /\ d.key = dev.key /\ d.sense = dev.sense
  BY <1>1, <1>2 DEF Devices
<1>4. Device(d)
  BY <1>2 DEF Stray
<1>. QED
  BY <1>1, <1>3, <1>4, DeviceMoves DEF IInv, FaultInv, CountInv, SenseInv
-----------------------------------------------------------------------------
(* The parts of the invariant hold at the start. *)
LEMMA InitIInv == Init => IInv
<1> SUFFICES ASSUME Init
             PROVE  IInv
  OBVIOUS
<1>1. opt.speed \in {"pio", "slow", "fast"} /\ req.state = "NONE" /\ report.status = "none"
  BY PacketAssumption DEF Init, NoReq, NoReport
<1>2. chan \in Channels
  BY DEF Init, Channels
<1>3. chan.timer = "none" /\ ~chan.silent /\ ~chan.active
  BY DEF Init
<1>4. dev \in Devices /\ dev.phase = "idle" /\ ~dev.sense
  BY IdleTyped DEF Init, IdleDev
<1>5. Typed
  BY <1>1, <1>2, <1>4 DEF Init, Typed
<1>6. InBuffer /\ LookInv /\ CallInv /\ EngineInv /\ FaultInv /\ CountInv /\ SenseInv
  BY <1>1, <1>3, <1>4
     DEF Init, InBuffer, LookInv, CallInv, EngineInv, CountInv, SenseInv, Expects,
         FaultInv, Posted, Once
<1>. QED
  BY <1>1, <1>5, <1>6 DEF IInv, AsMoved, EngineDone, BlocksAwaited

(* Every step keeps the invariant. *)
LEMMA NextIInv == IInv /\ [Next]_vars => IInv'
<1> SUFFICES ASSUME IInv, [Next]_vars
             PROVE  IInv'
  OBVIOUS
<1>1. CASE UNCHANGED vars
  BY <1>1 DEF vars, IInv, Typed, InBuffer, LookInv, CallInv, EngineInv, CountInv,
              SenseInv, AsMoved, Untold, EngineDone, BlocksAwaited, Expects, FaultInv,
              Posted, Once
<1>2. CASE Next
  BY <1>2, NewRequestInv, SendInv, InterruptInv, StrayInv, CallBackInv, DpcInv, ResetBusInv,
     AskPacketInv, AskDataInv, MoveByDmaInv, FinishDevInv, LateEndsInv, FailDevInv,
     MisbehaveInv, SeekDoneInv
     DEF Next, DeviceSteps
<1>. QED
  BY <1>1, <1>2

(* The invariant holds always. *)
THEOREM PacketInvariant == Spec => []IInv
BY InitIInv, NextIInv, PTL DEF Spec

(* Whatever the device says, no more words go to or come from the buffer   *)
(* than it holds (the byte count registers in AtapiInterrupt__).           *)
THEOREM BufferIsKept == Spec => []TypeOK
<1>1. IInv => TypeOK
  <2> SUFFICES ASSUME IInv
               PROVE  TypeOK
    OBVIOUS
  <2>1. mode \in {"pio", "slow", "fast"} /\ chan.timer \in {"none", "callback", "dpc"}
    BY DEF IInv, Typed, Channels
  <2>2. req # NoReq => /\ Sending \/ Expects \/ Waits \/ req.state = "DPC"
                       /\ req.left >= 0 /\ req.moved + req.left <= req.cmd.len
    BY DEF IInv, Typed, InBuffer, Requests, States, Sending, Expects, Waits
  <2>. QED
    BY <2>1, <2>2 DEF TypeOK
<1>. QED
  BY <1>1, PacketInvariant, PTL

(* The issuer of a packet command is told how much was moved, but for the  *)
(* exceptions that AsMoved names (the end of AtapiInterrupt__).            *)
THEOREM ToldAsMoved == Spec => []AsMoved
BY PacketInvariant, PTL DEF IInv

(* No request is called a success while the DMA engine is at its buffer,   *)
(* before the first bus reset (AtapiDmaDone in AtapiCheckInterrupt__).     *)
(* Except with devices that interrupt for every block, or busy and with    *)
(* less than was asked.                                                    *)
THEOREM EngineIsDone == Spec => []EngineDone
BY PacketInvariant, PTL DEF IInv

(* A request that the device has been given will be looked at again: by    *)
(* the interrupt routine or by a call of the timer.                        *)
THEOREM AlwaysAwaited == Spec => []Awaited
<1>1. IInv => Awaited
  BY DEF IInv, Typed, Channels, LookInv, Awaited, Posted
<1>. QED
  BY <1>1, PacketInvariant, PTL
-----------------------------------------------------------------------------
(* A step keeps the sense data, resets the device or is made for the       *)
(* command that asks for them.                                             *)
KeepsSense == \/ dev.sense => dev'.sense
              \/ dev' = IdleDev
              \/ req # NoReq /\ req.cmd.op = "sense"

(* A device that is not ready keeps them, or is reset. *)
LEMMA NotReadyKeeps ==
  ASSUME NEW c, NEW r, NEW d, NEW inDpc, NotReady(c, r, d, inDpc), d.sense = dev.sense
  PROVE  KeepsSense
BY DEF NotReady, AfterReset, KeepsSense

(* So does one whose words are read. *)
LEMMA ReadKeeps == ASSUME IInv, NEW c, NEW inDpc, ServeRead(c, inDpc)
                   PROVE  KeepsSense
<1>1. dev \in Devices
  BY DEF IInv, Typed
<1> DEFINE left == req.left - Taken
           given == dev.given + dev.chunk
           r == [req EXCEPT !.left = left, !.moved = @ + Taken]
           d == [dev EXCEPT !.given = given, !.irq = FALSE]
           e == [d EXCEPT !.phase = "exec"]
<1>2. d.sense = dev.sense /\ e.sense = dev.sense
  BY <1>1 DEF Devices
<1>3. \A i \in BOOLEAN : [d EXCEPT !.phase = "idle", !.irq = i].sense = dev.sense
  BY <1>1 DEF Devices
<1>4. \/ dev' = e
      \/ \E i \in BOOLEAN : dev' = [d EXCEPT !.phase = "idle", !.irq = i]
      \/ NotReady(c, r, e, inDpc)
      \/ NotReady(c, r, d, inDpc)
  BY DEF ServeRead
<1> HIDE DEF r, d, e
<1>. QED
  BY <1>2, <1>3, <1>4, NotReadyKeeps DEF KeepsSense

(* The handler keeps the sense data of a device driven by PIO. *)
LEMMA ServeKeeps ==
  ASSUME IInv, opt.speed = "pio", NEW c, NEW inDpc, Expects, Serve(c, inDpc)
  PROVE  KeepsSense
<1>1. dev \in Devices /\ req # NoReq
  BY DEF IInv, Typed, Expects, NoReq
<1>2. CASE ServeCommand(c)
  BY <1>1, <1>2 DEF ServeCommand, IInv, SenseInv, KeepsSense
<1>3. CASE ServeRead(c, inDpc)
  BY <1>3, ReadKeeps
<1>4. CASE ServeWrite(c)
  <2>1. PICK given : given = dev.given + Taken
    OBVIOUS
  <2>2. dev' = [dev EXCEPT !.given = given, !.irq = FALSE, !.phase = "exec"]
    BY <1>4, <2>1 DEF ServeWrite
  <2>. QED
    BY <1>1, <2>2 DEF Devices, KeepsSense
<1>5. CASE ServeWrong(c) \/ ServeBusy(c, inDpc)
  <2>1. dev' = IdleDev \/ dev' = [dev EXCEPT !.irq = FALSE]
    BY <1>5 DEF ServeWrong, ServeBusy
  <2>. QED
    BY <1>1, <2>1 DEF Devices, KeepsSense
<1>6. CASE ServeSeek(c, inDpc)
  <2>1. PICK d : d = [dev EXCEPT !.phase = "idle", !.irq = FALSE]
    OBVIOUS
  <2>2. d.sense = dev.sense
    BY <1>1, <2>1 DEF Devices
  <2>3. \/ NotReady(c, [req EXCEPT !.left = 0], d, inDpc)
        \/ dev' = d
    BY <1>6, <2>1 DEF ServeSeek
  <2>. QED
    BY <2>2, <2>3, NotReadyKeeps DEF KeepsSense
<1>7. CASE ServeBlock(c) \/ ServeStatus(c) \/ ServeError(c)
  <2>1. \/ dev' = [dev EXCEPT !.phase = "exec", !.irq = FALSE]
        \/ dev' = [dev EXCEPT !.phase = "idle", !.irq = FALSE]
        \/ dev' = [dev EXCEPT !.irq = FALSE]
    BY <1>7 DEF ServeBlock, ServeStatus, ServeError
  <2>. QED
    BY <1>1, <2>1 DEF Devices, KeepsSense
<1>. QED
  BY <1>2, <1>3, <1>4, <1>5, <1>6, <1>7 DEF Serve

(* And the DPC does. *)
LEMMA DpcKeeps == ASSUME IInv, Dpc
                  PROVE  KeepsSense
<1>1. dev \in Devices
  BY DEF IInv, Typed
<1>2. PICK c : c = [chan EXCEPT !.timer = "none"]
  OBVIOUS
<1>3. \/ ServeRead(c, TRUE)
      \/ ServeWrong(c)
      \/ NotReady(c, req, dev, TRUE)
      \/ dev' = [dev EXCEPT !.irq = FALSE, !.phase = IF @ = "error" THEN @ ELSE "idle"]
  BY <1>2 DEF Dpc
<1>4. CASE ServeWrong(c)
  <2>1. dev' = IdleDev \/ dev' = [dev EXCEPT !.irq = FALSE]
    BY <1>4 DEF ServeWrong
  <2>. QED
    BY <1>1, <2>1 DEF Devices, KeepsSense
<1>5. CASE dev' = [dev EXCEPT !.irq = FALSE, !.phase = IF @ = "error" THEN @ ELSE "idle"]
  BY <1>1, <1>5 DEF Devices, KeepsSense
<1>. QED
  BY <1>3, <1>4, <1>5, ReadKeeps, NotReadyKeeps

(* Sending a command does, unless it is the one that clears them. *)
LEMMA SendKeeps == ASSUME IInv, opt.speed = "pio", Send
                   PROVE  KeepsSense
<1>1. PICK mapped \in BOOLEAN :
        \/ Prepare(mapped) \/ SendReset(mapped) \/ SendBlocked(mapped)
        \/ SendWaits(mapped) \/ SendCommand(mapped) \/ SendPacket(mapped)
        \/ SendFails(mapped) \/ SendNowhere(mapped)
  BY DEF Send
<1>2. Sending
  BY <1>1 DEF Prepare, SendReset, SendBlocked, SendWaits, SendCommand, SendPacket,
              SendFails, SendNowhere, Sending
<1>3. PICK r \in Requests : r = ToSend(req, mapped)
  BY <1>2, Prepares
<1>4. AfterReinit(dev, r) = dev /\ dev \in Devices /\ req # NoReq /\ req.cmd \in Commands
  BY <1>2, <1>3, Reinits, Sends
<1>5. CASE \/ Prepare(mapped) \/ SendBlocked(mapped)
           \/ SendWaits(mapped) \/ SendNowhere(mapped)
  <2>1. dev' = dev
    BY <1>3, <1>4, <1>5 DEF Prepare, SendBlocked, SendWaits, SendNowhere
  <2>. QED
    BY <2>1 DEF KeepsSense
<1>6. ASSUME dev' \in AfterReset
      PROVE  KeepsSense
  BY <1>6 DEF AfterReset, KeepsSense
<1>7. CASE SendReset(mapped)
  BY <1>6, <1>7 DEF SendReset, MakeReset
<1>8. CASE SendFails(mapped)
  <2>1. CASE dev' \in AfterReset
    BY <1>6, <2>1
  <2>2. CASE dev' = [IdleDev EXCEPT !.phase = "error", !.key = "other", !.sense = TRUE,
                                    !.dsc = dev.dsc /\ req.cmd.op # "seek"]
    BY <2>2 DEF IdleDev, KeepsSense
  <2>. QED
    BY <1>8, <2>1, <2>2 DEF SendFails, MakeReset
<1>9. CASE SendCommand(mapped)
  <2>1. dev' \in Commanded(dev, req.cmd)
    BY <1>3, <1>4, <1>9 DEF SendCommand
  <2>. QED
    BY <1>4, <2>1, Starts DEF KeepsSense
<1>10. CASE SendPacket(mapped)
  <2>1. Listens(dev, req.cmd)
    BY <1>3, <1>4, <1>10 DEF SendPacket
  <2>. QED
    BY <1>2, <1>4, <2>1, Sends DEF Listens, Idle, Blocked, KeepsSense
<1>. QED
  BY <1>1, <1>5, <1>7, <1>8, <1>9, <1>10

(* The device does. *)
LEMMA DeviceKeeps == ASSUME IInv, DeviceSteps \/ Misbehave \/ SeekDone \/ Stray
                     PROVE  KeepsSense
<1>1. dev \in Devices
  BY DEF IInv, Typed
<1>2. CASE MoveByDma \/ FailDev \/ Misbehave
  BY <1>1, <1>2 DEF MoveByDma, FailDev, Misbehave, Device, Devices, KeepsSense
<1>3. CASE AskPacket \/ AskData \/ FinishDev \/ LateEnds \/ SeekDone \/ Stray
  BY <1>1, <1>3 DEF AskPacket, AskData, FinishDev, LateEnds, SeekDone, Stray, Device,
                    Devices, KeepsSense
<1>. QED
  BY <1>2, <1>3 DEF DeviceSteps

(* Every step does. *)
LEMMA NextKeeps == ASSUME IInv, opt.speed = "pio", Next
                   PROVE  KeepsSense
<1>1. CASE (\E k \in Commands : NewRequest(k)) \/ ResetBus
  BY <1>1 DEF NewRequest, ResetBus, AfterReset, KeepsSense
<1>2. CASE Interrupt
  BY <1>2, ServeKeeps DEF Interrupt
<1>3. CASE CallBack
  <2>1. PICK c : c = [chan EXCEPT !.timer = "none"]
    OBVIOUS
  <2>2. (Expects /\ Serve(c, TRUE)) \/ dev' = dev
    BY <1>3, <2>1 DEF CallBack
  <2>. QED
    BY <2>2, ServeKeeps DEF KeepsSense
<1>. QED
  BY <1>1, <1>2, <1>3, SendKeeps, DpcKeeps, DeviceKeeps DEF Next

(* The sense data of a device used in PIO are kept until they are asked    *)
(* for: no other command is sent (IDE_STATUS_ERROR in AtapiSendCommand).   *)
THEOREM SenseIsKept == Spec => SenseKept
<1>1. IInv /\ [Next]_vars =>
        [opt.speed = "pio" /\ dev.sense /\ ~dev'.sense =>
           \/ dev' = IdleDev
           \/ req # NoReq /\ req.cmd.op = "sense"]_vars
  BY NextKeeps DEF KeepsSense
<1>. QED
  BY <1>1, PacketInvariant, PTL DEF Spec, SenseKept
=============================================================================
