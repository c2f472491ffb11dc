--------------------------- MODULE AhciPortProof ---------------------------
(***************************************************************************)
(* Proofs about AhciPort for every kind of device and fault, every length  *)
(* of a request and every number of tries and events.                      *)
(***************************************************************************)
EXTENDS AhciPort, TLAPS

Bits == Benign \cup Errors \cup {"PCS", "PRC"}
Serrs == {"none", "soft", "hard"}
Ends == {"none", "done", "failed", "quiet", "ignored", "other"}
Odds == {"none", "underflow", "overflow"}

Ports == [st : BOOLEAN, ci : BOOLEAN, halted : BOOLEAN, is : SUBSET Bits,
          his : BOOLEAN, serr : Serrs, err : BOOLEAN, moved : 0 .. Len,
          link : BOOLEAN, end : Ends, odd : Odds]
Requests == [state : {"sent"}, write : BOOLEAN, retry : 0 .. MaxRetries - 1]
Entered == [pc : {"ci"}, is : SUBSET Bits]
Reading == [pc : {"clear", "events", "serve"}, is : SUBSET Bits, ci : BOOLEAN,
            serr : Serrs]

(* The variables are what the actions take them for. *)
Typed ==
  /\ port \in Ports
  /\ port.is # {} => port.his
  /\ lun \in BOOLEAN
  /\ req = NoReq \/ req \in Requests
  /\ isr = Idle \/ isr \in Entered \/ isr \in Reading

HasRead == isr.pc \in {"clear", "events", "serve"}

(* The slot holds a command only for a request and on a started port; what *)
(* is over says how it ended; the command register read before is stale in *)
(* one direction only: nobody issues a command while the interrupt is      *)
(* served.                                                                 *)
SlotInv ==
  /\ port.halted => port.ci
  /\ port.ci => port.st /\ req # NoReq /\ port.end \notin {"ignored", "other"}
  /\ req # NoReq /\ ~port.ci =>
       \/ port.end = "done" /\ (dev.atapi \/ port.moved = Len)
       \/ port.end \in {"ignored", "other"} /\ port.moved = 0
  /\ HasRead /\ ~isr.ci => ~port.ci

Attended == Running \/ port.his \/ Lost

(* A command that was halted has left a bit of an error in the port, until *)
(* somebody reads it and clears it.                                        *)
HaltInv ==
  port.halted /\ (HasRead /\ isr.pc # "clear" => isr.pc = "serve" /\ isr.is \cap Errors = {})
    => port.is \cap Errors # {} \/ Lost

(* What has come to an end since the command register was read will be     *)
(* seen by the next interrupt.                                             *)
AttendedInv ==
  /\ isr.pc = "events" => isr.is \cap {"PCS", "PRC"} # {}
  /\ isr.pc = "idle" /\ req # NoReq => Attended
  /\ isr.pc = "clear" /\ isr.ci => Running \/ port.is # {} \/ Lost
  /\ isr.pc = "serve" /\ isr.ci /\ isr.is \cap Errors = {} => Attended

OddBits == {"OF", "INF"}

(* The bits of a transfer of an odd length belong to the request in the    *)
(* slot.                                                                   *)
OddInv ==
  ~dev.atapi =>
    /\ port.is \cap OddBits # {} =>
         /\ ~port.ci \/ (port.halted /\ port.odd # "none")
         /\ lun \/ req # NoReq => port.ci
    /\ isr.pc # "idle" /\ isr.is \cap OddBits # {} /\ req # NoReq =>
         /\ ~port.ci \/ port.halted
         /\ port.odd # "none" \/ "PCS" \in isr.is
    /\ isr.pc # "idle" /\ isr.is \cap OddBits # {} =>
         /\ port.is \cap OddBits \subseteq isr.is
         /\ isr.pc \in {"events", "serve"} => port.is \cap OddBits = {}

IInv == /\ Typed
        /\ SlotInv
        /\ HaltInv
        /\ AttendedInv
        /\ OddInv
        /\ Truthful
-----------------------------------------------------------------------------
(* What is left of a port whose command was stopped: all but the command,  *)
(* and the interrupt status only if it could not be started again.         *)
LEMMA AbortProps ==
  ASSUME NEW p \in Ports, NEW q \in Abort(p)
  PROVE  /\ q \in Ports
         /\ ~q.ci /\ ~q.halted
         /\ q.is = {} \/ q.is = p.is
         /\ q.his = p.his /\ q.link = p.link /\ q.serr = p.serr /\ q.err = p.err
         /\ q.moved = p.moved /\ q.end = p.end /\ q.odd = p.odd
<1>1. CASE q = [p EXCEPT !.st = TRUE, !.ci = FALSE, !.halted = FALSE, !.is = {}]
  BY <1>1 DEF Ports
<1>2. CASE q = [p EXCEPT !.st = FALSE, !.ci = FALSE, !.halted = FALSE]
  BY <1>2 DEF Ports
<1> QED
  BY <1>1, <1>2 DEF Abort

(* A port to which a command was issued.                                   *)
LEMMA BeginProps ==
  ASSUME NEW p \in Ports
  PROVE  /\ Begin(p) \in Ports
         /\ Begin(p).ci = p.st /\ Begin(p).st
         /\ Begin(p).moved = 0 /\ Begin(p).odd = "none"
         /\ Begin(p).end = IF p.st THEN "none" ELSE "ignored"
         /\ Begin(p).halted = p.halted /\ Begin(p).is = p.is
         /\ Begin(p).his = p.his /\ Begin(p).link = p.link
<1>1. /\ 0 \in 0 .. Len
      /\ {"none", "ignored"} \subseteq Ends
      /\ "none" \in Odds
  BY AhciAssumption DEF Ends, Odds
<1>2. CASE p.st
  BY <1>1, <1>2 DEF Begin, Ports
<1>3. CASE ~p.st
  BY <1>1, <1>3 DEF Begin, Ports
<1> QED
  BY <1>2, <1>3

(* The parts of the invariant hold when the port is started. *)
LEMMA InitIInv == Init => IInv
<1> SUFFICES ASSUME Init PROVE IInv
  OBVIOUS
<1>1. Typed
  BY AhciAssumption DEF Init, Typed, Ports, Serrs, Ends, Odds, NoReq
<1>2. SlotInv /\ HaltInv /\ AttendedInv /\ OddInv
  BY DEF Init, SlotInv, HasRead, HaltInv, AttendedInv, OddInv, OddBits, NoReq, Idle
<1>3. Truthful
  BY DEF Init, Truthful
<1> QED
  BY <1>1, <1>2, <1>3 DEF IInv
-----------------------------------------------------------------------------
(* What the adapter and the device do changes the port only.               *)
LEMMA FinishStep == IInv /\ Finish => IInv'
<1> SUFFICES ASSUME IInv, Finish PROVE IInv'
  OBVIOUS
<1>1. PICK n \in port.moved .. Len :
        /\ dev.atapi \/ n = Len
        /\ port' = [Raise({"DHR"}) EXCEPT !.ci = FALSE, !.moved = n, !.err = FALSE,
                                          !.end = "done"]
  BY DEF Finish
<1>2. /\ port \in Ports /\ n \in 0 .. Len /\ {"DHR"} \subseteq Bits /\ "done" \in Ends
      /\ port.ci /\ ~port.halted
  BY DEF IInv, Typed, Finish, Running, Bits, Benign, Ports, Ends
<1>3. /\ port' \in Ports
      /\ port'.is = port.is \cup {"DHR"} /\ port'.his
      /\ ~port'.ci /\ port'.moved = n /\ port'.end = "done"
      /\ port'.st = port.st /\ port'.halted = port.halted /\ port'.serr = port.serr
      /\ port'.link = port.link /\ port'.odd = port.odd
  BY <1>1, <1>2 DEF Raise, Ports
<1>4. UNCHANGED <<dev, lun, req, isr, report>>
  BY DEF Finish, HbaOnly
<1>5. Typed'
  BY <1>3, <1>4 DEF IInv, Typed
<1>6. SlotInv'
  BY <1>1, <1>2, <1>3, <1>4 DEF IInv, SlotInv, HasRead
<1>7. HaltInv'
  BY <1>2, <1>3, <1>4 DEF HaltInv
<1>8. AttendedInv'
  BY <1>3, <1>4 DEF IInv, AttendedInv, Attended
<1>9. OddInv'
  BY <1>2, <1>3, <1>4 DEF IInv, OddInv, OddBits
<1>10. Truthful'
  BY <1>4 DEF IInv, Truthful
<1> QED
  BY <1>5, <1>6, <1>7, <1>8, <1>9, <1>10 DEF IInv

(* The device raises PIO setup before the data have moved. *)
LEMMA EarlyStep == IInv /\ Early => IInv'
<1> SUFFICES ASSUME IInv, Early PROVE IInv'
  OBVIOUS
<1>1. PICK n \in port.moved + 1 .. Len : port' = [Raise({"PS"}) EXCEPT !.moved = n]
  BY DEF Early
<1>2. /\ port \in Ports /\ n \in 0 .. Len /\ {"PS"} \subseteq Bits
      /\ port.ci /\ ~port.halted
  BY DEF IInv, Typed, Early, Running, Bits, Benign, Ports
<1>3. /\ port' \in Ports
      /\ port'.is = port.is \cup {"PS"} /\ port'.his
      /\ port'.ci = port.ci /\ port'.end = port.end /\ port'.st = port.st
      /\ port'.halted = port.halted /\ port'.link = port.link /\ port'.odd = port.odd
  BY <1>1, <1>2 DEF Raise, Ports
<1>4. UNCHANGED <<dev, lun, req, isr, report>>
  BY DEF Early, HbaOnly
<1>5. Typed'
  BY <1>3, <1>4 DEF IInv, Typed
<1>6. SlotInv'
  BY <1>2, <1>3, <1>4 DEF IInv, SlotInv, HasRead
<1>7. HaltInv'
  BY <1>2, <1>3, <1>4 DEF HaltInv
<1>8. AttendedInv'
  BY <1>3, <1>4 DEF IInv, AttendedInv, Attended
<1>9. OddInv'
  BY <1>2, <1>3, <1>4 DEF IInv, OddInv, OddBits
<1>10. Truthful'
  BY <1>4 DEF IInv, Truthful
<1> QED
  BY <1>5, <1>6, <1>7, <1>8, <1>9, <1>10 DEF IInv

(* A command that fails, or moves less or more than it was to, is halted,  *)
(* and its error is in the interrupt status.                               *)
LEMMA HaltStep ==
  ASSUME IInv, Running, port' \in Ports, HbaOnly,
         port'.halted, port'.his, port'.ci, port'.st = port.st,
         port'.link = port.link, port'.end \notin {"ignored", "other"},
         NEW b \in Errors, port'.is = port.is \cup {b},
         b \in OddBits => port'.odd # "none",
         b \notin OddBits => port'.odd = port.odd
  PROVE  IInv'
<1>1. /\ port \in Ports /\ port.ci /\ ~port.halted /\ req # NoReq
  BY DEF IInv, Typed, SlotInv, Running, Ports
<1>2. UNCHANGED <<dev, lun, req, isr, report>>
  BY DEF HbaOnly
<1>3. Typed'
  BY <1>2 DEF IInv, Typed
<1>4. SlotInv'
  BY <1>1, <1>2 DEF IInv, SlotInv, HasRead
<1>5. HaltInv'
  BY <1>2 DEF HaltInv
<1>6. AttendedInv'
  BY <1>2 DEF IInv, AttendedInv, Attended
<1>7. OddInv'
  BY <1>1, <1>2 DEF IInv, OddInv, OddBits
<1>8. Truthful'
  BY <1>2 DEF IInv, Truthful
<1> QED
  BY <1>3, <1>4, <1>5, <1>6, <1>7, <1>8 DEF IInv

(* A command fails: the port halts with an error bit. *)
LEMMA FailStep == IInv /\ Fail => IInv'
<1> SUFFICES ASSUME IInv, Fail PROVE IInv'
  OBVIOUS
<1>1. PICK n \in port.moved .. Len, s \in Serrs, b \in {"TFE", "IF", "HBF"},
           err \in BOOLEAN, end \in {"failed", "quiet"} :
        port' = [Raise({b}) EXCEPT !.halted = TRUE, !.moved = n, !.err = err,
                                   !.serr = s, !.end = end]
  BY DEF Fail, Serrs
<1>2. /\ port \in Ports /\ port.ci /\ n \in 0 .. Len
      /\ b \in Errors /\ b \in Bits /\ b \notin OddBits /\ end \in Ends
  BY DEF IInv, Typed, Fail, Running, Bits, Errors, OddBits, Ports, Ends
<1>3. /\ port' \in Ports
      /\ port'.is = port.is \cup {b} /\ port'.his /\ port'.halted /\ port'.end = end
      /\ port'.ci /\ port'.st = port.st /\ port'.link = port.link
      /\ port'.odd = port.odd
  BY <1>1, <1>2 DEF Raise, Ports
<1> QED
  BY <1>2, <1>3, HaltStep DEF Fail

(* The device and the buffer disagree about the length. *)
LEMMA MismatchStep == IInv /\ Mismatch => IInv'
<1> SUFFICES ASSUME IInv, Mismatch PROVE IInv'
  OBVIOUS
<1>1. PICK b \in OddBits, o \in {"underflow", "overflow"}, n \in {port.moved, Len} :
        port' = [Raise({b}) EXCEPT !.halted = TRUE, !.odd = o, !.moved = n]
  <2>1. port \in Ports
    BY DEF IInv, Typed
  <2>2. CASE port' = [Raise({"INF"}) EXCEPT !.halted = TRUE, !.odd = "underflow"]
    <3>1. port' = [Raise({"INF"}) EXCEPT !.halted = TRUE, !.odd = "underflow",
                                         !.moved = port.moved]
      BY <2>1, <2>2 DEF Raise, Ports
    <3> QED
      BY <3>1 DEF OddBits
  <2>3. CASE port' = [Raise({"OF"}) EXCEPT !.halted = TRUE, !.moved = Len,
                                           !.odd = "overflow"]
    <3>1. port' = [Raise({"OF"}) EXCEPT !.halted = TRUE, !.odd = "overflow",
                                        !.moved = Len]
      BY <2>1, <2>3 DEF Raise, Ports
    <3> QED
      BY <3>1 DEF OddBits
  <2> QED
    BY <2>2, <2>3 DEF Mismatch
<1>2. /\ port \in Ports /\ port.ci /\ n \in 0 .. Len
      /\ b \in Errors /\ b \in Bits /\ o \in Odds
      /\ port.end \notin {"ignored", "other"}
  BY AhciAssumption
     DEF IInv, Typed, SlotInv, Mismatch, Running, Bits, Errors, OddBits, Ports, Odds
<1>3. /\ port' \in Ports
      /\ port'.is = port.is \cup {b} /\ port'.his /\ port'.halted
      /\ port'.end = port.end /\ port'.ci /\ port'.st = port.st
      /\ port'.link = port.link /\ port'.odd = o
  BY <1>1, <1>2 DEF Raise, Ports
<1> QED
  BY <1>2, <1>3, HaltStep DEF Mismatch

(* A link that is lost or comes back is seen by the next interrupt.        *)
LEMMA LinkStep ==
  ASSUME IInv, port' \in Ports, HbaOnly,
         port'.halted => port.ci, port'.his, port'.ci = port.ci, port'.st = port.st,
         port'.end = port.end, port'.moved = port.moved, port'.odd = port.odd,
         port.halted => port'.halted,
         NEW b \in SUBSET {"PRC", "PCS"}, "PRC" \in b, port'.is = port.is \cup b
  PROVE  IInv'
<1>1. UNCHANGED <<dev, lun, req, isr, report>>
  BY DEF HbaOnly
<1>2. /\ port \in Ports /\ Lost'
  BY DEF IInv, Typed, Lost
<1>3. Typed'
  BY <1>1 DEF IInv, Typed
<1>4. SlotInv'
  BY <1>1, <1>2 DEF IInv, SlotInv, HasRead, Ports
<1>5. HaltInv' /\ AttendedInv'
  BY <1>1, <1>2 DEF IInv, HaltInv, AttendedInv, Attended
<1>6. OddInv'
  BY <1>1, <1>2 DEF IInv, OddInv, OddBits
<1>7. Truthful'
  BY <1>1 DEF IInv, Truthful
<1> QED
  BY <1>3, <1>4, <1>5, <1>6, <1>7 DEF IInv

(* The device is taken away. *)
LEMMA UnplugStep == IInv /\ Unplug => IInv'
<1> SUFFICES ASSUME IInv, Unplug PROVE IInv'
  OBVIOUS
<1>1. /\ port \in Ports /\ {"PRC"} \subseteq Bits /\ Worse(port.serr) \in Serrs
      /\ port.halted => port.ci
  BY DEF IInv, Typed, SlotInv, Bits, Worse, Serrs, Ports
<1>2. /\ port' \in Ports
      /\ port'.is = port.is \cup {"PRC"} /\ port'.his /\ port'.halted = port.halted
      /\ port'.ci = port.ci /\ port'.st = port.st /\ port'.end = port.end
      /\ port'.moved = port.moved /\ port'.odd = port.odd
  BY <1>1 DEF Unplug, Raise, Ports
<1> QED
  BY <1>1, <1>2, LinkStep DEF Unplug

(* A device is put in. *)
LEMMA PlugStep == IInv /\ Plug => IInv'
<1> SUFFICES ASSUME IInv, Plug PROVE IInv'
  OBVIOUS
<1>1. /\ port \in Ports /\ {"PRC", "PCS"} \subseteq Bits /\ Worse(port.serr) \in Serrs
      /\ port.halted => port.ci
  BY DEF IInv, Typed, SlotInv, Bits, Worse, Serrs, Ports
<1>2. /\ port' \in Ports
      /\ port'.is = port.is \cup {"PRC", "PCS"} /\ port'.his /\ port'.halted = port.ci
      /\ port'.ci = port.ci /\ port'.st = port.st /\ port'.end = port.end
      /\ port'.moved = port.moved /\ port'.odd = port.odd
  BY <1>1 DEF Plug, Raise, Ports
<1> QED
  BY <1>1, <1>2, LinkStep DEF Plug
-----------------------------------------------------------------------------
(* A request finds an empty slot, whose port no bit of an earlier transfer *)
(* of an odd length is left in.                                            *)
LEMMA StartIoStep ==
  ASSUME IInv, NEW write \in BOOLEAN, StartIo(write)
  PROVE  IInv'
<1>1. /\ port \in Ports /\ req = NoReq /\ lun /\ isr.pc = "idle"
      /\ ~port.ci /\ ~port.halted
      /\ ~dev.atapi => port.is \cap OddBits = {}
  BY DEF IInv, Typed, SlotInv, OddInv, StartIo
<1>2. /\ port' \in Ports
      /\ port'.ci = port.st /\ port'.st /\ port'.moved = 0
      /\ port'.end = IF port.st THEN "none" ELSE "ignored"
      /\ port'.halted = port.halted /\ port'.is = port.is
      /\ port'.his = port.his /\ port'.link = port.link
  BY <1>1, BeginProps DEF StartIo
<1>3. /\ UNCHANGED <<dev, lun, isr>>
      /\ req' \in Requests /\ req' # NoReq
      /\ report'.status = "none"
  BY AhciAssumption DEF StartIo, Requests, NoReq
<1>4. Typed'
  BY <1>2, <1>3 DEF IInv, Typed
<1>5. SlotInv'
  BY <1>1, <1>2, <1>3 DEF SlotInv, HasRead, Ports
<1>6. HaltInv'
  BY <1>1, <1>2 DEF HaltInv
<1>7. AttendedInv'
  BY <1>1, <1>2, <1>3 DEF AttendedInv, Attended, Running, Lost, Ports
<1>8. OddInv'
  BY <1>1, <1>2, <1>3 DEF OddInv
<1>9. Truthful'
  BY <1>3 DEF Truthful
<1> QED
  BY <1>4, <1>5, <1>6, <1>7, <1>8, <1>9 DEF IInv

-----------------------------------------------------------------------------
(* The interrupt routine reads before it clears.                           *)
LEMMA EnterStep == IInv /\ Enter => IInv'
<1> SUFFICES ASSUME IInv, Enter PROVE IInv'
  OBVIOUS
<1>1. /\ port \in Ports /\ isr.pc = "idle" /\ port.his
      /\ isr' \in Entered /\ isr'.pc = "ci" /\ isr'.is = port.is
      /\ UNCHANGED <<dev, port, lun, req, report>>
  BY DEF IInv, Typed, Enter, Entered, Ports
<1>2. Typed'
  BY <1>1 DEF IInv, Typed
<1>3. SlotInv'
  BY <1>1 DEF IInv, SlotInv, HasRead
<1>4. HaltInv'
  BY <1>1 DEF IInv, HaltInv, HasRead, Lost
<1>5. AttendedInv'
  BY <1>1 DEF AttendedInv
<1>6. OddInv'
  BY <1>1 DEF IInv, OddInv
<1>7. Truthful'
  BY <1>1 DEF IInv, Truthful
<1> QED
  BY <1>2, <1>3, <1>4, <1>5, <1>6, <1>7 DEF IInv

(* The handler reads PxCI, once PxIS is known. *)
LEMMA ReadCiStep == IInv /\ ReadCi => IInv'
<1> SUFFICES ASSUME IInv, ReadCi PROVE IInv'
  OBVIOUS
<1>1. isr.pc = "ci" /\ isr \in Entered
  BY DEF IInv, Typed, ReadCi, Reading, Idle
<1>2. /\ port \in Ports
      /\ isr' \in Reading /\ isr'.pc = "clear" /\ isr'.is = isr.is
      /\ isr'.ci = port.ci
      /\ UNCHANGED <<dev, port, lun, req, report>>
  BY <1>1 DEF IInv, Typed, ReadCi, Entered, Reading, Ports
<1>3. Typed'
  BY <1>2 DEF IInv, Typed
<1>4. SlotInv'
  BY <1>2 DEF IInv, SlotInv, HasRead
<1>5. HaltInv'
  BY <1>1, <1>2 DEF IInv, HaltInv, HasRead, Lost
<1>6. AttendedInv'
  <2>1. port.ci => Running \/ port.halted \/ ~port.link
    BY <1>2 DEF IInv, SlotInv, Running
  <2>2. port.halted => port.is # {} \/ Lost
    BY <1>1 DEF IInv, HaltInv, HasRead
  <2> QED
    BY <1>2, <2>1, <2>2 DEF AttendedInv, Running, Lost
<1>7. OddInv'
  BY <1>1, <1>2 DEF IInv, OddInv
<1>8. Truthful'
  BY <1>2 DEF IInv, Truthful
<1> QED
  BY <1>3, <1>4, <1>5, <1>6, <1>7, <1>8 DEF IInv

(* What is cleared are bits that were read, and the controller's bit stays *)
(* if any was set: what has come since is seen.                            *)
LEMMA ClearStep == IInv /\ Clear => IInv'
<1> SUFFICES ASSUME IInv, Clear PROVE IInv'
  OBVIOUS
<1>1. isr.pc = "clear" /\ isr \in Reading
  BY DEF IInv, Typed, Clear, Entered, Idle
<1>2. /\ port \in Ports
      /\ port' \in Ports
      /\ port'.is = port.is \ isr.is /\ port'.his = (port.is # {})
      /\ port'.ci = port.ci /\ port'.st = port.st /\ port'.halted = port.halted
      /\ port'.link = port.link /\ port'.moved = port.moved
      /\ port'.end = port.end /\ port'.odd = port.odd
  BY <1>1 DEF IInv, Typed, Clear, Cleared, Ports, Reading, Serrs
<1>3. /\ isr' \in Reading /\ isr'.is = isr.is /\ isr'.ci = isr.ci
      /\ isr'.pc = IF isr.is \cap {"PCS", "PRC"} # {} THEN "events" ELSE "serve"
      /\ UNCHANGED <<dev, lun, req, report>>
  BY <1>1 DEF Clear, Reading
<1>4. Typed'
  BY <1>2, <1>3 DEF IInv, Typed
<1>5. SlotInv'
  BY <1>1, <1>2, <1>3 DEF IInv, SlotInv, HasRead
<1>6. HaltInv'
  <2> SUFFICES ASSUME port.halted, isr'.pc = "serve", isr.is \cap Errors = {}
               PROVE  port'.is \cap Errors # {} \/ Lost'
    BY <1>2, <1>3 DEF HaltInv, HasRead
  <2>1. port.is \cap Errors # {} \/ Lost
    BY <1>1 DEF IInv, HaltInv, HasRead
  <2> QED
    BY <1>2, <1>3, <2>1 DEF Lost
<1>7. AttendedInv'
  <2> SUFFICES ASSUME isr'.pc = "serve", isr.ci PROVE Attended'
    BY <1>3 DEF AttendedInv
  <2>1. Running \/ port.is # {} \/ Lost
    BY <1>1 DEF IInv, AttendedInv
  <2> QED
    BY <1>2, <1>3, <2>1 DEF Attended, Running, Lost
<1>8. OddInv'
  BY <1>1, <1>2, <1>3 DEF IInv, OddInv
<1>9. Truthful'
  BY <1>3 DEF IInv, Truthful
<1> QED
  BY <1>4, <1>5, <1>6, <1>7, <1>8, <1>9 DEF IInv

(* A link event leaves the request lost, one way or the other.             *)
LEMMA EventsStep == IInv /\ Events => IInv'
<1> SUFFICES ASSUME IInv, Events PROVE IInv'
  OBVIOUS
<1>1. isr.pc = "events" /\ isr \in Reading /\ port \in Ports /\ lun \in BOOLEAN
  BY DEF IInv, Typed, Events, Entered, Idle
<1>2. /\ isr' \in Reading /\ isr'.is = isr.is /\ isr'.ci = isr.ci /\ isr'.pc = "serve"
      /\ lun' = (lun /\ "PRC" \notin isr.is)
      /\ UNCHANGED <<dev, req, report>>
  BY <1>1 DEF Events, Reading
<1>3. CASE "PCS" \in isr.is /\ lun /\ port.link
  <2> DEFINE g == Begin(port)
             b == [g EXCEPT !.is = {}, !.his = FALSE, !.serr = "none",
                            !.err = FALSE, !.end = "other"]
  <2>1. /\ b \in Ports /\ b.is = {} /\ b.end = "other"
        /\ b.moved = 0 /\ b.his = FALSE
    <3>1. g \in Ports /\ g.moved = 0
      BY <1>1, BeginProps
    <3>2. {} \subseteq Bits /\ "none" \in Serrs /\ "other" \in Ends
      BY DEF Serrs, Ends
    <3> HIDE DEF g
    <3> QED
      BY <3>1, <3>2 DEF Ports
  <2>2. port' \in Abort(b)
    BY <1>3 DEF Events
  <2> HIDE DEF b
  <2>3. /\ port' \in Ports /\ ~port'.ci /\ ~port'.halted
        /\ port'.is = {} /\ port'.moved = 0 /\ port'.end = "other"
    BY <2>1, <2>2, AbortProps
  <2>4. Typed'
    BY <1>1, <1>2, <2>3 DEF IInv, Typed
  <2>5. SlotInv'
    BY <2>3 DEF SlotInv
  <2>6. HaltInv' /\ AttendedInv'
    BY <1>2, <2>3 DEF HaltInv, AttendedInv, Attended, Lost
  <2>7. OddInv'
    BY <1>2, <1>3, <2>3 DEF OddInv
  <2>8. Truthful'
    BY <1>2 DEF IInv, Truthful
  <2> QED
    BY <2>4, <2>5, <2>6, <2>7, <2>8 DEF IInv
<1>4. CASE ~("PCS" \in isr.is /\ lun /\ port.link)
  <2>1. port' = port
    BY <1>4 DEF Events
  <2>2. Typed'
    BY <1>1, <1>2, <2>1 DEF IInv, Typed
  <2>3. SlotInv'
    BY <1>1, <1>2, <2>1 DEF IInv, SlotInv, HasRead
  <2>4. Lost'
    BY <1>1, <1>4, <1>2, <2>1 DEF IInv, AttendedInv, Lost
  <2>5. HaltInv' /\ AttendedInv'
    BY <1>2, <2>4 DEF HaltInv, AttendedInv, Attended
  <2>6. OddInv'
    BY <1>1, <1>2, <2>1 DEF IInv, OddInv
  <2>7. Truthful'
    BY <1>2 DEF IInv, Truthful
  <2> QED
    BY <2>2, <2>3, <2>5, <2>6, <2>7 DEF IInv
<1> QED
  BY <1>3, <1>4

(* An interrupt is ignored when nothing has come to an end that it could   *)
(* have been for.                                                          *)
LEMMA IgnoreStep == IInv /\ Ignore => IInv'
<1> SUFFICES ASSUME IInv, Ignore PROVE IInv'
  OBVIOUS
<1>1. /\ isr.pc = "serve" /\ isr \in Reading /\ port \in Ports
      /\ req = NoReq \/ (isr.ci /\ isr.is \cap Errors = {})
      /\ isr'.pc = "idle" /\ isr' = Idle
      /\ UNCHANGED <<dev, port, lun, req, report>>
  BY DEF IInv, Typed, Ignore, Unexpected, Entered, Idle
<1>2. Typed'
  BY <1>1 DEF IInv, Typed
<1>3. SlotInv'
  BY <1>1 DEF IInv, SlotInv, HasRead
<1>4. HaltInv'
  BY <1>1 DEF IInv, HaltInv, SlotInv, HasRead, Lost
<1>5. AttendedInv'
  BY <1>1 DEF IInv, AttendedInv, Attended, Running, Lost
<1>6. OddInv'
  BY <1>1 DEF IInv, OddInv
<1>7. Truthful'
  BY <1>1 DEF IInv, Truthful
<1> QED
  BY <1>2, <1>3, <1>4, <1>5, <1>6, <1>7 DEF IInv
-----------------------------------------------------------------------------
(* Stopping the port keeps what the device has reported. *)
LEMMA EndedProps ==
  ASSUME port \in Ports, port.halted => port.ci, NEW q \in Ended
  PROVE  /\ q \in Ports
         /\ ~q.ci /\ ~q.halted
         /\ q.is = {} \/ q.is = port.is
         /\ q.his = port.his /\ q.link = port.link /\ q.serr = port.serr /\ q.err = port.err
         /\ q.moved = port.moved /\ q.end = port.end /\ q.odd = port.odd
<1>1. CASE port.ci
  BY <1>1, AbortProps DEF Ended
<1>2. CASE ~port.ci
  BY <1>2 DEF Ended, Ports
<1> QED
  BY <1>1, <1>2

(* What a hard disk's interrupt that is served and finds nothing wrong is  *)
(* for: the command is over, or was of an odd length.                      *)
LEMMA ServedFor ==
  ASSUME IInv, isr.pc = "serve", req # NoReq, ~Unexpected, ~Wrong, ~dev.atapi
  PROVE  /\ port.is \cap OddBits = {}
         /\ \/ ~port.ci
            \/ port.odd # "none"
<1>1. isr \in Reading
  BY DEF IInv, Typed, Entered, Idle
<1>2. CASE ~isr.ci
  BY <1>2 DEF IInv, SlotInv, HasRead, OddInv
<1>3. CASE isr.ci
  <2>1. isr.is \cap Errors # {}
    BY <1>3 DEF Unexpected
  <2>2. isr.is = {"OF"} \/ isr.is = {"INF"}
    BY <1>1, <2>1 DEF Wrong, Underflow, Benign, Errors
  <2> QED
    BY <2>2 DEF IInv, OddInv, OddBits
<1> QED
  BY <1>2, <1>3

(* The handler finds nothing wrong and completes the request. *)
LEMMA CompleteStep == IInv /\ Serve /\ Complete => IInv'
<1> SUFFICES ASSUME IInv, Serve, Complete PROVE IInv'
  OBVIOUS
<1>1. /\ isr.pc = "serve" /\ req # NoReq /\ port \in Ports /\ ~Wrong
      /\ port.halted => port.ci
      /\ Unexpected => dev.atapi
  BY DEF IInv, Typed, SlotInv, Serve, Complete
<1>2. /\ port' \in Ports /\ ~port'.ci /\ ~port'.halted
      /\ port'.is = {} \/ port'.is = port.is
      /\ port'.his = port.his
  <2>1. PICK p \in Ended : port' \in IF isr.is = {"OF"} THEN Abort(p) ELSE {p}
    BY DEF Complete
  <2>2. /\ p \in Ports /\ ~p.ci /\ ~p.halted
        /\ p.is = {} \/ p.is = port.is
        /\ p.his = port.his
    BY <1>1, EndedProps
  <2> QED
    BY <2>1, <2>2, AbortProps
<1>3. /\ req' = NoReq /\ isr' = Idle /\ isr'.pc = "idle"
      /\ UNCHANGED <<dev, lun>>
  BY DEF Serve, Complete, Answer, Idle
<1>4. Typed'
  BY <1>2, <1>3 DEF IInv, Typed
<1>5. SlotInv'
  BY <1>2, <1>3 DEF SlotInv, HasRead
<1>6. HaltInv'
  BY <1>2 DEF HaltInv
<1>7. AttendedInv'
  BY <1>3 DEF AttendedInv
<1>8. OddInv'
  BY <1>1, <1>2, <1>3, ServedFor DEF OddInv
<1>9. Truthful'
  <2> SUFFICES ASSUME ~dev.atapi PROVE Truthful'
    BY <1>3 DEF Truthful
  <2>1. ~port.ci \/ port.odd # "none"
    BY <1>1, ServedFor
  <2>2. /\ report'.status = IF port.moved < Len THEN "overrun" ELSE "success"
        /\ report'.length = port.moved /\ report'.moved = port.moved
        /\ report'.end = port.end /\ report'.odd = port.odd
    BY DEF Complete, Answer
  <2>3. port.moved \in 0 .. Len
    BY <1>1 DEF Ports
  <2>4. CASE port.ci
    BY AhciAssumption, <2>1, <2>2, <2>3, <2>4 DEF Truthful
  <2>5. CASE ~port.ci
    <3>1. \/ port.end = "done" /\ port.moved = Len
          \/ port.end \in {"ignored", "other"} /\ port.moved = 0
      BY <1>1, <2>5 DEF IInv, SlotInv
    <3> QED
      BY AhciAssumption, <2>2, <3>1 DEF Truthful
  <2> QED
    BY <2>4, <2>5
<1> QED
  BY <1>4, <1>5, <1>6, <1>7, <1>8, <1>9 DEF IInv

(* An error stops the command; it is tried again, or its request answered. *)
LEMMA RecoverStep == IInv /\ Serve /\ Recover => IInv'
<1> SUFFICES ASSUME IInv, Serve, Recover PROVE IInv'
  OBVIOUS
<1>1. /\ port \in Ports /\ req \in Requests /\ isr.pc = "serve" /\ isr \in Reading
      /\ port.halted => port.ci
  BY DEF IInv, Typed, SlotInv, Serve, Entered, Idle
<1>2. /\ isr' = Idle /\ isr'.pc = "idle"
      /\ UNCHANGED <<dev, lun>>
  BY DEF Serve, Recover, Idle
<1> DEFINE Stopped(r) == [r EXCEPT !.is = {}, !.his = FALSE,
                                   !.serr = IF r.his THEN "none" ELSE @]
<1>3. PICK q \in Ended : \E r \in Abort(q) :
        \/ /\ Again /\ lun
           /\ port' = Begin(Stopped(r))
           /\ req' = [req EXCEPT !.retry = Retried]
           /\ UNCHANGED report
        \/ /\ ~(Again /\ lun)
           /\ port' = Stopped(r)
           /\ Answer(IF Again THEN "nodevice" ELSE Told, 0)
  BY DEF Recover
<1>4. PICK r \in Abort(q) :
        \/ /\ Again /\ lun
           /\ port' = Begin(Stopped(r))
           /\ req' = [req EXCEPT !.retry = Retried]
           /\ UNCHANGED report
        \/ /\ ~(Again /\ lun)
           /\ port' = Stopped(r)
           /\ Answer(IF Again THEN "nodevice" ELSE Told, 0)
  BY <1>3
<1>5. /\ r \in Ports /\ ~r.ci /\ ~r.halted
  <2>1. q \in Ports
    BY <1>1, EndedProps
  <2> QED
    BY <2>1, AbortProps
<1>6. /\ Stopped(r) \in Ports /\ ~Stopped(r).ci /\ ~Stopped(r).halted
      /\ Stopped(r).is = {}
  BY <1>5 DEF Ports, Serrs
<1> HIDE DEF Stopped
<1>7. CASE Again /\ lun
  <2>1. /\ port' = Begin(Stopped(r)) /\ UNCHANGED report
        /\ req' = [req EXCEPT !.retry = Retried]
    BY <1>4, <1>7
  <2>2. /\ port' \in Ports /\ ~port'.halted /\ port'.is = {} /\ port'.moved = 0
        /\ port'.st /\ port'.end = IF port'.ci THEN "none" ELSE "ignored"
    BY <1>6, <2>1, BeginProps
  <2>3. req' \in Requests /\ req' # NoReq
    BY <1>1, <1>7, <2>1, AhciAssumption DEF Requests, Again, Retried, NoReq
  <2>4. Typed'
    BY <1>2, <2>2, <2>3 DEF IInv, Typed
  <2>5. SlotInv'
    BY <1>2, <2>2, <2>3 DEF SlotInv, HasRead, Ports
  <2>6. HaltInv' /\ OddInv'
    BY <1>2, <2>2 DEF HaltInv, OddInv
  <2>7. AttendedInv'
    BY <1>2, <2>2 DEF AttendedInv, Attended, Running, Lost, Ports
  <2>8. Truthful'
    BY <1>2, <2>1 DEF IInv, Truthful
  <2> QED
    BY <2>4, <2>5, <2>6, <2>7, <2>8 DEF IInv
<1>8. CASE ~(Again /\ lun)
  <2>1. /\ port' = Stopped(r) /\ req' = NoReq
        /\ report'.status \in {"nodevice", "error", "success"} /\ report'.length = 0
    BY <1>4, <1>8 DEF Answer, Told
  <2>2. Typed'
    BY <1>2, <1>6, <2>1 DEF IInv, Typed
  <2>3. SlotInv' /\ HaltInv' /\ AttendedInv' /\ OddInv'
    BY <1>2, <1>6, <2>1 DEF SlotInv, HasRead, HaltInv, AttendedInv, OddInv
  <2>4. Truthful'
    BY <2>1 DEF Truthful
  <2> QED
    BY <2>2, <2>3, <2>4 DEF IInv
<1> QED
  BY <1>7, <1>8

(* A reset leaves neither a command nor a request.                         *)
LEMMA ResetStep == IInv /\ Reset => IInv'
<1> SUFFICES ASSUME IInv, Reset PROVE IInv'
  OBVIOUS
<1>1. /\ port \in Ports /\ isr.pc = "idle" /\ req' = NoReq /\ lun' \in BOOLEAN
      /\ UNCHANGED <<dev, isr>>
      /\ report' = report \/ report'.status = "busreset"
  <2>1. IF req = NoReq THEN UNCHANGED <<req, report>> ELSE Answer("busreset", 0)
    BY DEF Reset
  <2>2. req' = NoReq /\ (report' = report \/ report'.status = "busreset")
    BY <2>1 DEF Answer
  <2>3. lun' \in BOOLEAN /\ isr.pc = "idle" /\ UNCHANGED <<dev, isr>>
    BY DEF Reset
  <2> QED
    BY <2>2, <2>3 DEF IInv, Typed
<1>2. /\ port' \in Ports /\ ~port'.ci /\ ~port'.halted
      /\ port'.is # {} => port'.his
      /\ port'.is # {} => ~lun'
  <2>1. CASE port' = [port EXCEPT !.st = TRUE, !.ci = FALSE, !.halted = FALSE, !.is = {},
                                  !.his = FALSE, !.serr = "none", !.err = FALSE]
    BY <1>1, <2>1 DEF Ports, Serrs
  <2>2. CASE port' = [port EXCEPT !.st = FALSE, !.ci = FALSE, !.halted = FALSE] /\ ~lun'
    BY <1>1, <2>2 DEF IInv, Typed, Ports
  <2>3. ASSUME NEW st \in BOOLEAN,
               port' = [port EXCEPT !.st = st, !.ci = FALSE, !.halted = FALSE, !.is = {},
                                    !.his = FALSE, !.serr = "none", !.err = FALSE]
        PROVE  /\ port' \in Ports /\ ~port'.ci /\ ~port'.halted
               /\ port'.is = {}
    BY <1>1, <2>3 DEF Ports, Serrs
  <2> QED
    BY <2>1, <2>2, <2>3 DEF Reset
<1>3. Typed'
  BY <1>1, <1>2 DEF IInv, Typed
<1>4. SlotInv' /\ HaltInv' /\ AttendedInv'
  BY <1>1, <1>2 DEF SlotInv, HasRead, HaltInv, AttendedInv
<1>5. OddInv'
  BY <1>1, <1>2 DEF OddInv
<1>6. Truthful'
  BY <1>1 DEF IInv, Truthful
<1> QED
  BY <1>3, <1>4, <1>5, <1>6 DEF IInv
-----------------------------------------------------------------------------
(* Every step keeps the invariant. *)
LEMMA NextIInv == IInv /\ [Next]_vars => IInv'
<1> SUFFICES ASSUME IInv, [Next]_vars PROVE IInv'
  OBVIOUS
<1>1. CASE \E write \in BOOLEAN : StartIo(write)
  BY <1>1, StartIoStep
<1>2. CASE Isr
  <2>1. Serve => (Serve /\ Complete) \/ (Serve /\ Recover)
    BY DEF Serve
  <2> QED
    BY <1>2, <2>1, EnterStep, ReadCiStep, ClearStep, EventsStep, IgnoreStep,
       CompleteStep, RecoverStep DEF Isr
<1>3. CASE Finish \/ Early \/ Fail \/ Mismatch \/ Unplug \/ Plug
  BY <1>3, FinishStep, EarlyStep, FailStep, MismatchStep, UnplugStep, PlugStep
<1>4. CASE Reset
  BY <1>4, ResetStep
<1>5. CASE UNCHANGED vars
  BY <1>5 DEF vars, IInv, Typed, SlotInv, HasRead, HaltInv, AttendedInv, Attended,
              Running, Lost, OddInv, Truthful
<1> QED
  BY <1>1, <1>2, <1>3, <1>4, <1>5 DEF Next

(* The invariant holds always: what the handler has read of the port is    *)
(* still true of it or is covered by a bit that is still set.              *)
THEOREM PortInvariant == Spec => []IInv
<1>1. Init => IInv
  BY InitIInv
<1>2. IInv /\ [Next]_vars => IInv'
  BY NextIInv
<1> QED
  BY <1>1, <1>2, PTL DEF Spec

(* Every state is typed: a request is tried fewer than MAX_RETRIES times,  *)
(* whatever goes wrong (the error branch of AtapiInterrupt__).             *)
THEOREM PortTyped == Spec => []TypeOK
<1>1. IInv => TypeOK
  <2> SUFFICES ASSUME Typed PROVE TypeOK
    BY DEF IInv
  <2>1. /\ port.is \subseteq Benign \cup Errors \cup {"PCS", "PRC"}
        /\ port.moved \in 0 .. Len
    BY DEF Typed, Ports, Bits
  <2>2. isr.pc \in {"idle", "ci", "clear", "events", "serve"}
    BY DEF Typed, Entered, Reading, Idle
  <2>3. req # NoReq => req.retry < MaxRetries
    BY AhciAssumption DEF Typed, Requests
  <2> QED
    BY <2>1, <2>2, <2>3 DEF Typed, TypeOK
<1> QED
  BY <1>1, PortInvariant, PTL

(* Nobody waits for an interrupt that has been and gone, whatever the      *)
(* adapter does between the reads and the clearing of UniataAhciStatus.    *)
THEOREM NoInterruptMissed == Spec => []NoneMissed
<1>1. IInv => NoneMissed
  BY DEF IInv, AttendedInv, Attended, NoneMissed
<1> QED
  BY <1>1, PortInvariant, PTL

(* A hard disk's request is answered as done, in full or in part, only if  *)
(* the adapter ended its command that way, up to the named exceptions.     *)
THEOREM AnswersAreTruthful == Spec => []Truthful
<1>1. IInv => Truthful
  BY DEF IInv
<1> QED
  BY <1>1, PortInvariant, PTL
=============================================================================
