--------------------------- MODULE IntrCheckProof ---------------------------
(***************************************************************************)
(* Proofs about IntrCheck for every number of channels and every chip,     *)
(* and about TimerDpc, the queue of the calls a channel waits for there,   *)
(* for any number of channels.                                             *)
(***************************************************************************)
EXTENDS IntrCheck, TimerDpc, TLAPS, FiniteSetTheorems, FunctionTheorems

Results == {"IGNORE", "OUR", "UNEXPECTED"}

IsrHolds == [by : {"isr"}, at : {"scan", "check", "handle"}, pass : {0, 1},
             k : 0 .. N, seen : SUBSET Chan, status : BOOLEAN, res : Results]
IoHolds == [by : {"io"}, own : Chan]
TimerHolds == [by : {"callback", "dpc", "enable"}, own : Chan, k : 0 .. N,
               at : {"own", "scan", "handle"}]

Isr2Scans == [at : {"scan"}, c : 0 .. N, looked : Nat, found : BOOLEAN]
Isr2Looks == [at : {"check"}, c : Chan, looked : Nat, found : BOOLEAN]
Isr2Knows == [at : {"set"}, c : Chan, looked : Nat, found : BOOLEAN, res : Results]

ChanTyped ==
  /\ job \in [Chan -> {"none", "busy", "done", "rdp"}]
  /\ line \in [Chan -> BOOLEAN]
  /\ event \in [Chan -> BOOLEAN]
  /\ dropped \subseteq Chan
  /\ expecting \in [Chan -> BOOLEAN]
  /\ dpcReq \in [Chan -> BOOLEAN]
  /\ check \in [Chan -> {"IDLE", "CHECK", "DETECTED", "ACTIVE"}]
  /\ disabled \in [Chan -> 0 .. 1]
  /\ count \in Nat
  /\ timer \in [Chan -> {"none", "callback", "dpc", "enable"}]

(* The variables are what the actions take them for; the handlers do not   *)
(* run at the same time, since the processor calls one after the other.    *)
Typed ==
  /\ hw \in [chip : Chips, isr2 : SecondIsr]
  /\ ChanTyped
  /\ first \in Chan
  /\ calls \in {<<>>, <<"isr">>, <<"isr2">>, <<"isr", "isr2">>, <<"isr2", "isr">>}
  /\ \/ holder = Free \/ holder \in IoHolds
     \/ /\ holder \in IsrHolds
        /\ holder.at # "scan" => holder.k < N
        /\ Called("isr") /\ isr2 = NotInIsr
     \/ /\ holder \in TimerHolds
        /\ holder.at = "own" => holder.by = "callback"
        /\ holder.at # "scan" => holder.k < N
  /\ \/ isr2 = NotInIsr
     \/ isr2 \in Isr2Scans \cup Isr2Looks \cup Isr2Knows /\ Called("isr2")

(* Who is at a channel: the first handler, the timer's call, the second    *)
(* handler.                                                                *)
IsrAt(place, c) == InIsr(place) /\ IsrChan = c
OwnedBy(c) == InTimer("own") /\ holder.own = c
TimerAt(c) == InTimer("handle") /\ TimerChan = c
DpcAt(c) == TimerAt(c) /\ holder.by = "dpc"
Isr2At(c) == isr2.at \in {"check", "set"} /\ isr2.c = c

(* Somebody will come back to the channel without an interrupt of it. *)
Kept(c) == timer[c] = "callback" \/ OwnedBy(c) \/ dpcReq[c] \/ DpcAt(c)

(* A channel is silenced, or its request left without an interrupt to      *)
(* come, only if somebody will come back; what is left to the DPC is left  *)
(* alone until it comes.                                                   *)
KeptInv(c) ==
  /\ disabled[c] > 0 => Kept(c)
  /\ job[c] # "none" /\ ~expecting[c] =>
       Kept(c) \/ Sending(c) \/ c \in dropped
  /\ expecting[c] => job[c] # "none"
  /\ dpcReq[c] =>
       /\ disabled[c] > 0 /\ check[c] = "ACTIVE"
       /\ ~expecting[c] /\ job[c] # "none"
       /\ timer[c] = "dpc" \/ (holder.by = "dpc" /\ holder.own = c /\ holder.k <= c)
  /\ DpcAt(c) => ~dpcReq[c]
  /\ OwnedBy(c) => timer[c] = "none"
  /\ Sending(c) => job[c] # "none" /\ ~expecting[c] /\ ~dpcReq[c]

(* Who looks at a channel that may interrupt has marked it as his.         *)
LockInv(c) ==
  /\ check[c] = "CHECK" => Isr2At(c)
  /\ check[c] \in {"CHECK", "DETECTED"} => disabled[c] = 0
  /\ Isr2At(c) => disabled[c] = 0 /\ check[c] \in {"CHECK", "IDLE"}
  /\ IsrAt("check", c) \/ IsrAt("handle", c) \/ (TimerAt(c) /\ holder.by # "dpc")
       => disabled[c] = 0 /\ check[c] = "ACTIVE"

(* It need not be looked for: a call will come, or it was thrown away.     *)
Excused(c) == timer[c] = "callback" \/ c \in dropped

(* An interrupt taken off the device before the check is somebody's, or    *)
(* excused; it is excused wherever the code goes on as if there were none. *)
FoundInv(c) ==
  job[c] = "done" /\ ~line[c] =>
    /\ \/ check[c] # "IDLE"
       \/ Excused(c)
       \/ Handling(c)
       \/ isr2.at = "set" /\ isr2.c = c
    /\ Isr2At(c) /\ (isr2.at = "set" => isr2.res # "OUR")
         => Excused(c) \/ Handling(c)
    /\ IsrAt("check", c) => Excused(c)
    /\ IsrAt("handle", c) /\ holder.res = "UNEXPECTED" => Excused(c)
    /\ Sending(c) => Excused(c)

(* The hint counts at most the requests there are, and one; a request that *)
(* is being sent is not counted yet.                                       *)
Asked == {c \in Chan : job[c] # "none" /\ ~Sending(c)}
CountInv == count <= Cardinality(Asked) + 1

ChanInv(c) == KeptInv(c) /\ LockInv(c) /\ FoundInv(c)

IInv == /\ Typed
        /\ \A c \in Chan : ChanInv(c)
        /\ CountInv
-----------------------------------------------------------------------------
(* The wrap of the channel number in the scan. *)
LEMMA ModOnce ==
  ASSUME NEW a \in 0 .. 2 * N - 1
  PROVE  a % N = IF a < N THEN a ELSE a - N
BY IntrAssumption

(* The channel that is looked at. *)
LEMMA ChanOf ==
  ASSUME Typed
  PROVE  /\ holder.by = "isr" /\ holder.k < N => IsrChan \in Chan
         /\ holder \in TimerHolds /\ holder.k < N =>
              /\ TimerChan \in Chan
              /\ holder.by # "callback" => TimerChan = holder.k
<1>1. first \in 0 .. N - 1 /\ N \in Nat \ {0}
  BY IntrAssumption DEF Typed, Chan
<1>2. ASSUME holder \in IsrHolds, holder.k < N
      PROVE  IsrChan \in Chan
  <2>1. holder.k + first \in 0 .. 2 * N - 1 /\ holder.k \in 0 .. N
    BY <1>1, <1>2 DEF IsrHolds
  <2> QED
    BY <1>1, <2>1, ModOnce DEF IsrChan, Chan
<1>3. ASSUME holder \in TimerHolds, holder.k < N
      PROVE  /\ TimerChan \in Chan
             /\ holder.by # "callback" => TimerChan = holder.k
  <2>1. /\ holder.k + first \in 0 .. 2 * N - 1
        /\ holder.k + 0 \in 0 .. 2 * N - 1
        /\ holder.k \in 0 .. N
    BY <1>1, <1>3 DEF TimerHolds
  <2>2. CASE holder.by = "callback"
    BY <1>1, <2>1, <2>2, ModOnce DEF TimerChan, Chan
  <2>3. CASE holder.by # "callback"
    BY <1>1, <1>3, <2>1, <2>3, ModOnce DEF TimerChan, Chan
  <2> QED
    BY <2>2, <2>3
<1>4. holder.by = "isr" => holder \in IsrHolds
  BY DEF Typed, Free, IoHolds, TimerHolds
<1> QED
  BY <1>2, <1>3, <1>4
-----------------------------------------------------------------------------
(* What is not done to a channel. *)
Untouched(d) ==
  /\ job'[d] = job[d] /\ line'[d] = line[d] /\ check'[d] = check[d]
  /\ disabled'[d] = disabled[d] /\ expecting'[d] = expecting[d]
  /\ dpcReq'[d] = dpcReq[d] /\ timer'[d] = timer[d]
  /\ (d \in dropped') = (d \in dropped)

Fields == [job : {"none", "busy", "done", "rdp"}, expecting : BOOLEAN,
           check : {"IDLE", "CHECK", "DETECTED", "ACTIVE"}, disabled : 0 .. 1,
           dpcReq : BOOLEAN, timer : {"none", "callback", "dpc", "enable"},
           count : Nat]

(* What setting one channel does to the others. *)
LEMMA SetProps ==
  ASSUME ChanTyped, NEW c \in Chan, NEW r \in Fields, Set(c, r),
         line' \in [Chan -> BOOLEAN], \A d \in Chan \ {c} : line'[d] = line[d],
         event' \in [Chan -> BOOLEAN]
  PROVE  /\ ChanTyped'
         /\ job'[c] = r.job /\ expecting'[c] = r.expecting /\ check'[c] = r.check
         /\ disabled'[c] = r.disabled /\ dpcReq'[c] = r.dpcReq /\ timer'[c] = r.timer
         /\ count' = r.count /\ (Unheard(r) => c \in dropped')
         /\ \A d \in Chan \ {c} : Untouched(d)
<1>1. /\ job' \in [Chan -> {"none", "busy", "done", "rdp"}]
      /\ expecting' \in [Chan -> BOOLEAN]
      /\ dpcReq' \in [Chan -> BOOLEAN]
  BY DEF ChanTyped, Set, Fields
<1>2. /\ check' \in [Chan -> {"IDLE", "CHECK", "DETECTED", "ACTIVE"}]
      /\ disabled' \in [Chan -> 0 .. 1]
      /\ timer' \in [Chan -> {"none", "callback", "dpc", "enable"}]
      /\ count' \in Nat /\ dropped' \subseteq Chan
  BY DEF ChanTyped, Set, Fields
<1>3. /\ job'[c] = r.job /\ expecting'[c] = r.expecting /\ check'[c] = r.check
      /\ disabled'[c] = r.disabled /\ dpcReq'[c] = r.dpcReq /\ timer'[c] = r.timer
      /\ count' = r.count /\ (Unheard(r) => c \in dropped')
  BY DEF ChanTyped, Set, Fields
<1>4. ASSUME NEW d \in Chan \ {c} PROVE Untouched(d)
  BY DEF ChanTyped, Set, Untouched
<1> QED
  BY <1>1, <1>2, <1>3, <1>4 DEF ChanTyped

(* How the handler leaves its channel: nothing to do, the request gone or  *)
(* going on, to be looked at again by the timer, left to the DPC.          *)
Gone(c, r) ==
  /\ \/ r.job = "busy"
     \/ r.job = "none" /\ ~r.expecting
  /\ r.check = "IDLE" /\ r.disabled = 0 /\ r.dpcReq = dpcReq[c]
  /\ r.count = 1

Again(c, inDpc, r) ==
  /\ \/ r.job = "done" /\ r.expecting /\ r.check = check[c]
     \/ r.job = "rdp" /\ ~r.expecting /\ r.check \in {"IDLE", check[c]}
  /\ r.disabled = IF inDpc THEN disabled[c] ELSE 1
  /\ r.dpcReq = dpcReq[c] /\ r.timer = "callback"
  /\ r.count <= count

Posted(c, r) ==
  /\ r.job = job[c] /\ ~r.expecting /\ r.check = check[c]
  /\ r.disabled = 1 /\ r.dpcReq /\ r.timer = "dpc"
  /\ r.count <= count

(* A handler leaves the channel done, or to be served again in a DPC. *)
LEMMA OutcomeProps ==
  ASSUME ChanTyped, NEW c \in Chan, NEW inDpc \in BOOLEAN,
         ~inDpc => disabled[c] = 0,
         NEW r \in Outcomes(c, inDpc)
  PROVE  /\ r \in Fields
         /\ Gone(c, r) \/ Again(c, inDpc, r) \/ (~inDpc /\ Posted(c, r))
<1>1. /\ job[c] \in {"none", "busy", "done", "rdp"} /\ dpcReq[c] \in BOOLEAN
      /\ expecting[c] \in BOOLEAN
      /\ check[c] \in {"IDLE", "CHECK", "DETECTED", "ACTIVE"}
      /\ disabled[c] \in 0 .. 1 /\ count \in Nat
      /\ timer[c] \in {"none", "callback", "dpc", "enable"}
      /\ Given(c) = 0
      /\ ~inDpc => Silenced(c) = 1
      /\ OneLess \in Nat /\ OneLess <= count
  BY DEF ChanTyped, Given, Silenced, OneLess
<1> HIDE DEF Given, Silenced, OneLess
<1>2. CASE \/ \E e \in {TRUE, expecting[c]} : r = ReturnEnableIntr(c, "busy", e)
           \/ r = ReturnEnableIntr(c, "none", FALSE)
  <2>1. PICK j \in {"busy", "none"}, e \in BOOLEAN, t \in {"enable", timer[c]} :
          /\ j = "none" => ~e
          /\ r = [job |-> j, expecting |-> e, check |-> "IDLE", disabled |-> 0,
                  dpcReq |-> dpcReq[c], timer |-> t, count |-> 1]
    BY <1>1, <1>2 DEF ReturnEnableIntr, Result
  <2>2. r \in Fields
    BY <1>1, <2>1 DEF Fields
  <2>3. Gone(c, r)
    BY <1>1, <2>1 DEF Gone
  <2> QED
    BY <2>2, <2>3
<1>3. CASE \/ r = CallTimerDpc(c, inDpc, "done", TRUE, check[c])
           \/ r = CallTimerDpc(c, inDpc, "rdp", FALSE, "IDLE")
  <2>1. PICK j \in {"done", "rdp"}, k \in {"IDLE", check[c]}, n \in {count, OneLess} :
          /\ j = "done" => k = check[c]
          /\ r = [job |-> j, expecting |-> (j = "done"), check |-> k,
                  disabled |-> IF inDpc THEN disabled[c] ELSE 1,
                  dpcReq |-> dpcReq[c], timer |-> "callback", count |-> n]
    BY <1>1, <1>3 DEF CallTimerDpc, Result
  <2>2. r \in Fields
    BY <1>1, <2>1 DEF Fields
  <2>3. /\ r.disabled = IF inDpc THEN disabled[c] ELSE 1
        /\ r.dpcReq = dpcReq[c] /\ r.timer = "callback" /\ r.count <= count
    BY <1>1, <2>1
  <2>4. \/ r.job = "done" /\ r.expecting /\ r.check = check[c]
        \/ r.job = "rdp" /\ ~r.expecting /\ r.check \in {"IDLE", check[c]}
    BY <2>1
  <2> QED
    BY <2>2, <2>3, <2>4 DEF Again
<1>4. CASE ~inDpc /\ r = PostToDpc(c)
  <2>1. r \in Fields /\ Posted(c, r)
    BY <1>1, <1>4 DEF PostToDpc, Result, Fields, Posted
  <2> QED
    BY <1>4, <2>1
<1> QED
  BY <1>2, <1>3, <1>4 DEF Outcomes

(* How the handler leaves its channel: with nothing done, with the request *)
(* gone or going on, to be looked at again by the timer, left to the DPC.  *)
Left(c, inDpc) ==
  \/ /\ ~inDpc /\ ~expecting[c]
     /\ job'[c] = job[c] /\ line'[c] = line[c] /\ check'[c] = "IDLE"
     /\ disabled'[c] = disabled[c] /\ expecting'[c] = expecting[c]
     /\ dpcReq'[c] = dpcReq[c] /\ timer'[c] = timer[c]
     /\ (c \in dropped') = (c \in dropped)
  \/ /\ \/ job'[c] = "busy" /\ (expecting'[c] \/ c \in dropped')
        \/ job'[c] = "none" /\ ~expecting'[c]
     /\ check'[c] = "IDLE" /\ disabled'[c] = 0 /\ dpcReq'[c] = dpcReq[c]
  \/ /\ \/ job'[c] = "done" /\ expecting'[c] /\ check'[c] = check[c]
        \/ job'[c] = "rdp" /\ ~expecting'[c] /\ check'[c] \in {"IDLE", check[c]}
     /\ disabled'[c] = IF inDpc THEN disabled[c] ELSE 1
     /\ dpcReq'[c] = dpcReq[c] /\ timer'[c] = "callback"
  \/ /\ ~inDpc /\ expecting[c]
     /\ job'[c] = job[c] /\ ~expecting'[c] /\ check'[c] = check[c]
     /\ disabled'[c] = 1 /\ dpcReq'[c] /\ timer'[c] = "dpc"

Counted(c) ==
  /\ count' <= 1 \/ count' <= count
  /\ job'[c] = "none" /\ job[c] # "none" => count' <= 1

(* The same for AtapiInterrupt__ as a whole. *)
LEMMA HandleProps ==
  ASSUME ChanTyped, NEW c \in Chan, NEW inDpc \in BOOLEAN,
         ~inDpc => disabled[c] = 0,
         Handle(c, inDpc)
  PROVE  /\ ChanTyped' /\ Left(c, inDpc) /\ Counted(c)
         /\ \A d \in Chan \ {c} : Untouched(d)
<1>1. CASE /\ ~inDpc /\ ~expecting[c]
           /\ check' = [check EXCEPT ![c] = "IDLE"]
           /\ UNCHANGED <<device, disabled, expecting, count, dpcReq, timer>>
  BY <1>1 DEF ChanTyped, Left, Counted, Untouched, device
<1>2. CASE /\ inDpc \/ expecting[c]
           /\ \E r \in Outcomes(c, inDpc) : Set(c, r)
           /\ line' = [line EXCEPT ![c] = FALSE]
           /\ UNCHANGED event
  <2>1. PICK r \in Outcomes(c, inDpc) : Set(c, r)
    BY <1>2
  <2>2. /\ r \in Fields
        /\ Gone(c, r) \/ Again(c, inDpc, r) \/ (~inDpc /\ Posted(c, r))
    BY <2>1, OutcomeProps
  <2>3. /\ ChanTyped'
        /\ job'[c] = r.job /\ expecting'[c] = r.expecting /\ check'[c] = r.check
        /\ disabled'[c] = r.disabled /\ dpcReq'[c] = r.dpcReq /\ timer'[c] = r.timer
        /\ count' = r.count /\ (Unheard(r) => c \in dropped')
        /\ \A d \in Chan \ {c} : Untouched(d)
    <3>1. /\ line' \in [Chan -> BOOLEAN] /\ event' \in [Chan -> BOOLEAN]
          /\ \A d \in Chan \ {c} : line'[d] = line[d]
      BY <1>2 DEF ChanTyped
    <3> QED
      BY <2>1, <2>2, <3>1, SetProps
  <2>4. CASE Gone(c, r)
    BY <2>3, <2>4 DEF Gone, Left, Counted, Unheard
  <2>5. CASE Again(c, inDpc, r)
    BY <2>3, <2>5 DEF Again, Left, Counted
  <2>6. CASE ~inDpc /\ Posted(c, r)
    BY <1>2, <2>3, <2>6 DEF Posted, Left, Counted
  <2> QED
    BY <2>2, <2>4, <2>5, <2>6
<1> QED
  BY <1>1, <1>2 DEF Handle

(* The hint. *)
LEMMA AskedFinite ==
  /\ IsFiniteSet(Asked) /\ Cardinality(Asked) \in Nat /\ Cardinality(Asked) <= N
  /\ IsFiniteSet(Chan)
<1>1. N \in Nat \ {0}
  BY IntrAssumption
<1>2. IsFiniteSet(Chan) /\ Cardinality(Chan) = N
  <2>1. 0 \in Int /\ N - 1 \in Int
    BY <1>1
  <2>2. IsFiniteSet(0 .. N - 1) /\ Cardinality(0 .. N - 1) = IF 0 > N - 1 THEN 0 ELSE N - 1 - 0 + 1
    BY <2>1, FS_Interval
  <2> QED
    BY <1>1, <2>2 DEF Chan
<1>3. Asked \subseteq Chan
  BY DEF Asked
<1> QED
  BY <1>2, <1>3, FS_Subset, FS_CardinalityType

(* The hint stays below the number of channels that ask. *)
LEMMA CountStep ==
  ASSUME CountInv, count \in Nat, count' \in Nat,
         count' <= 1 \/ (count' <= count /\ Asked \subseteq Asked')
  PROVE  CountInv'
<1>1. /\ Cardinality(Asked) \in Nat
      /\ Cardinality(Asked') \in Nat
      /\ IsFiniteSet(Asked')
  <2>1. IsFiniteSet(Chan) /\ Asked' \subseteq Chan
    BY AskedFinite DEF Asked, Chan
  <2> QED
    BY <2>1, AskedFinite, FS_Subset, FS_CardinalityType
<1>2. CASE count' <= 1
  BY <1>1, <1>2 DEF CountInv
<1>3. CASE count' <= count /\ Asked \subseteq Asked'
  <2>1. Cardinality(Asked) <= Cardinality(Asked')
    BY <1>1, <1>3, FS_Subset
  <2> QED
    BY <1>1, <1>3, <2>1 DEF CountInv
<1> QED
  BY <1>2, <1>3

(* The hint and the requests stay as they are. *)
LEMMA CountSame ==
  ASSUME CountInv, count \in Nat, UNCHANGED <<count, job>>,
         holder.by # "io", holder'.by # "io"
  PROVE  CountInv'
<1>1. Asked' = Asked
  BY DEF Asked, Sending
<1> QED
  BY <1>1 DEF CountInv
-----------------------------------------------------------------------------
(* The lock holder is at the channel. *)
AtWork(d) == Handling(d) \/ Sending(d)

(* A channel that nobody is at, and that nobody turns to.                  *)
LEMMA Unconcerned ==
  ASSUME NEW d \in Chan, ChanInv(d), Untouched(d),
         ~AtWork(d), ~AtWork(d)', UNCHANGED isr2,
         holder.by = "dpc" /\ holder.own = d /\ holder.k <= d
           => (holder.by = "dpc" /\ holder.own = d /\ holder.k <= d)'
  PROVE  ChanInv(d)'
BY DEF ChanInv, KeptInv, LockInv, FoundInv, Untouched, Handling, Kept, OwnedBy, DpcAt,
       TimerAt, IsrAt, Isr2At, AtWork, Excused

(* A channel about which nothing changes.                                  *)
LEMMA Unchanged ==
  ASSUME NEW d \in Chan, ChanInv(d), Untouched(d), UNCHANGED <<holder, first, isr2>>
  PROVE  ChanInv(d)'
BY DEF ChanInv, KeptInv, LockInv, FoundInv, Untouched, Handling, Kept, OwnedBy, DpcAt,
       TimerAt, IsrAt, Isr2At, InIsr, InTimer, IsrChan, TimerChan, Sending, Excused
-----------------------------------------------------------------------------
(* The parts of the invariant hold at the start. *)
LEMMA InitIInv == Init => IInv
<1> SUFFICES ASSUME Init PROVE IInv
  OBVIOUS
<1>1. Typed
  BY IntrAssumption DEF Init, Typed, ChanTyped, Chan
<1>2. ASSUME NEW c \in Chan PROVE ChanInv(c)
  BY DEF Init, ChanInv, KeptInv, LockInv, FoundInv, IsrAt, Isr2At, TimerAt, DpcAt,
         OwnedBy, InIsr, InTimer, Free, NotInIsr, Sending
<1>3. CountInv
  BY AskedFinite DEF Init, CountInv
<1> QED
  BY <1>1, <1>2, <1>3 DEF IInv

(* The processor and the devices.                                          *)
LEMMA DeliverStep == IInv /\ Deliver => IInv'
<1> SUFFICES ASSUME IInv, Deliver PROVE IInv'
  OBVIOUS
<1>1. /\ UNCHANGED <<hw, device, marks, first, holder, isr2>>
      /\ isr2 = NotInIsr /\ holder.by # "isr"
      /\ calls' \in {<<"isr">>, <<"isr", "isr2">>, <<"isr2", "isr">>}
  BY DEF Deliver
<1>2. Typed'
  BY <1>1 DEF IInv, Typed, ChanTyped, device, marks, IsrHolds
<1>3. ASSUME NEW d \in Chan PROVE ChanInv(d)'
  BY <1>1, Unchanged DEF IInv, Untouched, device, marks
<1>4. CountInv'
  BY <1>1 DEF IInv, CountInv, Asked, Sending, device, marks
<1> QED
  BY <1>2, <1>3, <1>4 DEF IInv

(* Steps of the hardware. *)
LEMMA DeviceStep ==
  ASSUME IInv, NEW c \in Chan, Finish(c) \/ Spurious(c) \/ LinkEvent(c)
  PROVE  IInv'
<1>1. /\ UNCHANGED <<hw, marks, first, calls, holder, isr2, dropped>>
      /\ job' = [job EXCEPT ![c] = job'[c]]
      /\ job'[c] = job[c] \/ (job[c] = "busy" /\ job'[c] = "done")
      /\ (job'[c] = job[c] /\ line'[c] = line[c]) \/ line'[c]
      /\ line' = [line EXCEPT ![c] = line'[c]] /\ line'[c] \in BOOLEAN
      /\ event' \in [Chan -> BOOLEAN]
  BY DEF IInv, Typed, ChanTyped, Finish, Spurious, LinkEvent
<1>2. Typed'
  <2>1. ChanTyped'
    BY <1>1 DEF IInv, Typed, ChanTyped, marks
  <2> QED
    BY <1>1, <2>1 DEF IInv, Typed, Called
<1>3. ASSUME NEW d \in Chan \ {c} PROVE ChanInv(d)'
  <2>1. Untouched(d)
    BY <1>1 DEF IInv, Typed, ChanTyped, Untouched, marks
  <2> QED
    BY <1>1, <2>1, Unchanged DEF IInv
<1>4. ChanInv(c)'
  BY <1>1 DEF IInv, ChanInv, Handling, KeptInv, LockInv, FoundInv, Kept, OwnedBy, DpcAt,
       TimerAt, IsrAt, Isr2At, InIsr, InTimer, IsrChan, TimerChan, Sending, Excused, marks
<1>5. CountInv'
  <2>1. \A d \in Chan : job[d] # "none" => job'[d] # "none"
    BY <1>1 DEF IInv, Typed, ChanTyped
  <2>2. count' = count /\ count \in Nat
    BY <1>1 DEF IInv, Typed, ChanTyped, marks
  <2> QED
    BY <1>1, <2>1, <2>2, CountStep DEF IInv, Asked, Sending
<1> QED
  BY <1>2, <1>3, <1>4, <1>5 DEF IInv

(* A command is sent.                                                      *)
LEMMA SendStep ==
  ASSUME IInv, NEW c \in Chan, Send(c)
  PROVE  IInv'
<1>1. /\ UNCHANGED <<hw, line, event, marks, first, calls, isr2>>
      /\ holder = Free /\ job[c] = "none" /\ Typed
      /\ job' = [job EXCEPT ![c] = "busy"] /\ dropped' = dropped \ {c}
      /\ holder' = [by |-> "io", own |-> c]
  BY DEF Send, IInv
<1>2. ChanTyped' /\ job'[c] = "busy" /\ \A d \in Chan \ {c} : Untouched(d)
  BY <1>1 DEF Typed, ChanTyped, Untouched, marks
<1>3. /\ holder' \in IoHolds /\ holder'.by = "io" /\ holder'.own = c
      /\ \A d \in Chan : ~Handling(d) /\ ~Handling(d)' /\ (Sending(d)' <=> d = c)
  <2>1. /\ holder' \in IoHolds /\ holder'.by = "io" /\ holder'.own = c
        /\ holder.by = "none"
    BY <1>1 DEF IoHolds, Free
  <2> QED
    BY <2>1 DEF Handling, InIsr, InTimer, Sending
<1>4. Typed'
  BY <1>1, <1>2, <1>3 DEF Typed, Called
<1>5. ASSUME NEW d \in Chan \ {c} PROVE ChanInv(d)'
  BY <1>1, <1>2, <1>3, Unconcerned DEF IInv, AtWork, Sending, Free
<1>6. ChanInv(c)'
  <2>1. /\ UNCHANGED <<check, disabled, expecting, dpcReq, timer>>
        /\ KeptInv(c) /\ LockInv(c)
    BY <1>1 DEF IInv, ChanInv, marks
  <2>2. KeptInv(c)'
    BY <1>1, <1>2, <1>3, <2>1 DEF KeptInv, Kept, OwnedBy, DpcAt, TimerAt, InTimer, Free
  <2>3. LockInv(c)'
    BY <1>1, <1>3, <2>1 DEF LockInv, Isr2At, IsrAt, TimerAt, InIsr, InTimer
  <2>4. FoundInv(c)'
    BY <1>2 DEF FoundInv
  <2> QED
    BY <2>2, <2>3, <2>4 DEF ChanInv
<1>7. CountInv'
  <2>1. Asked' = Asked
    BY <1>1, <1>2, <1>3 DEF Asked, Untouched, Sending, Free
  <2> QED
    BY <1>1, <2>1 DEF IInv, CountInv, marks
<1> QED
  BY <1>4, <1>5, <1>6, <1>7 DEF IInv

(* Its interrupt is expected.                                              *)
LEMMA ExpectStep == IInv /\ Expect => IInv'
<1> SUFFICES ASSUME IInv, Expect PROVE IInv'
  OBVIOUS
<1>1. /\ UNCHANGED <<hw, device, disabled, dpcReq, timer, first, calls, isr2>>
      /\ holder.by = "io" /\ holder' = Free /\ count' = count + 1 /\ Typed
      /\ check' = [check EXCEPT ![holder.own] = "IDLE"]
      /\ expecting' = [expecting EXCEPT ![holder.own] = TRUE]
  BY DEF Expect, IInv
<1>2. PICK c \in Chan : c = holder.own
  <2>1. holder \in IoHolds
    BY <1>1 DEF Typed, Free, IsrHolds, TimerHolds
  <2> QED
    BY <2>1 DEF IoHolds
<1>3. /\ ChanTyped' /\ check'[c] = "IDLE" /\ expecting'[c]
      /\ \A d \in Chan \ {c} : Untouched(d)
  <2>1. /\ check' = [check EXCEPT ![c] = "IDLE"]
        /\ expecting' = [expecting EXCEPT ![c] = TRUE]
        /\ ChanTyped /\ count' \in Nat
        /\ UNCHANGED <<job, line, event, dropped, disabled, dpcReq, timer>>
    BY <1>1, <1>2 DEF Typed, ChanTyped, device
  <2>2. ChanTyped'
    BY <2>1 DEF ChanTyped
  <2>3. check'[c] = "IDLE" /\ expecting'[c] /\ \A d \in Chan \ {c} : Untouched(d)
    BY <2>1 DEF ChanTyped, Untouched
  <2> QED
    BY <2>2, <2>3
<1>4. \A d \in Chan : ~Handling(d) /\ ~Handling(d)' /\ (Sending(d) <=> d = c) /\ ~Sending(d)'
  BY <1>1, <1>2 DEF Handling, InIsr, InTimer, Sending, Free
<1>5. Typed'
  BY <1>1, <1>3 DEF Typed, Called
<1>6. ASSUME NEW d \in Chan \ {c} PROVE ChanInv(d)'
  BY <1>1, <1>3, <1>4, Unconcerned DEF IInv, AtWork
<1>7. ChanInv(c)'
  <2>1. KeptInv(c) /\ LockInv(c) /\ FoundInv(c)
    BY DEF IInv, ChanInv
  <2>2. KeptInv(c)'
    BY <1>1, <1>3, <1>4, <2>1 DEF KeptInv, Kept, OwnedBy, DpcAt, TimerAt, InTimer, Free, device
  <2>3. LockInv(c)'
    BY <1>1, <1>3, <2>1 DEF LockInv, Isr2At, IsrAt, TimerAt, InIsr, InTimer, Free
  <2>4. FoundInv(c)'
    BY <1>1, <1>4, <2>1 DEF FoundInv, Excused, IsrAt, InIsr, Free, device
  <2> QED
    BY <2>2, <2>3, <2>4 DEF ChanInv
<1>8. CountInv'
  <2>1. job[c] # "none" /\ job' = job
    BY <1>1, <1>4 DEF IInv, ChanInv, KeptInv, device
  <2>2. Asked' = Asked \cup {c} /\ c \notin Asked
    BY <1>4, <2>1 DEF Asked
  <2>3. Cardinality(Asked') = Cardinality(Asked) + 1
    BY <2>2, AskedFinite, FS_AddElement
  <2> QED
    BY <1>1, <2>3, AskedFinite DEF IInv, CountInv, Typed, ChanTyped
<1> QED
  BY <1>5, <1>6, <1>7, <1>8 DEF IInv
-----------------------------------------------------------------------------
(* The first handler begins: it holds the lock, and the second one is not  *)
(* running.                                                                *)
LEMMA IsrEnterStep == IInv /\ IsrEnter => IInv'
<1> SUFFICES ASSUME IInv, IsrEnter PROVE IInv'
  OBVIOUS
<1>1. /\ UNCHANGED <<hw, device, check, disabled, expecting, dpcReq, timer, first, calls, isr2>>
      /\ holder = Free /\ count' = 0 /\ Called("isr")
      /\ holder' = [by |-> "isr", at |-> "scan", pass |-> 0, k |-> 0,
                    seen |-> {}, status |-> FALSE, res |-> "IGNORE"]
  BY DEF IsrEnter
<1>2. isr2 = NotInIsr
  BY <1>1 DEF IInv, Typed, Called
<1>3. Typed'
  <2>1. holder' \in IsrHolds
    BY <1>1, IntrAssumption DEF IsrHolds, Results
  <2>2. ChanTyped'
    BY <1>1 DEF IInv, Typed, ChanTyped, device
  <2> QED
    BY <1>1, <1>2, <2>1, <2>2 DEF IInv, Typed, Called
<1>4. ASSUME NEW d \in Chan PROVE ChanInv(d)'
  <2>1. /\ Untouched(d) /\ ~AtWork(d) /\ ~AtWork(d)' /\ UNCHANGED isr2
        /\ holder.by # "dpc"
    BY <1>1 DEF Untouched, AtWork, Handling, Sending, InIsr, InTimer, Free, device
  <2> QED
    BY <2>1, Unconcerned DEF IInv
<1>5. CountInv'
  BY <1>1, CountStep DEF IInv, Typed, ChanTyped
<1> QED
  BY <1>3, <1>4, <1>5 DEF IInv

(* What is known while the ISR holds the lock. *)
LEMMA IsrProps ==
  ASSUME IInv, holder.by = "isr"
  PROVE  /\ holder \in IsrHolds /\ isr2 = NotInIsr /\ isr2.at = "out" /\ Called("isr")
         /\ holder.at # "scan" => holder.k < N
         /\ N \in Nat \ {0} /\ holder.k \in 0 .. N
         /\ holder.k < N => IsrChan \in Chan
BY ChanOf, IntrAssumption DEF IInv, Typed, Free, IoHolds, TimerHolds, IsrHolds, NotInIsr

(* The scan goes on with the next channel. *)
LEMMA NextOneProps ==
  ASSUME NEW h \in IsrHolds, h.k < N
  PROVE  /\ NextOne(h) \in IsrHolds
         /\ NextOne(h).by = "isr" /\ NextOne(h).at = "scan" /\ NextOne(h).k = h.k + 1
         /\ NextOne(h).pass = h.pass /\ NextOne(h).seen = h.seen
         /\ NextOne(h).status = h.status /\ NextOne(h).res = h.res
<1>1. h.k + 1 \in 0 .. N
  BY IntrAssumption DEF IsrHolds
<1>2. /\ NextOne(h).by = "isr" /\ NextOne(h).at = "scan" /\ NextOne(h).k = h.k + 1
      /\ NextOne(h).pass = h.pass /\ NextOne(h).seen = h.seen
      /\ NextOne(h).status = h.status /\ NextOne(h).res = h.res
  BY DEF NextOne, IsrHolds
<1>3. NextOne(h) \in IsrHolds
  BY <1>1 DEF NextOne, IsrHolds
<1> QED
  BY <1>2, <1>3

(* A pass of the ISR over the channels ends. *)
LEMMA IsrPassStep == IInv /\ IsrPass => IInv'
<1> SUFFICES ASSUME IInv, IsrPass PROVE IInv'
  OBVIOUS
<1>1. /\ UNCHANGED <<hw, device, marks, isr2>>
      /\ holder.by = "isr" /\ holder.at = "scan"
  BY DEF IsrPass, InIsr
<1>2. /\ holder \in IsrHolds /\ isr2 = NotInIsr /\ Called("isr")
      /\ N \in Nat \ {0} /\ holder.k \in 0 .. N
  BY <1>1, IsrProps
<1>3. ChanTyped' /\ (\A d \in Chan : Untouched(d)) /\ ~(\E d \in Chan : AtWork(d))
  BY <1>1 DEF IInv, Typed, ChanTyped, Untouched, AtWork, Handling, Sending, InIsr,
              InTimer, device, marks
<1>4. ASSUME holder' = Free \/ (holder'.by = "isr" /\ holder'.at = "scan")
      PROVE  (\A d \in Chan : ChanInv(d)') /\ CountInv'
  <2>1. ASSUME NEW d \in Chan PROVE ChanInv(d)'
    <3>1. ~AtWork(d)' /\ holder.by # "dpc" /\ UNCHANGED isr2
      BY <1>1, <1>4 DEF AtWork, Handling, Sending, InIsr, InTimer, Free
    <3> QED
      BY <1>3, <3>1, Unconcerned DEF IInv
  <2>2. CountInv'
    BY <1>1, <1>4, CountSame DEF IInv, Typed, ChanTyped, Free, device, marks
  <2> QED
    BY <2>1, <2>2
<1>5. CASE /\ holder.k < N
           /\ \/ IsrChan \in holder.seen
              \/ holder.pass = 0 /\ ~expecting[IsrChan]
           /\ holder' = NextOne(holder)
           /\ UNCHANGED <<first, calls>>
  <2>1. /\ holder' \in IsrHolds /\ holder'.by = "isr" /\ holder'.at = "scan"
        /\ holder'.k = holder.k + 1 /\ holder'.pass = holder.pass
        /\ holder'.seen = holder.seen /\ holder'.res = holder.res
    BY <1>2, <1>5, NextOneProps
  <2>2. Typed'
    BY <1>1, <1>2, <1>3, <1>5, <2>1 DEF IInv, Typed, Called
  <2> QED
    BY <1>4, <2>1, <2>2 DEF IInv
<1>6. CASE /\ holder.k = N
           /\ holder.pass = 0 /\ ~holder.status
           /\ holder' = [holder EXCEPT !.pass = 1, !.k = 0]
           /\ UNCHANGED <<first, calls>>
  <2>1. /\ holder' \in IsrHolds /\ holder'.by = "isr" /\ holder'.at = "scan"
        /\ holder'.pass = 1 /\ holder'.seen = holder.seen
    <3>1. holder' \in IsrHolds
      <4>1. 0 \in 0 .. N /\ 1 \in {0, 1} /\ holder \in IsrHolds
        BY <1>2
      <4>2. holder' = [holder EXCEPT !.pass = 1, !.k = 0]
        BY <1>6
      <4> QED
        BY <4>1, <4>2 DEF IsrHolds
    <3>2. /\ holder'.by = "isr" /\ holder'.at = "scan"
          /\ holder'.pass = 1 /\ holder'.seen = holder.seen
      BY <1>1, <1>2, <1>6 DEF IsrHolds
    <3> QED
      BY <3>1, <3>2
  <2>2. Typed'
    BY <1>1, <1>2, <1>3, <1>6, <2>1 DEF IInv, Typed, Called
  <2> QED
    BY <1>4, <2>1, <2>2 DEF IInv
<1>7. CASE /\ holder' = Free
           /\ first' = IF holder.status THEN (first + 1) % N ELSE first
           /\ Returned(holder.status)
  <2>1. first' \in Chan
    <3>1. first \in 0 .. N - 1 /\ first + 1 \in 0 .. 2 * N - 1
      BY <1>2 DEF IInv, Typed, Chan
    <3>2. (first + 1) % N \in 0 .. N - 1
      BY <1>2, <3>1, ModOnce
    <3> QED
      BY <1>7, <3>1, <3>2 DEF Chan
  <2>2. calls' \in {<<>>, <<"isr2">>}
    <3>1. calls \in {<<"isr">>, <<"isr", "isr2">>}
      BY <1>2 DEF IInv, Typed, Called
    <3>2. Tail(<<"isr">>) = <<>> /\ Tail(<<"isr", "isr2">>) = <<"isr2">>
      OBVIOUS
    <3> QED
      BY <1>7, <3>1, <3>2 DEF Returned
  <2>3. Typed'
    BY <1>1, <1>2, <1>3, <1>7, <2>1, <2>2 DEF IInv, Typed
  <2> QED
    BY <1>4, <1>7, <2>3 DEF IInv
<1> QED
  BY <1>5, <1>6, <1>7 DEF IsrPass

(* Marks the channel, if it may interrupt and nobody has marked it.        *)
LEMMA IsrLockStep == IInv /\ IsrLock => IInv'
<1> SUFFICES ASSUME IInv, IsrLock PROVE IInv'
  OBVIOUS
<1>0. PICK c \in Chan : c = IsrChan
  BY IsrProps DEF IsrLock, InIsr
<1>1. /\ UNCHANGED <<hw, job, line, event, disabled, expecting, count, dpcReq, timer,
                     first, calls, isr2>>
      /\ holder.by = "isr" /\ holder.at = "scan" /\ holder.k < N
      /\ dropped' \in {dropped, dropped \cup {c}}
  BY <1>0 DEF IsrLock, InIsr
<1>2. /\ holder \in IsrHolds /\ isr2 = NotInIsr /\ isr2.at = "out" /\ Called("isr")
      /\ N \in Nat \ {0} /\ holder.k \in 0 .. N - 1
  BY <1>1, IsrProps
<1>3. /\ holder' \in IsrHolds /\ holder'.by = "isr"
      /\ holder'.seen = holder.seen \cup {c} /\ holder'.pass = holder.pass
      /\ holder'.res = holder.res
      /\ \/ /\ holder'.at = "scan" /\ holder'.k = holder.k + 1
            /\ check' = check
            /\ disabled[c] > 0 \/ check[c] = "ACTIVE"
         \/ /\ holder'.at = "check" /\ holder'.k = holder.k
            /\ disabled[c] = 0 /\ check[c] = "IDLE"
            /\ check' = [check EXCEPT ![c] = "ACTIVE"]
         \/ /\ holder'.at = "handle" /\ holder'.k = holder.k
            /\ disabled[c] = 0 /\ check[c] = "DETECTED"
            /\ check' = [check EXCEPT ![c] = "ACTIVE"]
            /\ holder.res = "UNEXPECTED" /\ job[c] = "done" => c \in dropped'
      /\ holder'.at = "scan" => dropped' = dropped
  <2> DEFINE h == [holder EXCEPT !.seen = @ \cup {c}]
  <2>1. /\ h \in IsrHolds /\ h.seen = holder.seen \cup {c} /\ h.pass = holder.pass
        /\ h.res = holder.res /\ h.k = holder.k /\ h.by = "isr"
    BY <1>2 DEF IsrHolds
  <2>2. /\ h.k \in 0 .. N - 1
        /\ \/ /\ holder' = NextOne(h) /\ check' = check /\ dropped' = dropped
              /\ (disabled[c] > 0 \/ check[c] = "ACTIVE")
           \/ /\ holder' = [h EXCEPT !.at = "check"] /\ disabled[c] = 0 /\ check[c] = "IDLE"
              /\ check' = [check EXCEPT ![c] = "ACTIVE"]
           \/ /\ holder' = [h EXCEPT !.at = "handle"] /\ disabled[c] = 0 /\ check[c] = "DETECTED"
              /\ check' = [check EXCEPT ![c] = "ACTIVE"]
              /\ holder.res = "UNEXPECTED" /\ job[c] = "done" => c \in dropped'
    BY <1>0, <1>2, <2>1 DEF IsrLock
  <2> HIDE DEF h
  <2> QED
    <3>1. CASE /\ holder' = NextOne(h) /\ check' = check /\ dropped' = dropped
               /\ (disabled[c] > 0 \/ check[c] = "ACTIVE")
      BY <1>2, <2>1, <2>2, <3>1, NextOneProps
    <3>2. CASE /\ holder' = [h EXCEPT !.at = "check"] /\ disabled[c] = 0 /\ check[c] = "IDLE"
               /\ check' = [check EXCEPT ![c] = "ACTIVE"]
      <4>1. /\ holder' \in IsrHolds /\ holder'.by = "isr" /\ holder'.at = "check"
            /\ holder'.k = h.k /\ holder'.seen = h.seen /\ holder'.pass = h.pass
            /\ holder'.res = h.res
        BY <2>1, <3>2 DEF IsrHolds
      <4> QED
        BY <2>1, <3>2, <4>1
    <3>3. CASE /\ holder' = [h EXCEPT !.at = "handle"] /\ disabled[c] = 0
               /\ check[c] = "DETECTED"
               /\ check' = [check EXCEPT ![c] = "ACTIVE"]
               /\ holder.res = "UNEXPECTED" /\ job[c] = "done" => c \in dropped'
      <4>1. /\ holder' \in IsrHolds /\ holder'.by = "isr" /\ holder'.at = "handle"
            /\ holder'.k = h.k /\ holder'.seen = h.seen /\ holder'.pass = h.pass
            /\ holder'.res = h.res
        BY <2>1, <3>3 DEF IsrHolds
      <4> QED
        BY <2>1, <3>3, <4>1
    <3> QED
      BY <2>2, <3>1, <3>2, <3>3
<1>4. ChanTyped'
  BY <1>1, <1>2, <1>3 DEF IInv, Typed, ChanTyped
<1>5. Typed'
  BY <1>1, <1>2, <1>3, <1>4 DEF IInv, Typed, Called
<1>6. ASSUME NEW d \in Chan, d # c \/ holder'.at = "scan" PROVE ChanInv(d)'
  <2>1. Untouched(d)
    BY <1>1, <1>3, <1>6 DEF IInv, Typed, ChanTyped, Untouched
  <2>2. ~AtWork(d) /\ ~AtWork(d)' /\ holder.by # "dpc"
    BY <1>0, <1>1, <1>3, <1>6 DEF AtWork, Handling, Sending, InIsr, InTimer, IsrChan
  <2> QED
    BY <1>1, <2>1, <2>2, Unconcerned DEF IInv
<1>7. ASSUME holder'.at # "scan" PROVE ChanInv(c)'
  <2>1. check'[c] = "ACTIVE" /\ disabled[c] = 0 /\ Handling(c)'
    BY <1>0, <1>1, <1>2, <1>3, <1>7 DEF IInv, Typed, ChanTyped, Handling, InIsr, IsrChan
  <2>2. ~Handling(c) /\ KeptInv(c) /\ FoundInv(c) /\ ~Sending(c) /\ ~Sending(c)'
    BY <1>1, <1>2, <1>3 DEF IInv, ChanInv, Handling, InIsr, InTimer, Sending
  <2>3. KeptInv(c)'
    BY <1>1, <1>3, <2>1, <2>2 DEF KeptInv, Kept, OwnedBy, DpcAt, TimerAt, InTimer
  <2>4. LockInv(c)'
    BY <1>1, <1>2, <1>3, <2>1 DEF LockInv, Isr2At
  <2>5. FoundInv(c)'
    <3>1. ASSUME job[c] = "done", ~line[c], holder'.at = "check" \/ holder.res = "UNEXPECTED"
          PROVE  Excused(c)'
      <4>1. CASE holder'.at = "check"
        BY <1>1, <1>2, <1>3, <2>2, <3>1, <4>1 DEF FoundInv, Excused
      <4>2. CASE holder'.at = "handle"
        BY <1>3, <3>1, <4>2 DEF Excused
      <4> QED
        BY <1>3, <1>7, <4>1, <4>2
    <3> QED
      BY <1>1, <1>2, <1>3, <2>1, <2>2, <3>1 DEF FoundInv, Isr2At, IsrAt, InIsr
  <2> QED
    BY <2>3, <2>4, <2>5 DEF ChanInv
<1>8. CountInv'
  BY <1>1, <1>3, CountSame DEF IInv, Typed, ChanTyped
<1> QED
  BY <1>5, <1>6, <1>7, <1>8 DEF IInv

(* What the check finds is what the handler goes by: an interrupt it takes *)
(* off the device is found, or excused.                                    *)
LEMMA CheckProps ==
  ASSUME Typed, NEW c \in Chan, NEW chk \in Checks(c), CheckInterrupt(c, chk)
  PROVE  /\ chk.res \in Results
         /\ line' \in [Chan -> BOOLEAN] /\ event' \in [Chan -> BOOLEAN] /\ job' = job
         /\ dropped' \subseteq Chan
         /\ \A d \in Chan \ {c} : line'[d] = line[d] /\ (d \in dropped') = (d \in dropped)
         /\ c \in dropped => c \in dropped'
         /\ line[c] /\ ~line'[c] /\ job[c] = "done" /\ (expecting[c] \/ Sending(c))
              => chk.res = "OUR" \/ c \in dropped'
         /\ chk.res = "OUR" => expecting[c]
<1>1. ChipCheck(c) \in {"IGNORE", "STOP", "UNEXPECTED"}
  BY DEF ChipCheck, FlagRegister, LinkRegister
<1>2. chk.res \in Results /\ (chk.res = "OUR" => expecting[c])
  <2>1. CASE chk \in Unread(c)
    BY <1>1, <2>1 DEF Unread, Words, Results
  <2>2. CASE chk \in Read(c)
    BY <1>1, <2>2 DEF Read, Words, Results
  <2> QED
    BY <2>1, <2>2 DEF Checks
<1>3. /\ line' = [line EXCEPT ![c] = @ /\ ~chk.reads]
      /\ event' = [event EXCEPT ![c] = FALSE] /\ job' = job
      /\ dropped' = IF Lost(c, chk) THEN dropped \cup {c} ELSE dropped
  BY DEF CheckInterrupt
<1>4. line \in [Chan -> BOOLEAN] /\ event \in [Chan -> BOOLEAN] /\ dropped \subseteq Chan
  BY DEF Typed, ChanTyped
<1>5. /\ line' \in [Chan -> BOOLEAN] /\ line'[c] = (line[c] /\ ~chk.reads)
      /\ \A d \in Chan \ {c} : line'[d] = line[d]
  BY <1>3, <1>4, Zenon
<1>6. event' \in [Chan -> BOOLEAN]
  BY <1>3, <1>4
<1>7. /\ dropped' \subseteq Chan
      /\ \A d \in Chan \ {c} : (d \in dropped') = (d \in dropped)
      /\ c \in dropped => c \in dropped'
      /\ Lost(c, chk) => c \in dropped'
  BY <1>3, <1>4
<1>8. line[c] /\ ~line'[c] /\ job[c] = "done" /\ (expecting[c] \/ Sending(c))
        => chk.res = "OUR" \/ c \in dropped'
  BY <1>5, <1>7 DEF Lost
<1> QED
  BY <1>2, <1>3, <1>5, <1>6, <1>7, <1>8

(* The ISR looks at a channel. *)
LEMMA IsrCheckStep == IInv /\ IsrCheck => IInv'
<1> SUFFICES ASSUME IInv, IsrCheck PROVE IInv'
  OBVIOUS
<1>1. PICK c \in Chan : c = IsrChan
  BY IsrProps DEF IsrCheck, InIsr
<1>2. /\ UNCHANGED <<hw, disabled, expecting, count, dpcReq, timer, first, calls, isr2>>
      /\ holder.by = "isr" /\ holder.at = "check" /\ Typed
  BY <1>1 DEF IsrCheck, InIsr, IInv
<1>3. /\ holder \in IsrHolds /\ isr2 = NotInIsr /\ isr2.at = "out" /\ Called("isr")
      /\ N \in Nat \ {0} /\ holder.k \in 0 .. N /\ holder.k < N
  BY <1>2, IsrProps
<1>4. PICK chk \in Checks(c) :
        /\ CheckInterrupt(c, chk)
        /\ \/ /\ chk.res = "IGNORE"
              /\ check' = [check EXCEPT ![c] = "IDLE"]
              /\ holder' = NextOne([holder EXCEPT !.res = chk.res])
           \/ /\ chk.res # "IGNORE"
              /\ holder' = [holder EXCEPT !.at = "handle", !.res = chk.res]
              /\ UNCHANGED check
  BY <1>1 DEF IsrCheck
<1>5. PICK res \in Results : res = chk.res
  BY <1>2, <1>4, CheckProps
<1>6. /\ line' \in [Chan -> BOOLEAN] /\ event' \in [Chan -> BOOLEAN] /\ job' = job
      /\ dropped' \subseteq Chan
      /\ \A d \in Chan \ {c} : line'[d] = line[d] /\ (d \in dropped') = (d \in dropped)
      /\ c \in dropped => c \in dropped'
      /\ line[c] /\ ~line'[c] /\ job[c] = "done" /\ expecting[c]
           => res = "OUR" \/ c \in dropped'
  BY <1>2, <1>4, <1>5, CheckProps
<1>7. /\ holder' \in IsrHolds /\ holder'.by = "isr" /\ holder'.res = res
      /\ \/ /\ holder'.at = "scan" /\ holder'.k = holder.k + 1
            /\ check' = [check EXCEPT ![c] = "IDLE"] /\ res = "IGNORE"
         \/ /\ holder'.at = "handle" /\ holder'.k = holder.k /\ holder'.k < N
            /\ check' = check
  <2>1. CASE /\ check' = [check EXCEPT ![c] = "IDLE"] /\ res = "IGNORE"
             /\ holder' = NextOne([holder EXCEPT !.res = res])
    <3> DEFINE h == [holder EXCEPT !.res = res]
    <3>1. h \in IsrHolds /\ h.res = res /\ h.k = holder.k
      BY <1>3, <1>5 DEF IsrHolds
    <3> HIDE DEF h
    <3>2. holder' = NextOne(h)
      BY <2>1 DEF h
    <3> QED
      BY <1>3, <2>1, <3>1, <3>2, NextOneProps
  <2>2. CASE /\ check' = check
             /\ holder' = [holder EXCEPT !.at = "handle", !.res = res]
    <3>1. holder' \in IsrHolds
      BY <1>3, <1>5, <2>2 DEF IsrHolds
    <3>2. /\ holder'.by = "isr" /\ holder'.at = "handle" /\ holder'.k = holder.k
          /\ holder'.res = res
      BY <1>3, <2>2 DEF IsrHolds
    <3> QED
      BY <1>3, <2>2, <3>1, <3>2
  <2> QED
    BY <1>4, <1>5, <2>1, <2>2
<1>8. Typed'
  <2>1. ChanTyped'
    BY <1>2, <1>6, <1>7 DEF Typed, ChanTyped
  <2> QED
    BY <1>2, <1>3, <1>7, <2>1 DEF Typed, Called
<1>9. ASSUME NEW d \in Chan \ {c} PROVE ChanInv(d)'
  <2>1. Untouched(d)
    BY <1>2, <1>6, <1>7 DEF Typed, ChanTyped, Untouched
  <2>2. ~AtWork(d) /\ ~AtWork(d)' /\ holder.by # "dpc"
    BY <1>1, <1>2, <1>7 DEF AtWork, Handling, Sending, InIsr, InTimer, IsrChan
  <2> QED
    BY <1>2, <2>1, <2>2, Unconcerned DEF IInv
<1>10. ChanInv(c)'
  <2>1. /\ IsrAt("check", c) /\ ~OwnedBy(c) /\ ~DpcAt(c) /\ ~TimerAt(c)
        /\ KeptInv(c) /\ LockInv(c) /\ FoundInv(c) /\ ~Sending(c) /\ ~Sending(c)'
    BY <1>1, <1>2, <1>7
       DEF IInv, ChanInv, IsrAt, OwnedBy, DpcAt, TimerAt, InIsr, InTimer, Sending
  <2>2. disabled[c] = 0 /\ check[c] = "ACTIVE" /\ ~dpcReq[c]
    BY <2>1 DEF LockInv, KeptInv
  <2>3. KeptInv(c)'
    BY <1>2, <1>6, <1>7, <2>1, <2>2 DEF KeptInv, Kept, OwnedBy, DpcAt, TimerAt, InTimer
  <2>4. LockInv(c)'
    BY <1>1, <1>2, <1>3, <1>7, <2>2 DEF Typed, ChanTyped, LockInv, Isr2At, IsrAt, TimerAt,
       InIsr, InTimer, IsrChan
  <2>5. job[c] = "done" /\ ~line'[c] => Excused(c)' \/ res = "OUR"
    <3>1. CASE ~line[c]
      BY <1>2, <1>6, <2>1, <3>1 DEF FoundInv, Excused
    <3>2. CASE line[c] /\ expecting[c]
      BY <1>6, <3>2 DEF Excused
    <3>3. CASE ~expecting[c]
      BY <1>2, <1>6, <2>1, <2>2, <3>3 DEF KeptInv, Kept, Excused
    <3> QED
      BY <1>2, <3>1, <3>2, <3>3 DEF Typed, ChanTyped
  <2>6. holder'.at = "handle" => Handling(c)'
    BY <1>1, <1>2, <1>7 DEF Handling, InIsr, IsrChan
  <2>7. FoundInv(c)'
    BY <1>2, <1>3, <1>6, <1>7, <2>1, <2>5, <2>6 DEF FoundInv, Isr2At, IsrAt, InIsr
  <2> QED
    BY <2>3, <2>4, <2>7 DEF ChanInv
<1>11. CountInv'
  BY <1>2, <1>6, <1>7, CountSame DEF IInv, Typed, ChanTyped
<1> QED
  BY <1>8, <1>9, <1>10, <1>11 DEF IInv

(* What is taken for an unexpected interrupt was excused before.           *)
LEMMA IsrHandleStep == IInv /\ IsrHandle => IInv'
<1> SUFFICES ASSUME IInv, IsrHandle PROVE IInv'
  OBVIOUS
<1>1. PICK c \in Chan : c = IsrChan
  BY IsrProps DEF IsrHandle, InIsr
<1>2. /\ UNCHANGED <<hw, first, calls, isr2>>
      /\ holder.by = "isr" /\ holder.at = "handle" /\ Typed
      /\ \/ /\ holder.res = "UNEXPECTED"
            /\ check' = [check EXCEPT ![c] = "IDLE"]
            /\ holder' = NextOne([holder EXCEPT !.status = TRUE])
            /\ UNCHANGED <<device, disabled, expecting, count, dpcReq, timer>>
         \/ /\ Handle(c, FALSE)
            /\ holder' = NextOne([holder EXCEPT !.status = @ \/ expecting[c]])
  BY <1>1 DEF IsrHandle, InIsr, IInv
<1>3. /\ holder \in IsrHolds /\ isr2 = NotInIsr /\ isr2.at = "out" /\ Called("isr")
      /\ N \in Nat \ {0} /\ holder.k \in 0 .. N /\ holder.k < N
  BY <1>2, IsrProps
<1>4. /\ KeptInv(c) /\ FoundInv(c)
      /\ disabled[c] = 0 /\ check[c] = "ACTIVE" /\ ~dpcReq[c]
      /\ ~OwnedBy(c) /\ ~DpcAt(c) /\ ~Sending(c) /\ IsrAt("handle", c)
  BY <1>1, <1>2 DEF IInv, ChanInv, LockInv, KeptInv, IsrAt, OwnedBy, DpcAt, TimerAt, InIsr,
     InTimer, Sending
<1> DEFINE passed == /\ job'[c] = job[c] /\ line'[c] = line[c] /\ check'[c] = "IDLE"
                     /\ disabled'[c] = disabled[c] /\ expecting'[c] = expecting[c]
                     /\ dpcReq'[c] = dpcReq[c] /\ timer'[c] = timer[c]
                     /\ (c \in dropped') = (c \in dropped)
                     /\ holder.res = "UNEXPECTED"
<1>5. /\ ChanTyped' /\ (Left(c, FALSE) \/ passed) /\ Counted(c)
      /\ \A d \in Chan \ {c} : Untouched(d)
  <2>1. CASE Handle(c, FALSE)
    BY <1>2, <1>4, <2>1, HandleProps DEF Typed
  <2>2. CASE /\ holder.res = "UNEXPECTED"
             /\ check' = [check EXCEPT ![c] = "IDLE"]
             /\ UNCHANGED <<device, disabled, expecting, count, dpcReq, timer>>
    BY <1>2, <2>2 DEF Typed, ChanTyped, Counted, Untouched, device
  <2> QED
    BY <1>2, <2>1, <2>2
<1>6. /\ holder' \in IsrHolds /\ holder'.by = "isr" /\ holder'.at = "scan"
      /\ holder'.k = holder.k + 1
  <2>1. PICK b \in BOOLEAN : holder' = NextOne([holder EXCEPT !.status = b])
    BY <1>2, <1>3 DEF IsrHolds
  <2> DEFINE h == [holder EXCEPT !.status = b]
  <2>2. h \in IsrHolds /\ h.k = holder.k
    BY <1>3 DEF IsrHolds
  <2>3. holder' = NextOne(h)
    BY <2>1
  <2> HIDE DEF h
  <2> QED
    BY <1>3, <2>2, <2>3, NextOneProps
<1>7. Typed'
  BY <1>2, <1>3, <1>5, <1>6 DEF Typed, Called
<1>8. ASSUME NEW d \in Chan \ {c} PROVE ChanInv(d)'
  <2>1. ~AtWork(d) /\ ~AtWork(d)' /\ holder.by # "dpc"
    BY <1>1, <1>2, <1>6 DEF AtWork, Handling, Sending, InIsr, InTimer, IsrChan
  <2> QED
    BY <1>2, <1>5, <2>1, Unconcerned DEF IInv
<1>9. ChanInv(c)'
  <2>0. ~Sending(c)' /\ Typed
    BY <1>2, <1>6 DEF Sending
  <2>1. KeptInv(c)'
    <3>1. CASE Left(c, FALSE)
      BY <1>2, <1>4, <1>6, <2>0, <3>1 DEF Left, KeptInv, Kept, OwnedBy, DpcAt, TimerAt, InTimer,
         Typed, ChanTyped
    <3>2. CASE passed
      BY <1>2, <1>4, <1>6, <2>0, <3>2 DEF KeptInv, Kept, OwnedBy, DpcAt, TimerAt, InTimer
    <3> QED
      BY <1>5, <3>1, <3>2
  <2>2. LockInv(c)'
    BY <1>2, <1>3, <1>4, <1>5, <1>6 DEF Left, LockInv, Isr2At, IsrAt, TimerAt, InIsr, InTimer
  <2>3. FoundInv(c)'
    <3>1. CASE Left(c, FALSE)
      BY <1>2, <1>3, <1>4, <1>6, <2>0, <3>1
         DEF Left, FoundInv, Isr2At, IsrAt, InIsr, KeptInv, Kept, Excused
    <3>2. CASE passed
      BY <1>2, <1>3, <1>4, <1>6, <2>0, <3>2
         DEF FoundInv, Isr2At, IsrAt, InIsr, Excused
    <3> QED
      BY <1>5, <3>1, <3>2
  <2> QED
    BY <2>1, <2>2, <2>3 DEF ChanInv
<1>10. CountInv'
  <2>1. count' <= 1 \/ (count' <= count /\ Asked \subseteq Asked')
    BY <1>2, <1>5, <1>6 DEF Counted, Asked, Untouched, Sending
  <2> QED
    BY <1>2, <1>5, <2>1, CountStep DEF IInv, Typed, ChanTyped
<1> QED
  BY <1>7, <1>8, <1>9, <1>10 DEF IInv
-----------------------------------------------------------------------------
(* The second handler: without the lock, one channel at a time.            *)
LEMMA Isr2Props ==
  ASSUME IInv, isr2.at # "out" \/ Called("isr2")
  PROVE  /\ holder.by # "isr" /\ ~InIsr("check") /\ ~InIsr("handle")
         /\ isr2.at # "out" => Called("isr2")
         /\ calls \in {<<"isr2">>, <<"isr2", "isr">>}
         /\ Tail(calls) \in {<<>>, <<"isr">>}
         /\ isr2.at = "scan" => isr2 \in Isr2Scans
         /\ isr2.at = "check" => isr2 \in Isr2Looks
         /\ isr2.at = "set" => isr2 \in Isr2Knows
         /\ N \in Nat \ {0}
<1>1. Called("isr2")
  BY DEF IInv, Typed, NotInIsr
<1>2. calls \in {<<"isr2">>, <<"isr2", "isr">>}
  BY <1>1 DEF IInv, Typed, Called
<1>3. Tail(<<"isr2">>) = <<>> /\ Tail(<<"isr2", "isr">>) = <<"isr">>
  OBVIOUS
<1>4. holder.by # "isr"
  BY <1>2 DEF IInv, Typed, Called, Free, IoHolds, TimerHolds
<1>5. /\ isr2.at = "scan" => isr2 \in Isr2Scans
      /\ isr2.at = "check" => isr2 \in Isr2Looks
      /\ isr2.at = "set" => isr2 \in Isr2Knows
  BY DEF IInv, Typed, NotInIsr, Isr2Scans, Isr2Looks, Isr2Knows
<1> QED
  BY <1>1, <1>2, <1>3, <1>4, <1>5, IntrAssumption DEF InIsr

(* A channel that the second handler neither was nor is at.                *)
LEMMA Isr2Elsewhere ==
  ASSUME NEW d \in Chan, ChanInv(d), Untouched(d), UNCHANGED <<holder, first>>,
         ~Isr2At(d), ~Isr2At(d)'
  PROVE  ChanInv(d)'
BY DEF ChanInv, KeptInv, LockInv, FoundInv, Untouched, Handling, Kept, OwnedBy, DpcAt,
       TimerAt, IsrAt, Isr2At, InIsr, InTimer, IsrChan, TimerChan, Sending, Excused

(* The second ISR is entered and left. *)
LEMMA Isr2LeaveStep == IInv /\ (Isr2Leave \/ Isr2Enter) => IInv'
<1> SUFFICES ASSUME IInv, Isr2Leave \/ Isr2Enter PROVE IInv'
  OBVIOUS
<1>1. /\ UNCHANGED <<hw, device, check, disabled, expecting, dpcReq, timer, first, holder>>
      /\ isr2 = NotInIsr \/ isr2.at = "scan"
      /\ isr2.at # "out" \/ Called("isr2")
      /\ \/ /\ isr2' = NotInIsr /\ count' \in {count, 1}
            /\ calls' \in {<<>>, Tail(calls)}
         \/ /\ isr2' = [at |-> "scan", c |-> 0, looked |-> 0, found |-> FALSE]
            /\ UNCHANGED <<count, calls>> /\ Called("isr2")
  BY DEF Isr2Leave, Isr2Enter, Returned, marks
<1>2. ChanTyped'
  BY <1>1 DEF IInv, Typed, ChanTyped, device
<1>3. Typed'
  <2>1. /\ holder.by # "isr" /\ N \in Nat \ {0}
        /\ calls \in {<<"isr2">>, <<"isr2", "isr">>}
        /\ Tail(calls) \in {<<>>, <<"isr">>}
    BY <1>1, Isr2Props
  <2>2. /\ holder = Free \/ holder \in IoHolds \/ holder \in TimerHolds
        /\ holder \in TimerHolds => /\ holder.at = "own" => holder.by = "callback"
                                    /\ holder.at # "scan" => holder.k < N
    BY <2>1 DEF IInv, Typed, IsrHolds, IoHolds, Free, TimerHolds
  <2>3. CASE isr2' = NotInIsr /\ calls' \in {<<>>, Tail(calls)}
    BY <1>1, <1>2, <2>1, <2>2, <2>3 DEF IInv, Typed
  <2>4. CASE /\ isr2' = [at |-> "scan", c |-> 0, looked |-> 0, found |-> FALSE]
             /\ UNCHANGED calls /\ Called("isr2")
    <3>1. isr2' \in Isr2Scans
      BY <2>1, <2>4 DEF Isr2Scans
    <3> QED
      BY <1>1, <1>2, <2>1, <2>2, <2>4, <3>1 DEF IInv, Typed, Called
  <2> QED
    BY <1>1, <2>3, <2>4
<1>4. ASSUME NEW d \in Chan PROVE ChanInv(d)'
  BY <1>1, Isr2Elsewhere DEF IInv, Untouched, Isr2At, NotInIsr, device
<1>5. CountInv'
  <2>1. count \in Nat /\ count' \in Nat
    BY <1>2 DEF IInv, Typed, ChanTyped
  <2>2. count' <= 1 \/ (count' <= count /\ Asked \subseteq Asked')
    BY <1>1, <2>1 DEF Asked, Sending, device
  <2> QED
    BY <2>1, <2>2, CountStep DEF IInv
<1> QED
  BY <1>3, <1>4, <1>5 DEF IInv

(* What the second handler's steps leave alone.                            *)
LEMMA Isr2Typed ==
  ASSUME IInv, isr2.at # "out",
         UNCHANGED <<hw, disabled, expecting, count, dpcReq, timer, first, holder, job>>,
         ChanTyped',
         \/ isr2' = NotInIsr /\ calls' \in {<<>>, Tail(calls)}
         \/ isr2' \in Isr2Scans \cup Isr2Looks \cup Isr2Knows /\ UNCHANGED calls
  PROVE  Typed' /\ CountInv'
<1>1. /\ holder.by # "isr" /\ Called("isr2")
      /\ calls \in {<<"isr2">>, <<"isr2", "isr">>}
      /\ Tail(calls) \in {<<>>, <<"isr">>}
  BY Isr2Props
<1>2. /\ holder = Free \/ holder \in IoHolds \/ holder \in TimerHolds
      /\ holder \in TimerHolds => /\ holder.at = "own" => holder.by = "callback"
                                  /\ holder.at # "scan" => holder.k < N
  BY <1>1 DEF IInv, Typed, IsrHolds, IoHolds, Free, TimerHolds
<1>3. Typed'
  BY <1>1, <1>2 DEF IInv, Typed, Called
<1>4. CountInv'
  BY DEF IInv, CountInv, Asked, Sending
<1> QED
  BY <1>3, <1>4

(* The second ISR marks a channel as being checked. *)
LEMMA Isr2LockStep == IInv /\ Isr2Lock => IInv'
<1> SUFFICES ASSUME IInv, Isr2Lock PROVE IInv'
  OBVIOUS
<1>1. PICK c \in Chan : c = isr2.c
  BY Isr2Props DEF Isr2Lock, Isr2Scans, Chan
<1>2. /\ UNCHANGED <<hw, device, disabled, expecting, count, dpcReq, timer, first, calls, holder>>
      /\ isr2.at = "scan" /\ isr2.c < N
      /\ \/ /\ Isr2MayLock(c)
            /\ check' = [check EXCEPT ![c] = "CHECK"]
            /\ isr2' = [isr2 EXCEPT !.at = "check", !.looked = @ + 1]
         \/ /\ isr2' = [isr2 EXCEPT !.c = @ + 1] /\ UNCHANGED check
  BY <1>1 DEF Isr2Lock
<1>3. isr2 \in Isr2Scans /\ N \in Nat \ {0} /\ isr2.c \in 0 .. N - 1 /\ holder.by # "isr"
  BY <1>1, <1>2, Isr2Props DEF Chan
<1>4. \/ /\ disabled[c] = 0 /\ check[c] = "IDLE"
         /\ check' = [check EXCEPT ![c] = "CHECK"]
         /\ isr2' \in Isr2Looks /\ isr2'.at = "check" /\ isr2'.c = c
      \/ isr2' \in Isr2Scans /\ isr2'.at = "scan" /\ UNCHANGED check
  <2>1. CASE /\ Isr2MayLock(c)
             /\ check' = [check EXCEPT ![c] = "CHECK"]
             /\ isr2' = [isr2 EXCEPT !.at = "check", !.looked = @ + 1]
    <3>1. isr2'.at = "check" /\ isr2'.c = c
      BY <1>1, <1>3, <2>1 DEF Isr2Scans
    <3>2. isr2.looked + 1 \in Nat /\ isr2.c \in Chan
      BY <1>1, <1>3 DEF Isr2Scans
    <3>3. isr2' \in Isr2Looks
      BY <1>3, <2>1, <3>2 DEF Isr2Scans, Isr2Looks
    <3> QED
      BY <2>1, <3>1, <3>3 DEF Isr2MayLock
  <2>2. CASE isr2' = [isr2 EXCEPT !.c = @ + 1] /\ UNCHANGED check
    BY <1>3, <2>2 DEF Isr2Scans
  <2> QED
    BY <1>2, <2>1, <2>2
<1>5. Typed' /\ CountInv'
  <2>1. ChanTyped'
    BY <1>2, <1>4 DEF IInv, Typed, ChanTyped, device
  <2> QED
    BY <1>2, <1>4, <2>1, Isr2Typed DEF device
<1>6. ASSUME NEW d \in Chan, d # c \/ isr2'.at = "scan" PROVE ChanInv(d)'
  <2>1. Untouched(d)
    BY <1>2, <1>4, <1>6 DEF IInv, Typed, ChanTyped, Untouched, device
  <2>2. ~Isr2At(d) /\ ~Isr2At(d)'
    BY <1>2, <1>4, <1>6 DEF Isr2At
  <2> QED
    BY <1>2, <2>1, <2>2, Isr2Elsewhere DEF IInv
<1>7. ASSUME isr2'.at # "scan" PROVE ChanInv(c)'
  <2>1. /\ disabled[c] = 0 /\ check[c] = "IDLE" /\ check'[c] = "CHECK"
        /\ isr2'.at = "check" /\ isr2'.c = c
        /\ UNCHANGED <<job, line, dropped, holder, first>>
        /\ ~IsrAt("check", c) /\ ~IsrAt("handle", c) /\ (TimerAt(c) => holder.by = "dpc")
        /\ Handling(c)' = Handling(c)
    BY <1>2, <1>3, <1>4, <1>7 DEF IInv, Typed, ChanTyped, device, IsrAt, InIsr, ChanInv, LockInv,
       Handling, InTimer, IsrChan, TimerChan
  <2>2. KeptInv(c)'
    BY <1>2, <2>1
       DEF IInv, ChanInv, KeptInv, Kept, OwnedBy, DpcAt, TimerAt, InTimer, TimerChan, Sending
  <2>3. LockInv(c)'
    BY <1>2, <2>1 DEF LockInv, Isr2At, IsrAt, TimerAt, InIsr, InTimer, IsrChan, TimerChan
  <2>4. FoundInv(c)'
    BY <1>2, <2>1 DEF IInv, ChanInv, FoundInv, Isr2At, IsrAt, InIsr, IsrChan, Sending, Excused
  <2> QED
    BY <2>2, <2>3, <2>4 DEF ChanInv
<1> QED
  BY <1>5, <1>6, <1>7 DEF IInv

(* The interrupt is taken off the device, and the result remembered.       *)
LEMMA Isr2CheckStep == IInv /\ Isr2Check => IInv'
<1> SUFFICES ASSUME IInv, Isr2Check PROVE IInv'
  OBVIOUS
<1>1. isr2 \in Isr2Looks /\ holder.by # "isr" /\ isr2.at = "check"
  BY Isr2Props DEF Isr2Check
<1>2. PICK c \in Chan : c = isr2.c
  BY <1>1 DEF Isr2Looks
<1>3. UNCHANGED <<hw, marks, first, calls, holder>> /\ Typed
  BY DEF Isr2Check, IInv
<1>4. PICK chk \in Checks(c) :
        /\ CheckInterrupt(c, chk)
        /\ isr2' = [at |-> "set", c |-> c, looked |-> isr2.looked,
                    found |-> isr2.found, res |-> chk.res]
  BY <1>2 DEF Isr2Check
<1>5. PICK res \in Results : res = chk.res
  BY <1>3, <1>4, CheckProps
<1>6. /\ line' \in [Chan -> BOOLEAN] /\ event' \in [Chan -> BOOLEAN] /\ job' = job
      /\ dropped' \subseteq Chan
      /\ \A d \in Chan \ {c} : line'[d] = line[d] /\ (d \in dropped') = (d \in dropped)
      /\ c \in dropped => c \in dropped'
      /\ line[c] /\ ~line'[c] /\ job[c] = "done" /\ (expecting[c] \/ Sending(c))
           => res = "OUR" \/ c \in dropped'
      /\ res = "OUR" => expecting[c]
  BY <1>3, <1>4, <1>5, CheckProps
<1>7. isr2' \in Isr2Knows /\ isr2'.at = "set" /\ isr2'.c = c /\ isr2'.res = res
  BY <1>1, <1>4, <1>5 DEF Isr2Looks, Isr2Knows
<1>8. Typed' /\ CountInv'
  <2>1. ChanTyped'
    BY <1>3, <1>6 DEF Typed, ChanTyped, marks
  <2> QED
    BY <1>1, <1>3, <1>6, <1>7, <2>1, Isr2Typed DEF marks
<1>9. ASSUME NEW d \in Chan \ {c} PROVE ChanInv(d)'
  <2>1. Untouched(d)
    BY <1>3, <1>6 DEF Untouched, marks
  <2>2. ~Isr2At(d) /\ ~Isr2At(d)'
    BY <1>2, <1>7 DEF Isr2At
  <2> QED
    BY <1>3, <2>1, <2>2, Isr2Elsewhere DEF IInv
<1>10. ChanInv(c)'
  <2>1. /\ UNCHANGED <<job, check, disabled, expecting, dpcReq, timer, holder, first>>
        /\ Handling(c)' = Handling(c) /\ Sending(c)' = Sending(c)
        /\ ~IsrAt("check", c)' /\ ~IsrAt("handle", c)'
    BY <1>1, <1>3, <1>6 DEF marks, Handling, InIsr, InTimer, IsrChan, TimerChan, IsrAt, Sending
  <2>2. /\ Isr2At(c) /\ Isr2At(c)' /\ KeptInv(c) /\ LockInv(c) /\ FoundInv(c)
    BY <1>1, <1>2, <1>7 DEF IInv, ChanInv, Isr2At
  <2>3. KeptInv(c)'
    BY <1>6, <2>1, <2>2 DEF KeptInv, Kept, OwnedBy, DpcAt, TimerAt, InTimer, TimerChan
  <2>4. LockInv(c)'
    BY <2>1, <2>2 DEF LockInv, IsrAt, TimerAt, InIsr, InTimer, IsrChan, TimerChan
  <2>5. ASSUME job[c] = "done", ~line'[c], res # "OUR"
        PROVE  Excused(c)' \/ Handling(c)
    <3>1. CASE ~line[c]
      BY <1>1, <1>6, <2>1, <2>2, <2>5, <3>1 DEF FoundInv, Excused
    <3>2. CASE line[c] /\ (expecting[c] \/ Sending(c))
      BY <1>6, <2>5, <3>2 DEF Excused
    <3>3. CASE ~expecting[c] /\ ~Sending(c)
      BY <1>6, <2>1, <2>2, <2>5, <3>3
         DEF KeptInv, LockInv, Kept, OwnedBy, DpcAt, TimerAt, Handling, Excused
    <3> QED
      BY <1>3, <3>1, <3>2, <3>3 DEF Typed, ChanTyped
  <2>6. Sending(c) => ~Handling(c) /\ res # "OUR"
    BY <1>6, <2>2 DEF Sending, Handling, InIsr, InTimer, KeptInv
  <2>7. FoundInv(c)'
    BY <1>7, <2>1, <2>5, <2>6 DEF FoundInv
  <2> QED
    BY <2>3, <2>4, <2>7 DEF ChanInv
<1> QED
  BY <1>8, <1>9, <1>10 DEF IInv

(* The second ISR notes what it has seen. *)
LEMMA Isr2SetStep == IInv /\ Isr2Set => IInv'
<1> SUFFICES ASSUME IInv, Isr2Set PROVE IInv'
  OBVIOUS
<1>1. isr2 \in Isr2Knows /\ holder.by # "isr" /\ isr2.at = "set" /\ N \in Nat \ {0}
  BY Isr2Props DEF Isr2Set
<1>2. PICK c \in Chan : c = isr2.c
  BY <1>1 DEF Isr2Knows
<1>3. /\ UNCHANGED <<hw, device, disabled, expecting, count, dpcReq, timer, first, holder>>
      /\ check' = [check EXCEPT ![c] = Mark(c, isr2.res)]
      /\ \/ isr2' = NotInIsr /\ calls' \in {<<>>, Tail(calls)}
         \/ /\ isr2' = [at |-> "scan", c |-> c + 1, looked |-> isr2.looked,
                        found |-> isr2.found \/ isr2.res = "OUR"]
            /\ UNCHANGED calls
  BY <1>2 DEF Isr2Set, Returned
<1>4. /\ \/ isr2' = NotInIsr /\ calls' \in {<<>>, Tail(calls)}
         \/ isr2' \in Isr2Scans /\ UNCHANGED calls
      /\ isr2'.at \in {"out", "scan"}
  <2>1. CASE isr2' = NotInIsr /\ calls' \in {<<>>, Tail(calls)}
    BY <2>1 DEF NotInIsr
  <2>2. CASE /\ isr2' = [at |-> "scan", c |-> c + 1, looked |-> isr2.looked,
                        found |-> isr2.found \/ isr2.res = "OUR"]
             /\ UNCHANGED calls
    <3>1. (isr2.found \/ isr2.res = "OUR") \in BOOLEAN /\ isr2.looked \in Nat
      BY <1>1 DEF Isr2Knows
    <3>2. c + 1 \in 0 .. N
      BY <1>1 DEF Chan
    <3> QED
      BY <2>2, <3>1, <3>2 DEF Isr2Scans
  <2> QED
    BY <1>3, <2>1, <2>2
<1>5. Typed' /\ CountInv'
  <2>1. ChanTyped'
    BY <1>3 DEF IInv, Typed, ChanTyped, device, Mark
  <2> QED
    BY <1>1, <1>3, <1>4, <2>1, Isr2Typed DEF device
<1>6. ASSUME NEW d \in Chan \ {c} PROVE ChanInv(d)'
  <2>1. Untouched(d)
    BY <1>3 DEF IInv, Typed, ChanTyped, Untouched, device
  <2>2. ~Isr2At(d) /\ ~Isr2At(d)'
    BY <1>2, <1>4 DEF Isr2At
  <2> QED
    BY <1>3, <2>1, <2>2, Isr2Elsewhere DEF IInv
<1>7. ChanInv(c)'
  <2>1. /\ UNCHANGED <<job, line, dropped, disabled, expecting, dpcReq, timer, holder, first>>
        /\ Handling(c)' = Handling(c) /\ Sending(c)' = Sending(c)
        /\ check'[c] = IF isr2.res = "OUR" THEN "DETECTED" ELSE "IDLE"
    BY <1>3 DEF IInv, Typed, ChanTyped, device, Handling, InIsr, InTimer, IsrChan, TimerChan, Mark,
                Sending
  <2>2. /\ Isr2At(c) /\ ~Isr2At(c)' /\ KeptInv(c) /\ LockInv(c) /\ FoundInv(c)
        /\ disabled[c] = 0 /\ check[c] # "ACTIVE" /\ ~dpcReq[c]
    BY <1>1, <1>2, <1>4 DEF IInv, ChanInv, Isr2At, LockInv, KeptInv
  <2>3. KeptInv(c)'
    BY <2>1, <2>2 DEF KeptInv, Kept, OwnedBy, DpcAt, TimerAt, InTimer, TimerChan
  <2>4. LockInv(c)'
    BY <1>1, <2>1, <2>2 DEF LockInv, IsrAt, TimerAt, InIsr, InTimer, IsrChan, TimerChan
  <2>5. FoundInv(c)'
    BY <1>1, <2>1, <2>2 DEF FoundInv, IsrAt, InIsr, Excused
  <2> QED
    BY <2>3, <2>4, <2>5 DEF ChanInv
<1> QED
  BY <1>5, <1>6, <1>7 DEF IInv
-----------------------------------------------------------------------------
(* The timer's calls, under the lock.                                      *)
LEMMA TimerProps ==
  ASSUME IInv, holder.by \in {"callback", "dpc", "enable"}
  PROVE  /\ holder \in TimerHolds /\ Typed /\ holder.by # "isr"
         /\ holder.at = "own" => holder.by = "callback"
         /\ holder.at # "scan" => holder.k < N
         /\ N \in Nat \ {0} /\ holder.k \in 0 .. N /\ holder.own \in Chan
         /\ holder.k < N => /\ TimerChan \in Chan
                            /\ holder.by # "callback" => TimerChan = holder.k
BY ChanOf, IntrAssumption DEF IInv, Typed, Free, IoHolds, IsrHolds, TimerHolds

(* The lock changes hands, or its holder goes on.                          *)
LEMMA TimerTyped ==
  ASSUME Typed, holder.by # "isr", ChanTyped', UNCHANGED <<hw, first, calls, isr2>>,
         \/ holder' = Free
         \/ /\ holder' \in TimerHolds
            /\ holder'.at = "own" => holder'.by = "callback"
            /\ holder'.at # "scan" => holder'.k < N
  PROVE  Typed'
BY DEF Typed, Called

(* A timer call begins. *)
LEMMA TimerEnterStep ==
  ASSUME IInv, NEW c \in Chan, TimerEnter(c)
  PROVE  IInv'
<1>1. /\ UNCHANGED <<hw, device, check, disabled, expecting, count, dpcReq, first, calls, isr2>>
      /\ holder = Free /\ timer[c] # "none" /\ timer' = [timer EXCEPT ![c] = "none"]
      /\ holder' = [by |-> timer[c], own |-> c, k |-> 0,
                    at |-> IF timer[c] = "callback" THEN "own" ELSE "scan"]
      /\ Typed /\ N \in Nat \ {0}
  BY IntrAssumption DEF TimerEnter, IInv
<1>2. timer[c] \in {"callback", "dpc", "enable"} /\ timer'[c] = "none"
  BY <1>1 DEF Typed, ChanTyped
<1>3. /\ holder'.by = timer[c] /\ holder'.own = c /\ holder'.k = 0
      /\ holder'.at = IF timer[c] = "callback" THEN "own" ELSE "scan"
      /\ holder' \in TimerHolds
  BY <1>1, <1>2 DEF TimerHolds
<1>4. ChanTyped'
  BY <1>1 DEF Typed, ChanTyped, device
<1>5. Typed'
  BY <1>1, <1>3, <1>4, TimerTyped DEF Free
<1>6. ASSUME NEW d \in Chan \ {c} PROVE ChanInv(d)'
  <2>1. Untouched(d)
    BY <1>1 DEF Typed, ChanTyped, Untouched, device
  <2>2. ~AtWork(d) /\ ~AtWork(d)' /\ holder.by # "dpc"
    BY <1>1, <1>3 DEF AtWork, Handling, Sending, InIsr, InTimer, Free
  <2> QED
    BY <1>1, <2>1, <2>2, Unconcerned DEF IInv
<1>7. ChanInv(c)'
  <2>1. /\ KeptInv(c) /\ LockInv(c) /\ FoundInv(c)
        /\ ~Handling(c) /\ ~OwnedBy(c) /\ ~DpcAt(c)
        /\ UNCHANGED <<job, line, dropped, check, disabled, expecting, dpcReq, isr2>>
    BY <1>1 DEF IInv, ChanInv, Handling, OwnedBy, DpcAt, TimerAt, InIsr, InTimer, Free, device
  <2>2. /\ timer[c] = "callback" => OwnedBy(c)' /\ Handling(c)'
        /\ ~InIsr("check")' /\ ~InIsr("handle")' /\ ~TimerAt(c)'
        /\ 0 <= c
    BY <1>2, <1>3 DEF OwnedBy, InTimer, Handling, InIsr, TimerAt, Chan
  <2>3. KeptInv(c)'
    BY <1>1, <1>2, <1>3, <2>1, <2>2 DEF KeptInv, Kept, DpcAt, Free, Sending
  <2>4. LockInv(c)'
    BY <2>1, <2>2 DEF LockInv, Isr2At, IsrAt
  <2>5. ~Sending(c)'
    BY <1>2, <1>3 DEF Sending
  <2>6. timer[c] # "callback" => timer'[c] # "callback" /\ (Excused(c)' <=> Excused(c))
    BY <1>2, <2>1 DEF Excused
  <2>7. FoundInv(c)'
    BY <2>1, <2>2, <2>5, <2>6 DEF FoundInv, Isr2At, IsrAt, Excused
  <2> QED
    BY <2>3, <2>4, <2>7 DEF ChanInv
<1>8. CountInv'
  BY <1>1, CountSame DEF IInv, Typed, ChanTyped, Free, device
<1> QED
  BY <1>5, <1>6, <1>7, <1>8 DEF IInv

(* What the channel itself asked for: nothing, or an end of its request,   *)
(* or another look at it.                                                  *)
LEMMA CallBackOwnStep == IInv /\ CallBackOwn => IInv'
<1> SUFFICES ASSUME IInv, CallBackOwn PROVE IInv'
  OBVIOUS
<1>1. /\ holder.by \in {"callback", "dpc", "enable"} /\ holder.at = "own"
      /\ holder' = [holder EXCEPT !.at = "scan"]
      /\ UNCHANGED <<hw, first, calls, isr2>>
  BY DEF CallBackOwn, InTimer
<1>2. /\ holder \in TimerHolds /\ Typed /\ holder.by = "callback"
      /\ N \in Nat \ {0} /\ holder.own \in Chan
  BY <1>1, TimerProps
<1>3. PICK c \in Chan : c = holder.own
  BY <1>2
<1>4. /\ KeptInv(c) /\ LockInv(c) /\ FoundInv(c)
      /\ OwnedBy(c) /\ timer[c] = "none" /\ ~dpcReq[c]
  BY <1>1, <1>2, <1>3 DEF IInv, ChanInv, KeptInv, OwnedBy, InTimer
<1>5. /\ ChanTyped' /\ Left(c, TRUE) /\ Counted(c)
      /\ \A d \in Chan \ {c} : Untouched(d)
  <2>1. CASE Handle(c, TRUE)
    BY <1>2, <2>1, HandleProps DEF Typed
  <2>2. CASE /\ \E r \in {Result("rdp", FALSE, check[c], disabled[c], dpcReq[c],
                                 "callback", count),
                          ReturnEnableIntr(c, "none", FALSE),
                          ReturnEnableIntr(c, "busy", TRUE)} : Set(c, r)
             /\ UNCHANGED <<line, event>>
    <3>1. /\ ChanTyped /\ line' \in [Chan -> BOOLEAN] /\ event' \in [Chan -> BOOLEAN]
          /\ \A d \in Chan \ {c} : line'[d] = line[d]
      BY <1>2, <2>2 DEF Typed, ChanTyped
    <3>2. CASE \E r \in {ReturnEnableIntr(c, "none", FALSE),
                         ReturnEnableIntr(c, "busy", TRUE)} : Set(c, r)
      <4>1. PICK r \in Outcomes(c, TRUE) : Set(c, r) /\ Gone(c, r) /\ r \in Fields
        <5>1. PICK r \in {ReturnEnableIntr(c, "none", FALSE),
                          ReturnEnableIntr(c, "busy", TRUE)} : Set(c, r)
          BY <3>2
        <5>2. r \in Outcomes(c, TRUE) /\ r.check = "IDLE" /\ r.job \in {"none", "busy"}
          <6>1. r \in Outcomes(c, TRUE)
            BY <5>1, Zenon DEF Outcomes
          <6>2. r.check = "IDLE" /\ r.job \in {"none", "busy"}
            BY <5>1 DEF ReturnEnableIntr, Result
          <6> QED
            BY <6>1, <6>2
        <5>3. r \in Fields /\ (Gone(c, r) \/ Again(c, TRUE, r))
          BY <3>1, <5>2, OutcomeProps
        <5> QED
          BY <5>1, <5>2, <5>3 DEF Again
      <4>2. /\ ChanTyped'
            /\ job'[c] = r.job /\ expecting'[c] = r.expecting /\ check'[c] = r.check
            /\ disabled'[c] = r.disabled /\ dpcReq'[c] = r.dpcReq
            /\ count' = r.count /\ (Unheard(r) => c \in dropped')
            /\ \A d \in Chan \ {c} : Untouched(d)
        BY <3>1, <4>1, SetProps
      <4> QED
        BY <4>1, <4>2 DEF Gone, Left, Counted, Unheard
    <3>3. CASE Set(c, Result("rdp", FALSE, check[c], disabled[c], dpcReq[c],
                             "callback", count))
      <4> DEFINE r == Result("rdp", FALSE, check[c], disabled[c], dpcReq[c],
                             "callback", count)
      <4>1. /\ r \in Fields
            /\ r.job = "rdp" /\ ~r.expecting /\ r.check = check[c]
            /\ r.disabled = disabled[c] /\ r.dpcReq = dpcReq[c] /\ r.timer = "callback"
            /\ r.count = count
        BY <3>1 DEF Result, Fields, ChanTyped
      <4>2. Set(c, r)
        BY <3>3
      <4> HIDE DEF r
      <4>3. /\ ChanTyped'
            /\ job'[c] = r.job /\ expecting'[c] = r.expecting /\ check'[c] = r.check
            /\ disabled'[c] = r.disabled /\ dpcReq'[c] = r.dpcReq /\ timer'[c] = r.timer
            /\ count' = r.count
            /\ \A d \in Chan \ {c} : Untouched(d)
        BY <3>1, <4>1, <4>2, SetProps
      <4> QED
        BY <3>1, <4>1, <4>3 DEF Left, Counted, ChanTyped
    <3> QED
      BY <2>2, <3>2, <3>3
  <2> QED
    BY <1>3, <2>1, <2>2 DEF CallBackOwn
<1>6. /\ holder' \in TimerHolds /\ holder'.at = "scan" /\ holder'.by = "callback"
  BY <1>1, <1>2 DEF TimerHolds
<1>7. Typed'
  BY <1>1, <1>2, <1>5, <1>6, TimerTyped
<1>8. ASSUME NEW d \in Chan \ {c} PROVE ChanInv(d)'
  <2>1. ~AtWork(d) /\ ~AtWork(d)' /\ holder.by # "dpc"
    BY <1>1, <1>2, <1>3, <1>6 DEF AtWork, Handling, Sending, InIsr, InTimer
  <2> QED
    BY <1>1, <1>5, <2>1, Unconcerned DEF IInv
<1>9. ChanInv(c)'
  <2>1. ~InIsr("check")' /\ ~InIsr("handle")' /\ ~InTimer("own")' /\ ~InTimer("handle")'
    BY <1>6 DEF InIsr, InTimer
  <2>2. Typed /\ ~Sending(c) /\ ~Sending(c)'
    BY <1>2, <1>6 DEF Sending
  <2>3. KeptInv(c)'
    BY <1>4, <1>5, <2>1, <2>2 DEF Left, KeptInv, Kept, OwnedBy, DpcAt, TimerAt, Typed, ChanTyped
  <2>4. LockInv(c)'
    BY <1>1, <1>4, <1>5, <2>1 DEF Left, LockInv, Isr2At, IsrAt, TimerAt
  <2>5. FoundInv(c)'
    BY <1>1, <1>4, <1>5, <2>1 DEF Left, FoundInv, Isr2At, IsrAt, Sending, Excused
  <2> QED
    BY <2>3, <2>4, <2>5 DEF ChanInv
<1>10. CountInv'
  <2>1. count' <= 1 \/ (count' <= count /\ Asked \subseteq Asked')
    BY <1>1, <1>5, <1>6 DEF Counted, Asked, Untouched, Sending
  <2> QED
    BY <1>2, <1>5, <2>1, CountStep DEF IInv, Typed, ChanTyped
<1> QED
  BY <1>7, <1>8, <1>9, <1>10 DEF IInv

(* The next channel is taken over, or left alone.                          *)
LEMMA TimerScanStep == IInv /\ TimerScan => IInv'
<1> SUFFICES ASSUME IInv, TimerScan PROVE IInv'
  OBVIOUS
<1>1. /\ holder.by \in {"callback", "dpc", "enable"} /\ holder.at = "scan" /\ holder.k < N
      /\ UNCHANGED <<hw, device, disabled, expecting, count, timer, first, calls, isr2>>
  BY DEF TimerScan, InTimer
<1>2. /\ holder \in TimerHolds /\ Typed /\ N \in Nat \ {0} /\ holder.k \in 0 .. N
      /\ TimerChan \in Chan
      /\ holder.by # "callback" => TimerChan = holder.k
  BY <1>1, TimerProps
<1>3. PICK c \in Chan : c = TimerChan
  BY <1>2
<1> DEFINE posted == holder.by = "dpc" /\ dpcReq[c]
           found == /\ check[c] = "DETECTED"
                    /\ holder.by = "callback" => c # holder.own
<1>4. \/ /\ posted \/ found
         /\ check' = [check EXCEPT ![c] = IF posted THEN @ ELSE "ACTIVE"]
         /\ dpcReq' = [dpcReq EXCEPT ![c] = @ /\ ~posted]
         /\ holder' = [holder EXCEPT !.at = "handle"]
      \/ /\ ~posted /\ ~found
         /\ holder' = [holder EXCEPT !.k = @ + 1]
         /\ UNCHANGED <<check, dpcReq>>
  BY <1>3 DEF TimerScan
<1>5. /\ holder' \in TimerHolds /\ holder'.by = holder.by /\ holder'.own = holder.own
      /\ \/ /\ holder'.at = "handle" /\ holder'.k = holder.k
            /\ \/ /\ posted /\ check'[c] = check[c] /\ ~dpcReq'[c]
               \/ /\ ~posted /\ check[c] = "DETECTED" /\ check'[c] = "ACTIVE"
                  /\ dpcReq'[c] = dpcReq[c]
         \/ /\ holder'.at = "scan" /\ holder'.k = holder.k + 1
            /\ ~posted /\ check'[c] = check[c] /\ dpcReq'[c] = dpcReq[c]
  <2>1. CASE /\ posted \/ found
             /\ check' = [check EXCEPT ![c] = IF posted THEN @ ELSE "ACTIVE"]
             /\ dpcReq' = [dpcReq EXCEPT ![c] = @ /\ ~posted]
             /\ holder' = [holder EXCEPT !.at = "handle"]
    <3>1. /\ holder' \in TimerHolds /\ holder'.by = holder.by /\ holder'.own = holder.own
          /\ holder'.at = "handle" /\ holder'.k = holder.k
      BY <1>2, <2>1 DEF TimerHolds
    <3>2. CASE posted
      BY <1>2, <2>1, <3>1, <3>2 DEF Typed, ChanTyped
    <3>3. CASE ~posted
      BY <1>2, <2>1, <3>1, <3>3 DEF Typed, ChanTyped
    <3> QED
      BY <3>2, <3>3
  <2>2. CASE /\ ~posted
             /\ holder' = [holder EXCEPT !.k = @ + 1]
             /\ UNCHANGED <<check, dpcReq>>
    BY <1>1, <1>2, <2>2 DEF TimerHolds
  <2> QED
    BY <1>4, <2>1, <2>2
<1>6. ChanTyped'
  BY <1>1, <1>2, <1>4 DEF Typed, ChanTyped, device
<1>7. \A d \in Chan \ {c} : Untouched(d)
  BY <1>1, <1>2, <1>4 DEF Typed, ChanTyped, Untouched, device
<1> HIDE DEF found
<1>8. Typed'
  BY <1>1, <1>2, <1>5, <1>6, TimerTyped
<1>9. /\ ~InTimer("own") /\ ~InTimer("own")'
      /\ ~InIsr("check") /\ ~InIsr("handle") /\ ~InIsr("check")' /\ ~InIsr("handle")'
      /\ ~InTimer("handle")
      /\ holder'.at = "handle" => TimerChan' = c
  BY <1>1, <1>3, <1>5 DEF InTimer, InIsr, TimerChan
<1>10. ASSUME NEW d \in Chan \ {c} PROVE ChanInv(d)'
  <2>1. ~AtWork(d) /\ ~AtWork(d)'
    BY <1>1, <1>5, <1>9 DEF AtWork, Handling, Sending, InTimer
  <2>2. holder.by = "dpc" /\ holder.k <= d => holder'.by = "dpc" /\ holder'.k <= d
    BY <1>2, <1>3, <1>5 DEF Chan
  <2> QED
    BY <1>1, <1>5, <1>7, <2>1, <2>2, Unconcerned DEF IInv
<1>11. ChanInv(c)'
  <2>1. /\ KeptInv(c) /\ LockInv(c) /\ FoundInv(c)
        /\ UNCHANGED <<job, line, dropped, disabled, expecting, timer, isr2>>
        /\ ~Handling(c) /\ ~OwnedBy(c) /\ ~DpcAt(c)
    BY <1>1, <1>9 DEF IInv, ChanInv, Handling, OwnedBy, DpcAt, TimerAt, device
  <2>2. /\ TimerAt(c)' <=> holder'.at = "handle"
        /\ Handling(c)' <=> holder'.at = "handle"
        /\ ~OwnedBy(c)' /\ ~IsrAt("check", c)' /\ ~IsrAt("handle", c)'
        /\ DpcAt(c)' <=> holder'.at = "handle" /\ holder.by = "dpc"
    BY <1>1, <1>5, <1>9 DEF TimerAt, Handling, OwnedBy, IsrAt, InTimer, DpcAt
  <2>3. holder.by = "dpc" /\ dpcReq'[c] => timer[c] = "dpc"
    BY <1>2, <1>3, <1>5, <2>1 DEF KeptInv
  <2>4. dpcReq[c] => check[c] = "ACTIVE" /\ disabled[c] > 0
    BY <2>1 DEF KeptInv
  <2>5. KeptInv(c)'
    <3>1. Kept(c) => Kept(c)'
      BY <1>5, <2>1, <2>2 DEF Kept
    <3>2. dpcReq'[c] => dpcReq[c] /\ check'[c] = check[c] /\ timer[c] = "dpc"
      BY <1>5, <2>1, <2>3, <2>4 DEF KeptInv
    <3>3. DpcAt(c)' => ~dpcReq'[c]
      BY <1>5, <2>2
    <3>4. ~Sending(c) /\ ~Sending(c)'
      BY <1>1, <1>5 DEF Sending
    <3> QED
      BY <2>1, <2>2, <3>1, <3>2, <3>3, <3>4 DEF KeptInv
  <2>6. LockInv(c)'
    BY <1>5, <2>1, <2>2, <2>4 DEF LockInv, Isr2At
  <2>7. FoundInv(c)'
    BY <1>5, <2>1, <2>2 DEF FoundInv, Isr2At, Sending, Excused
  <2> QED
    BY <2>5, <2>6, <2>7 DEF ChanInv
<1>12. CountInv'
  BY <1>1, <1>2, <1>5, CountSame DEF Typed, ChanTyped, IInv, device
<1> QED
  BY <1>8, <1>10, <1>11, <1>12 DEF IInv

(* A timer call serves a channel. *)
LEMMA TimerHandleStep == IInv /\ TimerHandle => IInv'
<1> SUFFICES ASSUME IInv, TimerHandle PROVE IInv'
  OBVIOUS
<1>1. /\ holder.by \in {"callback", "dpc", "enable"} /\ holder.at = "handle"
      /\ holder' = [holder EXCEPT !.at = "scan", !.k = @ + 1]
      /\ UNCHANGED <<hw, first, calls, isr2>>
  BY DEF TimerHandle, InTimer
<1>2. /\ holder \in TimerHolds /\ Typed /\ N \in Nat \ {0} /\ holder.k \in 0 .. N
      /\ holder.k < N /\ TimerChan \in Chan
      /\ holder.by # "callback" => TimerChan = holder.k
  BY <1>1, TimerProps
<1>3. PICK c \in Chan : c = TimerChan
  BY <1>2
<1> DEFINE inDpc == holder.by = "dpc"
<1>4. /\ KeptInv(c) /\ LockInv(c) /\ FoundInv(c)
      /\ TimerAt(c) /\ ~OwnedBy(c) /\ (DpcAt(c) <=> inDpc) /\ ~dpcReq[c]
      /\ ~inDpc => disabled[c] = 0 /\ check[c] = "ACTIVE"
  <2>1. /\ KeptInv(c) /\ LockInv(c) /\ FoundInv(c)
        /\ TimerAt(c) /\ ~OwnedBy(c) /\ (DpcAt(c) <=> inDpc)
    BY <1>1, <1>3 DEF IInv, ChanInv, TimerAt, OwnedBy, DpcAt, InTimer
  <2>2. ~inDpc => disabled[c] = 0 /\ check[c] = "ACTIVE"
    BY <2>1 DEF LockInv
  <2> QED
    BY <2>1, <2>2 DEF KeptInv
<1>5. /\ ChanTyped' /\ Left(c, inDpc) /\ Counted(c)
      /\ \A d \in Chan \ {c} : Untouched(d)
  <2>1. Handle(c, inDpc) /\ ChanTyped
    BY <1>2, <1>3 DEF TimerHandle, Typed
  <2>2. inDpc \in BOOLEAN
    OBVIOUS
  <2> HIDE DEF inDpc
  <2> QED
    BY <1>4, <2>1, <2>2, HandleProps
<1>6. /\ holder' \in TimerHolds /\ holder'.at = "scan" /\ holder'.by = holder.by
      /\ holder'.own = holder.own /\ holder'.k = holder.k + 1
  <2>1. holder.k + 1 \in 0 .. N
    BY <1>2
  <2> QED
    BY <1>1, <1>2, <2>1 DEF TimerHolds
<1>7. Typed'
  BY <1>1, <1>2, <1>5, <1>6, TimerTyped
<1>8. ~InIsr("check")' /\ ~InIsr("handle")' /\ ~InTimer("own")' /\ ~InTimer("handle")'
  BY <1>1, <1>6 DEF InIsr, InTimer
<1>9. ASSUME NEW d \in Chan \ {c} PROVE ChanInv(d)'
  <2>1. ~AtWork(d) /\ ~AtWork(d)'
    BY <1>1, <1>3, <1>8 DEF AtWork, Handling, Sending, InIsr, InTimer
  <2>2. holder.by = "dpc" /\ holder.k <= d => holder'.by = "dpc" /\ holder'.k <= d
    BY <1>2, <1>3, <1>6 DEF Chan
  <2> QED
    BY <1>1, <1>5, <1>6, <2>1, <2>2, Unconcerned DEF IInv
<1>10. ChanInv(c)'
  <2>1. Typed /\ ~Sending(c) /\ ~Sending(c)'
    BY <1>1, <1>2, <1>6 DEF Sending
  <2> HIDE DEF inDpc
  <2>2. KeptInv(c)'
    <3>1. CASE inDpc
      BY <1>4, <1>5, <1>8, <2>1, <3>1
         DEF Left, KeptInv, Kept, OwnedBy, DpcAt, TimerAt, Typed, ChanTyped
    <3>2. CASE ~inDpc
      BY <1>4, <1>5, <1>8, <2>1, <3>2
         DEF Left, KeptInv, Kept, OwnedBy, DpcAt, TimerAt, Typed, ChanTyped
    <3> QED
      BY <3>1, <3>2
  <2>3. LockInv(c)'
    BY <1>1, <1>4, <1>5, <1>8 DEF Left, LockInv, Isr2At, IsrAt, TimerAt
  <2>4. FoundInv(c)'
    BY <1>1, <1>4, <1>5, <1>8, <2>1
       DEF Left, FoundInv, LockInv, Isr2At, IsrAt, KeptInv, Kept, Excused
  <2> QED
    BY <2>2, <2>3, <2>4 DEF ChanInv
<1>11. CountInv'
  <2>1. count' <= 1 \/ (count' <= count /\ Asked \subseteq Asked')
    BY <1>1, <1>5, <1>6 DEF Counted, Asked, Untouched, Sending
  <2> QED
    BY <1>2, <1>5, <2>1, CountStep DEF IInv, Typed, ChanTyped
<1> QED
  BY <1>7, <1>9, <1>10, <1>11 DEF IInv

(* Nothing is left to the DPC when it is over.                             *)
LEMMA TimerLeaveStep == IInv /\ TimerLeave => IInv'
<1> SUFFICES ASSUME IInv, TimerLeave PROVE IInv'
  OBVIOUS
<1>1. /\ holder.by \in {"callback", "dpc", "enable"} /\ holder.at = "scan" /\ holder.k = N
      /\ holder' = Free /\ UNCHANGED <<hw, device, marks, first, calls, isr2>>
  BY DEF TimerLeave, InTimer
<1>2. Typed /\ ChanTyped' /\ CountInv' /\ (\A d \in Chan : Untouched(d)) /\ N \in Nat \ {0}
  <2>1. Typed /\ ChanTyped' /\ (\A d \in Chan : Untouched(d)) /\ N \in Nat \ {0}
    BY <1>1, IntrAssumption DEF IInv, Typed, ChanTyped, Untouched, device, marks
  <2>2. CountInv'
    BY <1>1, CountSame DEF IInv, Typed, ChanTyped, Free, device, marks
  <2> QED
    BY <2>1, <2>2
<1>3. Typed'
  BY <1>1, <1>2, TimerTyped
<1>4. ASSUME NEW d \in Chan PROVE ChanInv(d)'
  <2>1. ~AtWork(d) /\ ~AtWork(d)'
    BY <1>1 DEF AtWork, Handling, Sending, InIsr, InTimer, Free
  <2>2. ~(holder.k <= d)
    BY <1>1, <1>2 DEF Chan
  <2> QED
    BY <1>1, <1>2, <2>1, <2>2, Unconcerned DEF IInv
<1> QED
  BY <1>2, <1>3, <1>4 DEF IInv
-----------------------------------------------------------------------------
(* Every step keeps the invariant. *)
LEMMA NextIInv == IInv /\ [Next]_vars => IInv'
<1> SUFFICES ASSUME IInv, [Next]_vars PROVE IInv'
  OBVIOUS
<1>1. CASE Driver
  BY <1>1, IsrPassStep, IsrLockStep, IsrCheckStep, IsrHandleStep, CallBackOwnStep,
     TimerScanStep, TimerHandleStep, TimerLeaveStep DEF Driver
<1>2. CASE Second
  BY <1>2, Isr2LeaveStep, Isr2LockStep, Isr2CheckStep, Isr2SetStep DEF Second
<1>3. CASE Deliver \/ IsrEnter \/ Expect
  BY <1>3, DeliverStep, IsrEnterStep, ExpectStep
<1>4. ASSUME NEW c \in Chan,
             \/ Finish(c) \/ Spurious(c) \/ LinkEvent(c)
             \/ Send(c) \/ TimerEnter(c)
      PROVE  IInv'
  BY <1>4, DeviceStep, SendStep, TimerEnterStep
<1>5. CASE UNCHANGED vars
  <2>1. /\ UNCHANGED <<hw, device, marks, first, calls, holder, isr2>>
        /\ Typed
    BY <1>5 DEF vars, IInv
  <2>2. Typed' /\ CountInv'
    BY <2>1 DEF IInv, Typed, ChanTyped, Called, CountInv, Asked, Sending, device,
                marks
  <2>3. ASSUME NEW d \in Chan PROVE ChanInv(d)'
    BY <2>1, Unchanged DEF IInv, Untouched, device, marks
  <2> QED
    BY <2>2, <2>3 DEF IInv
<1> QED
  BY <1>1, <1>2, <1>3, <1>4, <1>5 DEF Next

(* The invariant holds always: every mark on a channel has an owner who    *)
(* will take it away, and every interrupt has somebody who will look.      *)
THEOREM IntrInvariant == Spec => []IInv
<1>1. Init => IInv
  BY InitIInv
<1>2. IInv /\ [Next]_vars => IInv'
  BY NextIInv
<1> QED
  BY <1>1, <1>2, PTL DEF Spec

(* Every state is typed; a channel is never silenced twice, and the hint   *)
(* counts no more interrupts than there are channels, and one.             *)
THEOREM IntrTyped == Spec => []TypeOK
<1>1. IInv => TypeOK
  <2> SUFFICES ASSUME IInv PROVE TypeOK
    OBVIOUS
  <2>1. count \in 0 .. N + 1
    BY AskedFinite, IntrAssumption DEF IInv, Typed, ChanTyped, CountInv
  <2>2. holder.by \in {"none", "io", "isr", "callback", "dpc", "enable"}
    BY DEF IInv, Typed, Free, IoHolds, IsrHolds, TimerHolds
  <2>3. isr2.at \in {"out", "scan", "check", "set"}
    BY DEF IInv, Typed, NotInIsr, Isr2Scans, Isr2Looks, Isr2Knows
  <2> QED
    BY <2>1, <2>2, <2>3 DEF IInv, Typed, ChanTyped, TypeOK
<1> QED
  BY <1>1, IntrInvariant, PTL

(* AtapiInterrupt does not spin for ever: a channel is in CHECK only while *)
(* AtapiInterrupt2 looks at it.                                            *)
THEOREM SpinningEnds == Spec => []SpinEnds
<1>1. IInv => SpinEnds
  BY DEF IInv, ChanInv, LockInv, Isr2At, SpinEnds
<1> QED
  BY <1>1, IntrInvariant, PTL

(* A channel that is kept silent has a call of the timer coming that will  *)
(* give it its interrupts back, or it is being made.                       *)
THEOREM SilenceEnds == Spec => []SilentHasCaller
<1>1. IInv => SilentHasCaller
  BY DEF IInv, ChanInv, KeptInv, Kept, OwnedBy, DpcAt, TimerAt, Handling, SilentHasCaller
<1> QED
  BY <1>1, IntrInvariant, PTL

(* An interrupt that was taken off the device, by whichever handler, is    *)
(* remembered until its request is dealt with, unless it is thrown away in *)
(* one of the ways that NotForgotten names.                                *)
THEOREM NoInterruptForgotten == Spec => []NotForgotten
<1>1. IInv => NotForgotten
  BY DEF IInv, ChanInv, FoundInv, Excused, NotForgotten
<1> QED
  BY <1>1, IntrInvariant, PTL

-----------------------------------------------------------------------------
(***************************************************************************)
(* The queue of delayed calls.  The walk and the list are defined by the   *)
(* links alone; the proofs read them through a set of channels that the    *)
(* links never leave.                                                      *)
(***************************************************************************)

DpcTyped == TypeOKDpc

(* The list stays within W, ... *)
Closed(W) == /\ firstDpc \in W \cup {NOCHAN}
             /\ \A x \in W : next[x] \in W \cup {NOCHAN}

(* ... no two links lead to the same channel, none leads to the first, ... *)
Distinct(W) == /\ \A x, y \in W : next[x] = next[y] /\ next[x] # NOCHAN => x = y
               /\ \A x \in W : next[x] = firstDpc => firstDpc = NOCHAN

(* ... each link leads to a call that is due later, ... *)
Ordered(W) == \A x \in W : next[x] # NOCHAN => due[x] <= due[next[x]]

(* ... and there is a function to call. *)
Callable(W) == \A x \in W : hasTimer[x]

Good(W) == Closed(W) /\ Distinct(W) /\ Ordered(W) /\ Callable(W)

(* While AtapiTimerDpc is in its loop and calls are left, the timer is set *)
(* or AtapiTimerDpc remembers to set it.                                   *)
Remembered == active # NOCHAN /\ firstDpc # NOCHAN => recall \/ wake # NEVER

(* Until a channel asks again while it is in the list, the list is good. *)
ListInv == relinked \/ (~halted /\ \E W \in SUBSET Chans : Good(W))

DpcInv == DpcTyped /\ TimerSet /\ Remembered /\ ListInv
-----------------------------------------------------------------------------
(* The entries the walk goes past are closed under the links to entries    *)
(* that are not due later, and they are the least such set.                *)
LEMMA PassedClosed ==
  ASSUME TypeOKDpc, NEW t \in Int
  PROVE  /\ Passed(t) \subseteq Chans
         /\ GoesPast(firstDpc, t) => firstDpc \in Passed(t)
         /\ \A y \in Passed(t) : GoesPast(next[y], t) => next[y] \in Passed(t)
PROOF
<1>1. \A y \in Passed(t) : GoesPast(next[y], t) => next[y] \in Passed(t)
  <2> SUFFICES ASSUME NEW y \in Passed(t), GoesPast(next[y], t)
               PROVE  next[y] \in Passed(t)
    OBVIOUS
  <2>1. y \in Chans /\ next[y] \in Chans
    BY DEF Passed, TypeOKDpc, GoesPast
  <2> SUFFICES ASSUME NEW S \in SUBSET Chans,
                      GoesPast(firstDpc, t) => firstDpc \in S,
                      \A z \in S : GoesPast(next[z], t) => next[z] \in S
               PROVE  next[y] \in S
    BY <2>1 DEF Passed
  <2>2. y \in S
    BY DEF Passed
  <2> QED BY <2>2
<1>2. GoesPast(firstDpc, t) => firstDpc \in Passed(t)
  BY DEF Passed, TypeOKDpc, GoesPast
<1> QED BY <1>1, <1>2 DEF Passed

(* The entries the walk goes past are the least set closed under next. *)
LEMMA PassedLeast ==
  ASSUME NEW t \in Int, NEW S \in SUBSET Chans,
         GoesPast(firstDpc, t) => firstDpc \in S,
         \A y \in S : GoesPast(next[y], t) => next[y] \in S
  PROVE  Passed(t) \subseteq S
PROOF
  BY DEF Passed

(* The walk stays within W and goes past nothing that is due later. *)
LEMMA PassedWithin ==
  ASSUME DpcTyped, NEW W \in SUBSET Chans, Closed(W), NEW t \in Int
  PROVE  \A x \in Passed(t) : x \in W /\ due[x] <= t
PROOF
<1> DEFINE S == {x \in W : due[x] <= t}
<1>1. S \in SUBSET Chans
  OBVIOUS
<1>2. GoesPast(firstDpc, t) => firstDpc \in S
  BY DEF GoesPast, Closed
<1>3. \A y \in S : GoesPast(next[y], t) => next[y] \in S
  BY DEF GoesPast, Closed
<1> HIDE DEF S
<1>4. Passed(t) \subseteq S
  BY <1>1, <1>2, <1>3, PassedLeast
<1> QED BY <1>4 DEF S

(* The walk ends: the links of the entries it goes past do not run in a    *)
(* circle, because no link leads to the first one.                         *)
LEMMA PassedHasLast ==
  ASSUME TimerAssumption, DpcTyped, NEW W \in SUBSET Chans, Closed(W), Distinct(W), NEW t \in Int, Passed(t) # {}
  PROVE  \E x \in Passed(t) : next[x] \notin Passed(t)
PROOF
<1> SUFFICES ASSUME \A x \in Passed(t) : next[x] \in Passed(t)
             PROVE  FALSE
  OBVIOUS
<1> DEFINE P == Passed(t)
           f == [x \in P |-> next[x]]
<1>1. P \subseteq Chans /\ P \subseteq W
  BY PassedClosed, PassedWithin DEF DpcTyped
<1>2. IsFiniteSet(P)
  BY <1>1, FS_Subset DEF TimerAssumption
<1>3. NOCHAN \notin P
  BY <1>1 DEF TimerAssumption
<1>4. f \in Injection(P, P)
  <2>1. f \in [P -> P]
    OBVIOUS
  <2>2. \A a, b \in P : f[a] = f[b] => a = b
    BY <1>1, <1>3 DEF Distinct
  <2> QED BY <2>1, <2>2, Fun_IsInj
<1>5. f \in Surjection(P, P)
  <2> HIDE DEF P, f
  <2> QED BY <1>2, <1>4, FS_Injection, Zenon
<1>6. firstDpc \in P
  <2> SUFFICES ASSUME ~GoesPast(firstDpc, t) PROVE FALSE
    BY PassedClosed DEF DpcTyped
  <2>1. {} \in SUBSET Chans /\ \A y \in {} : GoesPast(next[y], t) => next[y] \in {}
    OBVIOUS
  <2>2. Passed(t) \subseteq {}
    BY <2>1, PassedLeast
  <2> QED BY <2>2
<1>7. PICK x \in P : f[x] = firstDpc
  BY <1>5, <1>6 DEF Surjection
<1> QED BY <1>1, <1>3, <1>6, <1>7 DEF Distinct

(* Where the walk stops: the new entry's place is before the first entry   *)
(* that is due later, and behind an entry that is not.                     *)
Place(e, t, W) ==
  /\ e.at \in W \cup {NOCHAN}
  /\ e.prev \in W \cup {NOCHAN}
  /\ e.at # NOCHAN => due[e.at] > t
  /\ e.prev # NOCHAN => due[e.prev] <= t
  /\ e.at # NOCHAN => IF e.prev = NOCHAN THEN e.at = firstDpc ELSE next[e.prev] = e.at

(* The walk ends before the first entry that is due later. *)
LEMMA WalkEndsInPlace ==
  ASSUME TimerAssumption, DpcTyped, NEW W \in SUBSET Chans, Closed(W), Distinct(W), NEW t \in Int
  PROVE  Place(WalkEnd(t), t, W)
PROOF
<1> DEFINE P         == Passed(t)
           last      == CHOOSE x \in P : next[x] \notin P
           Behind(c) == IF c = firstDpc THEN NOCHAN ELSE CHOOSE y \in P : next[y] = c
<1>1. \A x \in P : x \in W /\ due[x] <= t
  BY PassedWithin
<1>2. CASE P = {}
  <2>1. WalkEnd(t) = [at |-> firstDpc, prev |-> NOCHAN]
    BY <1>2 DEF WalkEnd
  <2>2. ~GoesPast(firstDpc, t)
    BY <1>2, PassedClosed DEF DpcTyped
  <2>3. firstDpc # NOCHAN => due[firstDpc] \in Int
    BY DEF DpcTyped, TypeOKDpc
  <2> HIDE DEF P
  <2> QED BY <2>1, <2>2, <2>3 DEF Place, GoesPast, Closed
<1>3. CASE P # {}
  <2>1. last \in P /\ next[last] \notin P
    BY <1>3, PassedHasLast
  <2>2. WalkEnd(t) = [at   |-> next[last],
                      prev |-> IF next[last] = NOCHAN THEN Behind(last) ELSE last]
    BY <1>3 DEF WalkEnd
  <2>3. Behind(last) # NOCHAN => Behind(last) \in P
    <3> SUFFICES ASSUME last # firstDpc, \A y \in P : next[y] # last
                 PROVE  FALSE
      OBVIOUS
    <3> DEFINE S == P \ {last}
    <3>1. /\ P \subseteq Chans
          /\ GoesPast(firstDpc, t) => firstDpc \in P
          /\ \A y \in P : GoesPast(next[y], t) => next[y] \in P
      BY PassedClosed DEF DpcTyped
    <3> HIDE DEF last
    <3>2. P \subseteq S
      <4>1. S \in SUBSET Chans
        BY <3>1
      <4>2. GoesPast(firstDpc, t) => firstDpc \in S
        BY <3>1
      <4>3. \A y \in S : GoesPast(next[y], t) => next[y] \in S
        BY <3>1
      <4> HIDE DEF S
      <4> QED BY <4>1, <4>2, <4>3, PassedLeast
    <3> QED BY <2>1, <3>2
  <2>4. ~GoesPast(next[last], t)
    BY <2>1, PassedClosed DEF DpcTyped
  <2>5. last \in W /\ due[last] <= t
    BY <1>1, <2>1
  <2>6. Behind(last) # NOCHAN => Behind(last) \in W /\ due[Behind(last)] <= t
    BY <1>1, <2>3
  <2>7. next[last] \in W \cup {NOCHAN}
    BY <2>5 DEF Closed
  <2>8. next[last] # NOCHAN => due[next[last]] > t
    <3>1. next[last] # NOCHAN => due[next[last]] \in Int
      BY <2>7 DEF DpcTyped, TypeOKDpc
    <3> QED BY <2>4, <3>1 DEF GoesPast
  <2>9. NOCHAN \notin W
    BY DEF TimerAssumption
  <2> HIDE DEF P, last, Behind
  <2> QED BY <2>2, <2>5, <2>6, <2>7, <2>8, <2>9 DEF Place
<1> QED BY <1>2, <1>3

(* A walk that ends, ends at an entry or at the end of the list. *)
LEMMA WalkEndTyped ==
  ASSUME DpcTyped, NEW t \in Int, ~Endless(t)
  PROVE  WalkEnd(t).at \in Chans \cup {NOCHAN}
PROOF
<1> DEFINE P    == Passed(t)
           last == CHOOSE x \in P : next[x] \notin P
<1>1. CASE P = {}
  BY <1>1 DEF WalkEnd, DpcTyped, TypeOKDpc
<1>2. CASE P # {}
  <2>1. last \in P
    BY <1>2 DEF Endless
  <2>2. last \in Chans
    BY <2>1 DEF Passed
  <2>3. WalkEnd(t).at = next[last]
    BY <1>2 DEF WalkEnd
  <2> HIDE DEF last
  <2> QED BY <2>2, <2>3 DEF DpcTyped, TypeOKDpc
<1> QED BY <1>1, <1>2
-----------------------------------------------------------------------------
(* No channel waits at first. *)
LEMMA InitDpcInv ==
  ASSUME TimerAssumption, InitDpc
  PROVE  DpcInv
PROOF
<1>1. DpcTyped
  <2>1. MaxTime \in Nat
    BY DEF TimerAssumption
  <2>2. now \in 0..MaxTime /\ due \in [Chans -> 0..MaxTime]
    <3>1. 0 \in 0..MaxTime
      BY <2>1
    <3> QED BY <3>1 DEF InitDpc
  <2> QED BY <2>2 DEF InitDpc, DpcTyped, TypeOKDpc
<1>2. firstDpc = NOCHAN /\ ~halted
  BY DEF InitDpc
<1>3. {} \in SUBSET Chans /\ Good({})
  BY <1>2 DEF Good, Closed, Distinct, Ordered, Callable
<1> QED BY <1>1, <1>2, <1>3 DEF DpcInv, ListInv, TimerSet, Remembered

(* What is met from the first entry on is the least set the list stays in, *)
(* and it is as good as any larger one.                                    *)
LEMMA FromGood ==
  ASSUME TimerAssumption, DpcTyped, NEW W \in SUBSET Chans, Good(W)
  PROVE  From(firstDpc) \subseteq W /\ Good(From(firstDpc))
PROOF
<1> DEFINE F == From(firstDpc)
<1>1. F \subseteq W
  BY DEF From, Good, Closed
<1>2. Closed(F)
  <2>1. firstDpc \in F \cup {NOCHAN}
    BY DEF From, DpcTyped, TypeOKDpc
  <2>2. ASSUME NEW x \in F, next[x] # NOCHAN
        PROVE  next[x] \in F
    <3>1. x \in Chans /\ next[x] \in Chans
      BY <2>2 DEF From, DpcTyped, TypeOKDpc
    <3> SUFFICES ASSUME NEW S \in SUBSET Chans, firstDpc \in S \cup {NOCHAN},
                        \A y \in S : next[y] \in S \cup {NOCHAN}
                 PROVE  next[x] \in S
      BY <3>1 DEF From
    <3>2. x \in S
      BY DEF From
    <3> QED BY <2>2, <3>2
  <2> QED BY <2>1, <2>2 DEF Closed
<1> HIDE DEF F
<1>3. Distinct(F)
  BY <1>1 DEF Good, Distinct
<1>4. Ordered(F)
  BY <1>1 DEF Good, Ordered
<1>5. Callable(F)
  BY <1>1 DEF Good, Callable
<1> QED BY <1>1, <1>2, <1>3, <1>4, <1>5 DEF F, Good

(* A channel that is not in the list gets its place in the order. *)
LEMMA InsertGood ==
  ASSUME TimerAssumption, DpcTyped, NEW W \in SUBSET Chans, Good(W),
         NEW c \in Chans \ W, NEW t \in Int, Insert(c, t)
  PROVE  Good(W \cup {c})'
PROOF
<1>1. PICK e : e = WalkEnd(t) /\ Place(e, t, W)
  <2>1. Place(WalkEnd(t), t, W)
    BY WalkEndsInPlace DEF Good
  <2> QED BY <2>1
<1>2. /\ firstDpc' = IF e.prev = NOCHAN THEN c ELSE firstDpc
      /\ next' = [x \in Chans |-> IF x = c THEN e.at
                                  ELSE IF x = e.prev THEN c ELSE next[x]]
      /\ hasTimer' = [hasTimer EXCEPT ![c] = TRUE]
      /\ due' = [due EXCEPT ![c] = t]
  BY <1>1 DEF Insert
<1>3. PICK at \in W \cup {NOCHAN}, prev \in W \cup {NOCHAN} :
         at = e.at /\ prev = e.prev
  BY <1>1 DEF Place
<1>4. c \notin W /\ c # NOCHAN /\ NOCHAN \notin W
  BY DEF TimerAssumption
<1>5. /\ at # NOCHAN => due[at] > t
      /\ prev # NOCHAN => due[prev] <= t
      /\ at # NOCHAN => IF prev = NOCHAN THEN at = firstDpc ELSE next[prev] = at
  BY <1>1, <1>3 DEF Place
<1>6. firstDpc' = IF prev = NOCHAN THEN c ELSE firstDpc
  BY <1>2, <1>3
<1>7. /\ next'[c] = at
      /\ prev # NOCHAN => next'[prev] = c
      /\ \A x \in W \ {prev} : next'[x] = next[x]
  BY <1>2, <1>3, <1>4
<1>8. due'[c] = t /\ \A x \in W : due'[x] = due[x]
  BY <1>2, <1>4 DEF DpcTyped, TypeOKDpc
<1>9. Closed(W \cup {c})'
  <2>1. firstDpc' \in W \cup {c, NOCHAN}
    BY <1>6 DEF Good, Closed
  <2>2. \A x \in W \cup {c} : next'[x] \in W \cup {c, NOCHAN}
    BY <1>3, <1>4, <1>7 DEF Good, Closed
  <2> QED BY <2>1, <2>2 DEF Closed
<1>10. Distinct(W \cup {c})'
  <2>1. \A x \in W : next[x] # c
    BY <1>4 DEF Good, Closed
  <2>2. \A x \in W \ {prev} : at # NOCHAN => next[x] # at
    BY <1>4, <1>5 DEF Good, Distinct
  <2>3. ASSUME NEW x \in W \cup {c}, NEW y \in W \cup {c},
               next'[x] = next'[y], next'[x] # NOCHAN
        PROVE  x = y
    BY <1>4, <1>7, <2>1, <2>2, <2>3 DEF Good, Distinct
  <2>4. ASSUME NEW x \in W \cup {c}, next'[x] = firstDpc'
        PROVE  firstDpc' = NOCHAN
    BY <1>3, <1>4, <1>5, <1>6, <1>7, <2>1, <2>2, <2>4 DEF Good, Distinct, Closed
  <2> QED BY <2>3, <2>4 DEF Distinct
<1>11. Ordered(W \cup {c})'
  <2>1. t \in Int /\ \A x \in W : due[x] \in Int
    BY DEF DpcTyped, TypeOKDpc
  <2>2. SUFFICES ASSUME NEW x \in W \cup {c}, next'[x] # NOCHAN
                 PROVE  due'[x] <= due'[next'[x]]
    BY DEF Ordered
  <2>3. CASE x = c
    BY <1>3, <1>5, <1>7, <1>8, <2>1, <2>2, <2>3
  <2>4. CASE x = prev
    BY <1>3, <1>4, <1>5, <1>7, <1>8, <2>1, <2>2, <2>4
  <2>5. CASE x \in W \ {prev}
    BY <1>7, <1>8, <2>2, <2>5 DEF Good, Ordered, Closed
  <2> QED BY <2>3, <2>4, <2>5
<1>12. Callable(W \cup {c})'
  BY <1>2 DEF Good, Callable, DpcTyped, TypeOKDpc
<1> QED BY <1>9, <1>10, <1>11, <1>12 DEF Good

(* A channel that asks for a call: the walk ends, and unless the channel   *)
(* was in the list the list stays good.                                    *)
LEMMA QueueInv ==
  ASSUME TimerAssumption, DpcInv, NEW c \in Chans, NEW dt \in Delays,
         QueueTimerDpc(c, dt)
  PROVE  DpcInv'
PROOF
<1>1. dt \in Nat /\ DueAt(dt) \in Int /\ DueAt(dt) \in 0..MaxTime
  <2>1. dt \in Nat /\ MaxTime \in Nat
    BY DEF TimerAssumption
  <2>2. now \in 0..MaxTime /\ now + dt <= MaxTime
    BY DEF DpcInv, DpcTyped, TypeOKDpc, QueueTimerDpc
  <2> QED BY <2>1, <2>2 DEF DueAt
<1>2. PICK t : t = DueAt(dt)
  OBVIOUS
<1>3. CASE Endless(DueAt(dt)) /\ halted' = TRUE /\ UNCHANGED <<list, wake, relinked>>
  <2>1. relinked
    <3> SUFFICES ASSUME NEW W \in SUBSET Chans, Good(W)
                 PROVE  FALSE
      BY DEF DpcInv, ListInv
    <3>1. Passed(t) # {} /\ \A x \in Passed(t) : next[x] \in Passed(t)
      BY <1>2, <1>3 DEF Endless
    <3> QED BY <1>1, <1>2, <3>1, PassedHasLast DEF DpcInv, Good
  <2> QED BY <1>3, <2>1 DEF QueueTimerDpc, DpcInv, DpcTyped, TypeOKDpc, list, TimerSet,
              Remembered, ListInv
<1>4. CASE /\ ~Endless(DueAt(dt))
           /\ Insert(c, DueAt(dt))
           /\ wake' = now + (IF dt = 0 THEN 1 ELSE dt)
           /\ relinked' = (relinked \/ c \in From(firstDpc))
           /\ UNCHANGED halted
  <2>1. UNCHANGED <<now, active, recall>>
    BY DEF QueueTimerDpc
  <2>2. wake' \in 0..MaxTime + Wrap
    <3>1. MaxTime \in Nat /\ Wrap \in Nat
      BY DEF TimerAssumption
    <3>2. now \in 0..MaxTime /\ now + dt <= MaxTime /\ MaxTime < Wrap
      BY DEF DpcInv, DpcTyped, TypeOKDpc, QueueTimerDpc, TimerAssumption
    <3> QED BY <1>1, <1>4, <3>1, <3>2
  <2>3. wake' # NEVER
    BY <2>2 DEF TimerAssumption
  <2>4. WalkEnd(t).at \in Chans \cup {NOCHAN}
    BY <1>1, <1>2, <1>4, WalkEndTyped DEF DpcInv, Endless
  <2>5. DpcTyped'
    BY <1>1, <1>2, <1>4, <2>1, <2>2, <2>4 DEF DpcInv, DpcTyped, TypeOKDpc, Insert
  <2>6. ListInv'
    <3> SUFFICES ASSUME ~relinked, c \notin From(firstDpc)
                 PROVE  ~halted' /\ \E W \in SUBSET Chans : Good(W)'
      BY <1>4 DEF ListInv
    <3>1. PICK W \in SUBSET Chans : Good(W)
      BY DEF DpcInv, ListInv
    <3>2. Good(From(firstDpc)) /\ From(firstDpc) \in SUBSET Chans
      BY <3>1, FromGood DEF DpcInv
    <3>3. PICK F \in SUBSET Chans : F = From(firstDpc) /\ Good(F) /\ c \notin F
      BY <3>2
    <3>4. Good(F \cup {c})' /\ F \cup {c} \in SUBSET Chans
      BY <1>1, <1>4, <3>3, InsertGood DEF DpcInv
    <3> QED BY <1>4, <3>4 DEF DpcInv, ListInv
  <2> QED BY <2>3, <2>5, <2>6 DEF DpcInv, TimerSet, Remembered
<1> QED BY <1>3, <1>4 DEF QueueTimerDpc

(* Taking the head of a good list: the list starts at the next one. *)
LEMMA TakeHeadGood ==
  ASSUME TimerAssumption, DpcTyped, NEW W \in SUBSET Chans, Good(W), firstDpc # NOCHAN,
         TakeHead(firstDpc, next'),
         \A x \in W : next'[x] = next[x] \/ next'[x] = NOCHAN,
         NEW R \in SUBSET Chans, R = W \ {firstDpc}
  PROVE  ~halted' /\ Good(R)'
PROOF
<1>1. firstDpc \in W /\ NOCHAN \notin W
  BY DEF Good, Closed, TimerAssumption
<1>2. /\ firstDpc' = next'[firstDpc] /\ due' = due
      /\ halted' = ~hasTimer[firstDpc]
      /\ hasTimer' = [hasTimer EXCEPT ![firstDpc] = FALSE]
  BY DEF TakeHead
<1>3. R = W \ {firstDpc}
  OBVIOUS
<1>4. Closed(R)'
  <2>1. firstDpc' \in R \cup {NOCHAN}
    BY <1>1, <1>2, <1>3 DEF Good, Closed, Distinct
  <2>2. \A x \in R : next'[x] \in R \cup {NOCHAN}
    BY <1>1, <1>3 DEF Good, Closed, Distinct
  <2> QED BY <2>1, <2>2 DEF Closed
<1>5. Distinct(R)'
  <2>1. \A x, y \in R : next'[x] = next'[y] /\ next'[x] # NOCHAN => x = y
    BY <1>3 DEF Good, Distinct
  <2>2. \A x \in R : next'[x] = firstDpc' => firstDpc' = NOCHAN
    BY <1>1, <1>2, <1>3 DEF Good, Distinct
  <2> QED BY <2>1, <2>2 DEF Distinct
<1>6. Ordered(R)'
  BY <1>2, <1>3 DEF Good, Ordered
<1>7. Callable(R)' /\ ~halted'
  BY <1>1, <1>2, <1>3 DEF Good, Callable, DpcTyped, TypeOKDpc
<1> QED BY <1>3, <1>4, <1>5, <1>6, <1>7 DEF Good

(* The head of the list is taken, with what that does to the timer. *)
LEMMA TakeHeadInv ==
  ASSUME TimerAssumption, DpcTyped, ListInv, firstDpc # NOCHAN,
         TakeHead(firstDpc, next'), DpcTyped', relinked' = relinked,
         \A x \in Chans : next'[x] = next[x] \/ next'[x] = NOCHAN
  PROVE  TimerSet' /\ Remembered' /\ ListInv'
PROOF
<1>1. TimerSet' /\ Remembered'
  BY DEF TakeHead, TimerSet, Remembered, DpcTyped, TypeOKDpc, TimerAssumption
<1>2. ASSUME ~relinked
      PROVE  ~halted' /\ \E W \in SUBSET Chans : Good(W)'
  <2>1. PICK W \in SUBSET Chans : Good(W)
    BY <1>2 DEF ListInv
  <2>2. PICK R \in SUBSET Chans : R = W \ {firstDpc}
    OBVIOUS
  <2>3. ~halted' /\ Good(R)'
    BY <2>1, <2>2, TakeHeadGood
  <2> QED BY <2>3
<1> QED BY <1>1, <1>2 DEF ListInv

(* AtapiTimerDpc begins. *)
LEMMA FireInv ==
  ASSUME TimerAssumption, DpcInv, Fire
  PROVE  DpcInv'
PROOF
<1>1. CASE firstDpc = NOCHAN
  <2>1. UNCHANGED <<now, firstDpc, next, hasTimer, due, active, recall, halted, relinked>>
    BY <1>1 DEF Fire
  <2>2. wake' = NEVER /\ active = NOCHAN
    BY DEF Fire
  <2>3. ListInv'
    BY <2>1 DEF DpcInv, ListInv, Good, Closed, Distinct, Ordered, Callable
  <2> QED BY <1>1, <2>1, <2>2, <2>3 DEF DpcInv, DpcTyped, TypeOKDpc, TimerSet, Remembered
<1>2. CASE firstDpc # NOCHAN
  <2>1. TakeHead(firstDpc, next) /\ wake' = NEVER /\ UNCHANGED <<now, next, relinked>>
    BY <1>2 DEF Fire
  <2>2. firstDpc \in Chans /\ next[firstDpc] \in Chans \cup {NOCHAN}
    BY <1>2 DEF DpcInv, DpcTyped, TypeOKDpc
  <2>3. DpcTyped'
    BY <2>1, <2>2 DEF DpcInv, DpcTyped, TypeOKDpc, TakeHead
  <2>4. TakeHead(firstDpc, next') /\ \A x \in Chans : next'[x] = next[x] \/ next'[x] = NOCHAN
    BY <2>1 DEF TakeHead
  <2>5. TimerSet' /\ Remembered' /\ ListInv'
    BY <1>2, <2>1, <2>3, <2>4, TakeHeadInv DEF DpcInv
  <2> QED BY <2>3, <2>5 DEF DpcInv
<1> QED BY <1>1, <1>2

(* Cutting links keeps a good list good. *)
LEMMA CutGood ==
  ASSUME TimerAssumption, DpcTyped, NEW W \in SUBSET Chans, Good(W),
         firstDpc' = firstDpc, hasTimer' = hasTimer, due' = due,
         \A x \in W : next'[x] = next[x] \/ next'[x] = NOCHAN
  PROVE  Good(W)'
PROOF
<1>1. Closed(W)'
  BY DEF Good, Closed
<1>2. Distinct(W)'
  BY DEF Good, Distinct
<1>3. Ordered(W)' /\ Callable(W)'
  BY DEF Good, Ordered, Callable
<1> QED BY <1>1, <1>2, <1>3 DEF Good

(* A call returns to AtapiTimerDpc. *)
LEMMA ReturnInv ==
  ASSUME TimerAssumption, DpcInv, Return
  PROVE  DpcInv'
PROOF
<1>1. /\ active \in Chans /\ next' = [next EXCEPT ![active] = NOCHAN]
      /\ now' = now /\ relinked' = relinked /\ ~halted
  BY DEF Return, DpcInv, DpcTyped, TypeOKDpc
<1>2. next' \in [Chans -> Chans \cup {NOCHAN}]
  BY <1>1 DEF DpcInv, DpcTyped, TypeOKDpc
<1>3. \A x \in Chans : next'[x] = next[x] \/ next'[x] = NOCHAN
  BY <1>1 DEF DpcInv, DpcTyped, TypeOKDpc
<1>4. ASSUME UNCHANGED <<firstDpc, hasTimer, due, halted>>
      PROVE  ListInv'
  <2> SUFFICES ASSUME ~relinked
               PROVE  \E W \in SUBSET Chans : Good(W)'
    BY <1>1, <1>4 DEF ListInv
  <2>1. PICK W \in SUBSET Chans : Good(W)
    BY DEF DpcInv, ListInv
  <2>2. Good(W)'
    BY <1>3, <1>4, <2>1, CutGood DEF DpcInv
  <2> QED BY <2>2
<1>5. CASE /\ firstDpc = NOCHAN
           /\ active' = NOCHAN
           /\ recall' = FALSE
           /\ UNCHANGED <<firstDpc, hasTimer, due, wake, halted>>
  <2>1. DpcTyped'
    BY <1>1, <1>2, <1>5 DEF DpcInv, DpcTyped, TypeOKDpc
  <2>2. ListInv'
    BY <1>4, <1>5
  <2> QED BY <1>5, <2>1, <2>2 DEF DpcInv, TimerSet, Remembered
<1>6. CASE /\ firstDpc # NOCHAN
           /\ now >= due[firstDpc] - Slack
           /\ TakeHead(firstDpc, next')
           /\ UNCHANGED wake
  <2>1. firstDpc \in Chans /\ next'[firstDpc] \in Chans \cup {NOCHAN}
    BY <1>2, <1>6 DEF DpcInv, DpcTyped, TypeOKDpc
  <2>2. DpcTyped'
    BY <1>1, <1>2, <1>6, <2>1 DEF DpcInv, DpcTyped, TypeOKDpc, TakeHead
  <2>3. TimerSet' /\ Remembered' /\ ListInv'
    BY <1>1, <1>3, <1>6, <2>2, TakeHeadInv DEF DpcInv
  <2> QED BY <2>2, <2>3 DEF DpcInv
<1>7. CASE /\ firstDpc # NOCHAN
           /\ now < due[firstDpc] - Slack
           /\ active' = NOCHAN
           /\ recall' = FALSE
           /\ wake' = IF recall THEN now + Wrap - (due[firstDpc] - now) ELSE wake
           /\ UNCHANGED <<firstDpc, hasTimer, due, halted>>
  <2>1. now \in 0..MaxTime /\ due[firstDpc] \in 0..MaxTime /\ now < due[firstDpc]
    BY <1>7 DEF DpcInv, DpcTyped, TypeOKDpc, TimerAssumption
  <2>2. now + Wrap - (due[firstDpc] - now) \in 0..MaxTime + Wrap
    BY <2>1 DEF TimerAssumption
  <2>3. wake' \in 0..MaxTime + Wrap
    BY <1>1, <1>7, <2>2 DEF DpcInv, Remembered, DpcTyped, TypeOKDpc, TimerAssumption
  <2>4. wake' # NEVER
    BY <2>3 DEF TimerAssumption
  <2>5. DpcTyped'
    BY <1>1, <1>2, <1>7, <2>3 DEF DpcInv, DpcTyped, TypeOKDpc
  <2>6. ListInv'
    BY <1>4, <1>7
  <2> QED BY <1>7, <2>4, <2>5, <2>6 DEF DpcInv, TimerSet, Remembered
<1> QED BY <1>5, <1>6, <1>7 DEF Return

(* Every step keeps the invariant. *)
LEMMA NextDpcInv ==
  ASSUME TimerAssumption, DpcInv, [NextDpc]_dpcVars
  PROVE  DpcInv'
PROOF
<1>1. CASE Fire
  BY <1>1, FireInv
<1>2. CASE Return
  BY <1>2, ReturnInv
<1>3. CASE Tick \/ UNCHANGED dpcVars
  <2>1. now' \in 0..MaxTime
    BY <1>3 DEF Tick, dpcVars, DpcInv, DpcTyped, TypeOKDpc, TimerAssumption
  <2>2. UNCHANGED <<firstDpc, next, hasTimer, due, wake, active, recall, halted, relinked>>
    BY <1>3 DEF Tick, dpcVars, list
  <2>3. ListInv'
    BY <2>2 DEF DpcInv, ListInv, Good, Closed, Distinct, Ordered, Callable
  <2> QED BY <2>1, <2>2, <2>3 DEF DpcInv, DpcTyped, TypeOKDpc, TimerSet, Remembered
<1>4. CASE \E c \in Chans, dt \in Delays : QueueTimerDpc(c, dt)
  BY <1>4, QueueInv
<1> QED BY <1>1, <1>2, <1>3, <1>4 DEF NextDpc

(* The timer is set or remembered, and the list is good until a channel    *)
(* asks again while it is in the list.                                     *)
THEOREM TimerInvariant == SpecDpc => []DpcInv
PROOF
<1>1. InitDpc => DpcInv
  BY TimerAssumption, InitDpcInv
<1>2. DpcInv /\ [NextDpc]_dpcVars => DpcInv'
  BY TimerAssumption, NextDpcInv
<1> QED BY <1>1, <1>2, PTL DEF SpecDpc
-----------------------------------------------------------------------------
(* The queue is well typed: no time runs past the bounds of the clock and  *)
(* of a ULONG difference.                                                  *)
THEOREM DelaysTyped == SpecDpc => []TypeOKDpc
PROOF
<1>1. DpcInv => TypeOKDpc
  BY DEF DpcInv, DpcTyped
<1> QED BY <1>1, TimerInvariant, PTL

(* AtapiTimerDpc never calls an empty HwScsiTimer, and the walk of         *)
(* AtapiQueueTimerDpc ends, until a channel asks for a call while it is in *)
(* the list; a channel that was lost from the list may ask again.          *)
THEOREM OnlyWaitingAreCalled == SpecDpc => []NeverCallsNull
PROOF
<1>1. DpcInv => NeverCallsNull
  <2> SUFFICES ASSUME DpcInv, ~relinked
               PROVE  ~halted /\ \A c \in From(firstDpc) : hasTimer[c]
    BY DEF NeverCallsNull
  <2>1. PICK W \in SUBSET Chans : Good(W)
    BY DEF DpcInv, ListInv
  <2>2. Good(From(firstDpc))
    BY TimerAssumption, <2>1, FromGood DEF DpcInv
  <2> QED BY <2>2 DEF DpcInv, ListInv, Good, Callable
<1> QED BY <1>1, TimerInvariant, PTL

(* AtapiTimerDpc never leaves calls in the list without setting the timer. *)
THEOREM TimerIsSet == SpecDpc => []TimerSet
PROOF
<1>1. DpcInv => TimerSet
  BY DEF DpcInv
<1> QED BY <1>1, TimerInvariant, PTL

(* AtapiQueueTimerDpc keeps the list in order of time, until a channel     *)
(* asks for a call while it is in the list.                                *)
THEOREM ListInOrder == SpecDpc => []InOrder
PROOF
<1>1. DpcInv => InOrder
  <2> SUFFICES ASSUME DpcInv, ~relinked
               PROVE  \A c \in From(firstDpc) :
                        next[c] # NOCHAN => due[c] <= due[next[c]]
    BY DEF InOrder
  <2>1. PICK W \in SUBSET Chans : Good(W)
    BY DEF DpcInv, ListInv
  <2>2. Good(From(firstDpc))
    BY TimerAssumption, <2>1, FromGood DEF DpcInv
  <2> QED BY <2>2 DEF Good, Ordered
<1> QED BY <1>1, TimerInvariant, PTL
=============================================================================
