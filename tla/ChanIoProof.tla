---------------------------- MODULE ChanIoProof ----------------------------
(***************************************************************************)
(* Proofs about ChanIo, for any number of requests of any kinds, any       *)
(* faults and any costs: each SRB is completed once, the queue holds the   *)
(* requests that are not completed, and the loop of AtapiStartIo__ does    *)
(* not take up what the hardware executes.                                 *)
(*                                                                         *)
(* Two paths of the code break this; the theorems name them as hypotheses. *)
(* A PIO write whose DRQ never comes is removed twice (id_ata.cpp 7155),   *)
(* and a SMART request that is executed keeps the state QUEUED, so that it *)
(* is queued again after a call that is answered at once (10333).          *)
(***************************************************************************)
EXTENDS ChanIo, ReqQueueProof

RemovedOnce == "refuse" \in Faults => \A r \in Reqs : Kind[r] # "pio"

QueuedOnce ==
  (\E r \in Reqs : Kind[r] = "smart") => Faults \cap {"abort", "resetDevice", "immediate"} = {}

Undisturbed == RemovedOnce /\ QueuedOnce

(* The requests in the lists of queue c. *)
In(c) == {r \in Reqs : r \in Elements(List(c, Lun(r)))}

Sound(c) == HasLists(c, [l \in Luns |-> List(c, l)])

(* Nobody but r is in a state in which the loop would take it up, SMART    *)
(* requests excepted.                                                      *)
Settled(c, r) ==
  \A y \in In(c) : /\ c.state[y] # "NONE"
                   /\ y # r /\ Kind[y] # "smart" => c.state[y] # "QUEUED"

(* The queue is c, the port driver waits for o, the loop has rn in hand:   *)
(* a new request, which is not queued yet, or the current one.             *)
Good(c, o, rn) ==
  /\ Sound(c) /\ Settled(c, rn.srb)
  /\ o \in [Reqs -> {0, 1}]
  /\ rn \in [srb : Reqs \cup {NULL}, top : BOOLEAN]
  /\ \A y \in Reqs : o[y] = 1 <=> y \in In(c) \/ (rn.srb = y /\ rn.top)
  /\ rn.srb # NULL => IF rn.top THEN rn.srb \notin In(c) ELSE rn.srb = c.cur

IInv ==
  /\ Good(queue, owed, run)
  /\ dev \in Reqs \cup {NULL} /\ expect \in BOOLEAN
  /\ tries \in [Reqs -> 0..MaxRetries - 1] /\ parts \in [Reqs -> Nat]

(* x is queued and its command was sent. *)
Sent(c, x) == x \in In(c) /\ c.state[x] = "EXPECTING"

(* What the hardware executes is queued and marked as expecting, except    *)
(* during a bus reset, which empties the queue first.                      *)
DevInv == dev # NULL /\ run # Resetting => Sent(queue, dev) /\ run.srb # dev

(* Without bus resets: only the current request is executed, and nothing   *)
(* is while the loop has it in hand.                                       *)
CurInv == /\ dev # NULL => queue.cur = dev
          /\ dev # NULL => run.srb = NULL \/ run.top

BusyInv == (run.srb = NULL \/ run.top) /\ queue.total > 0 => dev # NULL
-----------------------------------------------------------------------------
(* What the queue operations do to the requests in the lists. *)

(* The lists are those the links lead through. *)
LEMMA SoundIs ==
  ASSUME NEW c, NEW L, HasLists(c, L)
  PROVE  /\ Sound(c)
         /\ \A r \in Reqs : r \in In(c) <=> r \in Elements(L[Lun(r)])
         /\ \A l \in Luns : List(c, l) = L[l]
PROOF
<1>1. \A l \in Luns : List(c, l) = L[l]
  BY ConstantsAre, ListIs
<1>2. PICK M : M = [l \in Luns |-> List(c, l)]
  OBVIOUS
<1>3. M = L
  BY <1>1, <1>2 DEF HasLists
<1>4. \A r \in Reqs : List(c, Lun(r)) = L[Lun(r)]
  BY <1>1, ConstantsAre, LunType
<1> QED BY <1>1, <1>2, <1>3, <1>4 DEF Sound, In

(* The same, to name the lists. *)
LEMMA SoundHas ==
  ASSUME NEW c, Sound(c)
  PROVE  \E L : /\ HasLists(c, L)
                /\ \A r \in Reqs : r \in In(c) <=> r \in Elements(L[Lun(r)])
                /\ \A l \in Luns : List(c, l) = L[l]
PROOF
<1>1. PICK L : L = [l \in Luns |-> List(c, l)]
  OBVIOUS
<1>2. HasLists(c, L)
  BY <1>1 DEF Sound
<1> QED BY <1>2, SoundIs

(* The types of what the actions look at. *)
LEMMA SoundTypes ==
  ASSUME NEW c, Sound(c)
  PROVE  /\ c \in QueueRecords /\ c.state \in [Reqs -> ReqStates]
         /\ c.cur \in Reqs \cup {NULL} /\ c.total \in Nat
         /\ c.total = 0 <=> c.cur = NULL
PROOF
  BY DEF Sound, HasLists, QueueRecords

(* The lists hold requests. *)
LEMMA InType ==
  ASSUME NEW c
  PROVE  In(c) \subseteq Reqs
PROOF
  BY DEF In

(* The current request is in a list. *)
LEMMA CurIn ==
  ASSUME NEW c, Sound(c), c.cur # NULL
  PROVE  c.cur \in In(c)
PROOF
<1>1. PICK L : HasLists(c, L) /\ \A r \in Reqs : r \in In(c) <=> r \in Elements(L[Lun(r)])
  BY SoundHas
<1>2. PICK r \in Reqs : r = c.cur
  BY <1>1 DEF HasLists, QueueRecords
<1>3. PICK l \in Luns : l = Lun(r)
  BY ConstantsAre, LunType
<1>4. r = c.first[l] /\ IsList(c, l, L[l]) /\ L[l] \in Seq(Reqs)
  BY <1>1, <1>2, <1>3 DEF HasLists
<1>5. r \in Elements(L[l])
  <2>1. r # NULL
    BY <1>2
  <2>2. Len(L[l]) # 0 /\ r = L[l][1]
    BY <1>4, <2>1 DEF IsList
  <2>3. 1 \in 1..Len(L[l])
    BY <1>4, <2>2
  <2> QED BY <2>2, <2>3 DEF Elements
<1> QED BY <1>1, <1>2, <1>3, <1>5

(* Every list has as many elements as the depth says. *)
LEMMA DepthIs ==
  ASSUME NEW c, Sound(c), NEW l \in Luns
  PROVE  c.depth[l] = Cardinality(Elements(List(c, l)))
PROOF
<1>1. PICK L : HasLists(c, L) /\ List(c, l) = L[l]
  BY SoundHas
<1>2. PICK s \in Seq(Reqs) : s = L[l] /\ IsList(c, l, s)
  BY <1>1 DEF HasLists
<1>3. PICK n \in Nat : n = Len(s) /\ s \in [1..n -> Reqs]
  BY LenProperties
<1>4. \A i, j \in 1..n : s[i] = s[j] => i = j
  BY <1>2, <1>3 DEF IsList
<1>5. PICK E : E = Elements(s)
  OBVIOUS
<1>6. s \in Bijection(1..n, E)
  <2>1. s \in [1..n -> E]
    BY <1>3, <1>5 DEF Elements
  <2>2. \A x \in E : \E i \in 1..n : s[i] = x
    BY <1>3, <1>5 DEF Elements
  <2> QED BY <1>4, <2>1, <2>2, Fun_IsBij
<1>7. Cardinality(1..n) = n /\ IsFiniteSet(1..n)
  BY FS_Interval
<1>8. Cardinality(E) = n
  BY <1>6, <1>7, FS_Bijection DEF ExistsBijection
<1>9. c.depth[l] = n
  BY <1>2, <1>3 DEF IsList
<1> QED BY <1>1, <1>2, <1>5, <1>8, <1>9

(* A queued request is in the queue, the others stay.                      *)
LEMMA QueueKeeps ==
  ASSUME NEW c, Sound(c), NEW r \in Reqs, r \notin In(c)
  PROVE  /\ Sound(QueueRequest(c, r)) /\ In(QueueRequest(c, r)) = In(c) \cup {r}
         /\ QueueRequest(c, r).state = c.state
         /\ QueueRequest(c, r).total = c.total + 1
         /\ QueueRequest(c, r).cur = IF c.total = 0 THEN r ELSE c.cur
PROOF
<1>1. PICK L : HasLists(c, L) /\ \A x \in Reqs : x \in In(c) <=> x \in Elements(L[Lun(x)])
  BY SoundHas
<1>2. PICK l \in Luns : l = Lun(r)
  BY ConstantsAre, LunType
<1>3. PICK s \in Seq(Reqs) : s = L[l]
  BY <1>1 DEF HasLists
<1>4. PICK n \in Nat : n = Len(s)
  BY LenProperties
<1>5. PICK d : d = QueueRequest(c, r)
  OBVIOUS
<1>6. c.depth[l] = n
  <2>1. IsList(c, l, s)
    BY <1>1, <1>3 DEF HasLists
  <2> QED BY <1>4, <2>1 DEF IsList
<1>7. \E t : /\ HasLists(d, [L EXCEPT ![l] = t])
             /\ Elements(t) = Elements(s) \cup {r}
             /\ d.state = c.state /\ d.total = c.total + 1
             /\ d.cur = IF c.total = 0 THEN r ELSE c.cur
  <2>1. CASE n = 0
    <3>1. c.depth[Lun(r)] = 0
      BY <1>2, <1>6, <2>1
    <3>2. /\ HasLists(QueueRequest(c, r), [L EXCEPT ![Lun(r)] = <<r>>])
          /\ QueueRequest(c, r).state = c.state
          /\ QueueRequest(c, r).total = c.total + 1
          /\ QueueRequest(c, r).cur = IF c.total = 0 THEN r ELSE c.cur
      BY <1>1, <3>1, ConstantsAre, QueueFirstLists
    <3>3. Elements(s) = {}
      BY <1>4, <2>1 DEF Elements
    <3>4. Elements(<<r>>) = {r}
      <4>1. Len(<<r>>) = 1 /\ <<r>>[1] = r
        OBVIOUS
      <4>2. \A i \in 1..1 : i = 1
        OBVIOUS
      <4> QED BY <4>1, <4>2 DEF Elements
    <3>5. Elements(<<r>>) = Elements(s) \cup {r}
      BY <3>3, <3>4
    <3>6. /\ HasLists(d, [L EXCEPT ![l] = <<r>>])
          /\ d.state = c.state /\ d.total = c.total + 1
          /\ d.cur = IF c.total = 0 THEN r ELSE c.cur
      BY <1>2, <1>5, <3>2
    <3> QED BY <3>5, <3>6
  <2>2. CASE n # 0
    <3>1. r \notin Elements(s)
      BY <1>1, <1>2, <1>3
    <3>2. PICK p \in Nat :
            /\ p \in 1..n
            /\ MayBeBehind(Entered(c, r), r, s, p)
            /\ HasLists(QueueRequest(c, r), [L EXCEPT ![l] = Inserted(s, p, r)])
            /\ QueueRequest(c, r).ttl = AgedTtl(c, s, n, p, r)
            /\ QueueRequest(c, r).state = c.state
            /\ QueueRequest(c, r).wait = c.wait
            /\ QueueRequest(c, r).depth = [c.depth EXCEPT ![l] = n + 1]
            /\ QueueRequest(c, r).total = c.total + 1
            /\ QueueRequest(c, r).cur = IF c.total = 0 THEN r ELSE c.cur
      BY <1>1, <1>2, <1>3, <1>4, <1>6, <2>2, <3>1, ConstantsAre, QueueBehindLists
    <3>3. Elements(Inserted(s, p, r)) = Elements(s) \cup {r}
      <4>1. p <= n
        BY <3>2
      <4> QED BY <1>4, <4>1, InsertedElements
    <3> QED BY <1>5, <3>2, <3>3
  <2> QED BY <2>1, <2>2
<1>8. PICK t : /\ HasLists(d, [L EXCEPT ![l] = t])
               /\ Elements(t) = Elements(s) \cup {r}
               /\ d.state = c.state /\ d.total = c.total + 1
               /\ d.cur = IF c.total = 0 THEN r ELSE c.cur
  BY <1>7
<1>9. PICK M : M = [L EXCEPT ![l] = t]
  OBVIOUS
<1>10. M[l] = t /\ \A k \in Luns : k # l => M[k] = L[k]
  BY <1>1, <1>9 DEF HasLists
<1>11. Sound(d) /\ \A x \in Reqs : x \in In(d) <=> x \in Elements(M[Lun(x)])
  BY <1>8, <1>9, SoundIs
<1>12. \A x \in Reqs : x \in In(d) <=> x \in In(c) \/ x = r
  <2>1. ASSUME NEW x \in Reqs PROVE x \in In(d) <=> x \in In(c) \/ x = r
    <3>1. Lun(x) \in Luns
      BY ConstantsAre, LunType
    <3> QED BY <1>1, <1>2, <1>3, <1>8, <1>10, <1>11, <3>1
  <2> QED BY <2>1
<1>13. In(d) = In(c) \cup {r}
  BY <1>12, InType
<1> QED BY <1>5, <1>8, <1>11, <1>13

(* A removed request is not, and the others stay.                          *)
LEMMA RemoveKeeps ==
  ASSUME NEW c, Sound(c), NEW r \in Reqs, r \in In(c), c.state[r] # "NONE"
  PROVE  /\ Sound(RemoveRequest(c, r)) /\ In(RemoveRequest(c, r)) = In(c) \ {r}
         /\ RemoveRequest(c, r).state = [c.state EXCEPT ![r] = "NONE"]
PROOF
<1>1. PICK L : HasLists(c, L) /\ \A x \in Reqs : x \in In(c) <=> x \in Elements(L[Lun(x)])
  BY SoundHas
<1>2. PICK l \in Luns : l = Lun(r)
  BY ConstantsAre, LunType
<1>3. PICK s \in Seq(Reqs) : s = L[l]
  BY <1>1 DEF HasLists
<1>4. PICK n \in Nat : n = Len(s)
  BY LenProperties
<1>5. r \in Elements(s)
  BY <1>1, <1>2, <1>3
<1>6. PICK p \in Nat : p \in 1..n /\ s[p] = r
  BY <1>4, <1>5 DEF Elements
<1>7. p \in 1..Len(L[Lun(r)]) /\ L[Lun(r)][p] = r
  BY <1>2, <1>3, <1>4, <1>6
<1>8. PICK d, m : IsRemoved(c, L, r, p, d, m)
  BY <1>1, <1>7, ConstantsAre, RemoveLists
<1>9. PICK M : M = [L EXCEPT ![l] = Removed(s, p)]
  OBVIOUS
<1>10. HasLists(d, M) /\ d = RemoveRequest(c, r) /\ d.state = [c.state EXCEPT ![r] = "NONE"]
  BY <1>2, <1>3, <1>8, <1>9 DEF IsRemoved
<1>11. M[l] = Removed(s, p) /\ \A k \in Luns : k # l => M[k] = L[k]
  BY <1>1, <1>9 DEF HasLists
<1>12. Elements(Removed(s, p)) = Elements(s) \ {r}
  <2>1. \A i, j \in 1..n : s[i] = s[j] => i = j
    BY <1>1, <1>3, <1>4 DEF HasLists, IsList
  <2> QED BY <1>4, <1>6, <2>1, RemovedElements
<1>13. Sound(d) /\ \A x \in Reqs : x \in In(d) <=> x \in Elements(M[Lun(x)])
  BY <1>10, SoundIs
<1>14. \A x \in Reqs : x \in In(d) <=> x \in In(c) /\ x # r
  <2>1. ASSUME NEW x \in Reqs PROVE x \in In(d) <=> x \in In(c) /\ x # r
    <3>1. Lun(x) \in Luns
      BY ConstantsAre, LunType
    <3> QED BY <1>1, <1>2, <1>3, <1>11, <1>12, <1>13, <3>1
  <2> QED BY <2>1
<1>15. In(d) = In(c) \ {r}
  BY <1>14, InType
<1> QED BY <1>10, <1>13, <1>15

(* Setting the state of a request changes no list. *)
LEMMA StateKeeps ==
  ASSUME NEW c, Sound(c), NEW r \in Reqs, NEW st \in ReqStates
  PROVE  /\ Sound(InState(c, r, st)) /\ In(InState(c, r, st)) = In(c)
         /\ InState(c, r, st).state = [c.state EXCEPT ![r] = st]
         /\ InState(c, r, st).cur = c.cur /\ InState(c, r, st).total = c.total
PROOF
<1>1. PICK L : HasLists(c, L) /\ \A x \in Reqs : x \in In(c) <=> x \in Elements(L[Lun(x)])
  BY SoundHas
<1>2. PICK d : d = InState(c, r, st)
  OBVIOUS
<1>3. PICK f : f = [c.state EXCEPT ![r] = st]
  OBVIOUS
<1>4. f \in [Reqs -> ReqStates] /\ c \in QueueRecords
  BY <1>3, SoundTypes
<1>5. d = [c EXCEPT !.state = f]
  BY <1>2, <1>3 DEF InState
<1>6. /\ d \in QueueRecords /\ d.state = f
      /\ d.first = c.first /\ d.last = c.last /\ d.depth = c.depth
      /\ d.next = c.next /\ d.prev = c.prev
      /\ d.total = c.total /\ d.cur = c.cur
  BY <1>4, <1>5 DEF QueueRecords
<1>7. HasLists(d, L)
  BY <1>1, <1>6, SameLists
<1>8. Sound(d) /\ \A x \in Reqs : x \in In(d) <=> x \in In(c)
  BY <1>1, <1>7, SoundIs
<1>9. In(d) = In(c)
  BY <1>8, InType
<1> QED BY <1>2, <1>3, <1>6, <1>8, <1>9

(* AtapiStartIo clears the extension of a new SRB. *)
Renewed(c, r) ==
  [c EXCEPT !.next[r] = NULL, !.prev[r] = NULL, !.ttl[r] = 0, !.state[r] = "NONE"]

(* The request is in no list, so no list changes. *)
LEMMA RenewKeeps ==
  ASSUME NEW c, Sound(c), NEW r \in Reqs, r \notin In(c)
  PROVE  /\ Sound(Renewed(c, r)) /\ In(Renewed(c, r)) = In(c)
         /\ Renewed(c, r).state = [c.state EXCEPT ![r] = "NONE"]
         /\ Renewed(c, r).cur = c.cur /\ Renewed(c, r).total = c.total
PROOF
<1>1. PICK L : HasLists(c, L) /\ \A x \in Reqs : x \in In(c) <=> x \in Elements(L[Lun(x)])
  BY SoundHas
<1>2. PICK e : e = Cleared(c, r)
  OBVIOUS
<1>3. /\ HasLists(e, L) /\ e.state = c.state /\ e.cur = c.cur /\ e.total = c.total
  <2>1. r \notin Elements(L[Lun(r)])
    BY <1>1
  <2>2. /\ HasLists(Cleared(c, r), L) /\ Cleared(c, r).state = c.state
        /\ Cleared(c, r).cur = c.cur /\ Cleared(c, r).total = c.total
    BY <1>1, <2>1, ConstantsAre, ClearedLists
  <2> QED BY <1>2, <2>2
<1>4. Sound(e) /\ In(e) = In(c)
  <2>1. Sound(e) /\ \A x \in Reqs : x \in In(e) <=> x \in In(c)
    BY <1>1, <1>3, SoundIs
  <2> QED BY <2>1, InType
<1>5. Renewed(c, r) = InState(e, r, "NONE")
  <2>1. c \in QueueRecords
    BY SoundTypes
  <2> QED BY <1>2, <2>1 DEF Renewed, Cleared, InState, QueueRecords
<1>6. "NONE" \in ReqStates
  BY DEF ReqStates
<1>7. /\ Sound(InState(e, r, "NONE")) /\ In(InState(e, r, "NONE")) = In(e)
      /\ InState(e, r, "NONE").state = [e.state EXCEPT ![r] = "NONE"]
      /\ InState(e, r, "NONE").cur = e.cur /\ InState(e, r, "NONE").total = e.total
  BY <1>4, <1>6, StateKeeps
<1> QED BY <1>3, <1>4, <1>5, <1>7
-----------------------------------------------------------------------------
(* The port driver waits for the requests in the lists, and no others.     *)
Agreed(c, o) ==
  /\ Sound(c)
  /\ o \in [Reqs -> {0, 1}]
  /\ \A y \in Reqs : o[y] = 1 <=> y \in In(c)

(* The states above QUEUED, and above READY. *)
LEMMA LevelIs ==
  ASSUME NEW st \in ReqStates
  PROVE  /\ Level[st] <= Level["QUEUED"] <=> st \in {"NONE", "QUEUED"}
         /\ Level[st] > Level["READY"] <=> st \in {"EXPECTING", "COMPLETE"}
         /\ Level[st] <= Level["READY"] <=> st \notin {"EXPECTING", "COMPLETE"}
PROOF
  BY DEF Level, ReqStates

(* NULL is no request. *)
LEMMA NullIs == NULL \notin Reqs
PROOF
  BY QueueAssumption

(* A channel without requests has empty lists. *)
LEMMA EmptyIn ==
  ASSUME NEW c, Sound(c), c.total = 0
  PROVE  In(c) = {}
PROOF
<1>1. PICK L : HasLists(c, L) /\ \A x \in Reqs : x \in In(c) <=> x \in Elements(L[Lun(x)])
  BY SoundHas
<1>2. c.depth \in [Luns -> Nat] /\ c.total = IF Luns = {0} THEN c.depth[0] ELSE c.depth[0] + c.depth[1]
  BY <1>1 DEF HasLists, QueueRecords
<1>3. \A k \in Luns : c.depth[k] = 0
  BY <1>2, ConstantsAre, AnyQueued
<1>4. ASSUME NEW x \in Reqs PROVE x \notin Elements(L[Lun(x)])
  <2>1. PICK l \in Luns : l = Lun(x)
    BY ConstantsAre, LunType
  <2>2. Len(L[l]) = 0
    BY <1>1, <1>3 DEF HasLists, IsList
  <2> QED BY <2>1, <2>2 DEF Elements
<1> QED BY <1>1, <1>4, InType

(* When the loop has nothing new in hand, the two agree. *)
LEMMA GoodAgreed ==
  ASSUME NEW c, NEW o, NEW rn, Good(c, o, rn), rn.srb = NULL \/ ~rn.top
  PROVE  Agreed(c, o) /\ Settled(c, rn.srb)
PROOF
  BY NullIs DEF Good, Agreed

(* The loop ends, or goes on with the current request.                     *)
LEMMA AgreedGood ==
  ASSUME NEW c, NEW o, Agreed(c, o), Settled(c, NULL)
  PROVE  /\ Good(c, o, Idle) /\ Good(c, o, Resetting)
         /\ Good(c, o, [srb |-> c.cur, top |-> FALSE])
         /\ Good(c, o, Fetch(c, FALSE))
PROOF
<1>1. c.cur \in Reqs \cup {NULL}
  BY SoundTypes DEF Agreed
<1>2. Idle = [srb |-> NULL, top |-> FALSE] /\ Resetting = [srb |-> NULL, top |-> TRUE]
  BY DEF Idle, Resetting
<1>3. Good(c, o, Idle) /\ Good(c, o, Resetting)
  BY <1>2, NullIs DEF Agreed, Good
<1>4. ASSUME NEW x \in Reqs \cup {NULL}, x = c.cur
      PROVE  Good(c, o, [srb |-> x, top |-> FALSE])
  <2>1. PICK rn : rn = [srb |-> x, top |-> FALSE]
    OBVIOUS
  <2>2. rn \in [srb : Reqs \cup {NULL}, top : BOOLEAN] /\ rn.srb = x /\ rn.top = FALSE
    BY <2>1
  <2>3. Settled(c, x)
    BY InType, NullIs DEF Settled
  <2> QED BY <1>4, <2>1, <2>2, <2>3 DEF Agreed, Good
<1>5. Good(c, o, [srb |-> c.cur, top |-> FALSE])
  BY <1>1, <1>4
<1>6. Fetch(c, FALSE) \in {Idle, [srb |-> c.cur, top |-> FALSE]}
  BY DEF Fetch
<1> QED BY <1>3, <1>5, <1>6

(* A call that is answered at once finds nobody to go on with, unless it   *)
(* is a SMART request.                                                     *)
LEMMA FetchesNobody ==
  ASSUME NEW c, Sound(c), Settled(c, NULL), NEW top,
         c.cur = NULL \/ \A r \in Reqs : Kind[r] # "smart"
  PROVE  Fetch(c, top) = Idle
PROOF
<1>1. CASE c.cur = NULL
  BY <1>1 DEF Fetch
<1>2. CASE c.cur # NULL /\ \A r \in Reqs : Kind[r] # "smart"
  <2>1. PICK r \in Reqs : r = c.cur /\ r \in In(c)
    BY <1>2, CurIn, InType
  <2>2. r # NULL /\ Kind[r] # "smart"
    BY <1>2, NullIs
  <2>3. c.state[r] \in ReqStates /\ c.state[r] \notin {"NONE", "QUEUED"}
    BY <2>1, <2>2, SoundTypes DEF Settled
  <2>4. ~(Level[c.state[r]] <= Level["QUEUED"])
    BY <2>3, LevelIs
  <2> QED BY <2>1, <2>4 DEF Fetch
<1> QED BY <1>1, <1>2

(* Completing a request: it leaves, and the port driver is notified.       *)
Served(o, r) == [o EXCEPT ![r] = @ - 1]

(* Removal and notification together keep the two in agreement. *)
LEMMA RemoveAgreed ==
  ASSUME NEW c, NEW o, Agreed(c, o), NEW r \in Reqs, r \in In(c), Settled(c, r)
  PROVE  /\ Agreed(RemoveRequest(c, r), Served(o, r))
         /\ Settled(RemoveRequest(c, r), NULL)
         /\ In(RemoveRequest(c, r)) = In(c) \ {r}
PROOF
<1>1. PICK d : d = RemoveRequest(c, r)
  OBVIOUS
<1>2. c.state[r] # "NONE" /\ c.state \in [Reqs -> ReqStates]
  BY SoundTypes DEF Settled, Agreed
<1>3. Sound(d) /\ In(d) = In(c) \ {r} /\ d.state = [c.state EXCEPT ![r] = "NONE"]
  BY <1>1, <1>2, RemoveKeeps DEF Agreed
<1>4. Settled(d, NULL)
  BY <1>2, <1>3, InType DEF Settled
<1>5. o[r] = 1 /\ o \in [Reqs -> {0, 1}]
  BY DEF Agreed
<1>6. PICK o2 : o2 = Served(o, r)
  OBVIOUS
<1>7. o2 = [o EXCEPT ![r] = 0]
  BY <1>5, <1>6 DEF Served
<1>8. o2 \in [Reqs -> {0, 1}] /\ \A y \in Reqs : o2[y] = 1 <=> y \in In(d)
  BY <1>3, <1>5, <1>7 DEF Agreed
<1> QED BY <1>1, <1>3, <1>4, <1>6, <1>8 DEF Agreed

(* A new request with the state it was prepared to, queued.                *)
LEMMA QueueAgreed ==
  ASSUME Good(queue, owed, run), NEW r \in Reqs, run.srb = r, run.top,
         NEW st \in ReqStates \ {"NONE"}
  PROVE  LET d == QueueRequest(InState(queue, r, st), r)
             e == InState(QueueRequest(queue, r), r, st)
         IN  /\ Agreed(d, owed) /\ Settled(d, r) /\ r \in In(d)
             /\ Agreed(e, owed) /\ Settled(e, r) /\ r \in In(e)
             /\ d.state[r] = st /\ e.state[r] = st
             /\ In(d) = In(queue) \cup {r} /\ In(e) = In(queue) \cup {r}
             /\ d.cur = (IF queue.total = 0 THEN r ELSE queue.cur) /\ d.total = queue.total + 1
             /\ e.cur = (IF queue.total = 0 THEN r ELSE queue.cur) /\ e.total = queue.total + 1
             /\ d.state = [queue.state EXCEPT ![r] = st] /\ e.state = [queue.state EXCEPT ![r] = st]
PROOF
<1>1. /\ Sound(queue) /\ Settled(queue, r) /\ r \notin In(queue) /\ queue.state \in [Reqs -> ReqStates]
      /\ owed \in [Reqs -> {0, 1}]
      /\ \A y \in Reqs : owed[y] = 1 <=> y \in In(queue) \/ y = r
  BY NullIs, SoundTypes DEF Good
<1>2. PICK b : b = InState(queue, r, st)
  OBVIOUS
<1>3. /\ Sound(b) /\ In(b) = In(queue) /\ b.state = [queue.state EXCEPT ![r] = st]
      /\ b.cur = queue.cur /\ b.total = queue.total
  BY <1>1, <1>2, StateKeeps
<1>4. PICK d : d = QueueRequest(b, r)
  OBVIOUS
<1>5. /\ Sound(d) /\ In(d) = In(queue) \cup {r} /\ d.state = [queue.state EXCEPT ![r] = st]
      /\ d.total = queue.total + 1 /\ d.cur = IF queue.total = 0 THEN r ELSE queue.cur
  BY <1>1, <1>3, <1>4, QueueKeeps
<1>6. PICK a : a = QueueRequest(queue, r)
  OBVIOUS
<1>7. /\ Sound(a) /\ In(a) = In(queue) \cup {r} /\ a.state = queue.state
      /\ a.total = queue.total + 1 /\ a.cur = IF queue.total = 0 THEN r ELSE queue.cur
  BY <1>1, <1>6, QueueKeeps
<1>8. PICK e : e = InState(a, r, st)
  OBVIOUS
<1>9. /\ Sound(e) /\ In(e) = In(queue) \cup {r} /\ e.state = [queue.state EXCEPT ![r] = st]
      /\ e.total = queue.total + 1 /\ e.cur = IF queue.total = 0 THEN r ELSE queue.cur
  BY <1>7, <1>8, StateKeeps
<1>10. ASSUME NEW f, Sound(f), In(f) = In(queue) \cup {r}, f.state = [queue.state EXCEPT ![r] = st]
       PROVE  Agreed(f, owed) /\ Settled(f, r) /\ r \in In(f) /\ f.state[r] = st
  <2>1. Agreed(f, owed)
    BY <1>1, <1>10 DEF Agreed
  <2>2. f.state[r] = st /\ r \in In(f)
    BY <1>1, <1>10
  <2>3. Settled(f, r)
    BY <1>1, <1>10, <2>2, InType DEF Settled
  <2> QED BY <2>1, <2>2, <2>3
<1>11. Agreed(d, owed) /\ Settled(d, r) /\ r \in In(d) /\ d.state[r] = st
  BY <1>5, <1>10
<1>12. Agreed(e, owed) /\ Settled(e, r) /\ r \in In(e) /\ e.state[r] = st
  BY <1>9, <1>10
<1> QED BY <1>2, <1>4, <1>5, <1>6, <1>8, <1>9, <1>11, <1>12

(* The current request changes its state. *)
LEMMA StateAgreed ==
  ASSUME NEW c, NEW o, Agreed(c, o), NEW r \in Reqs, r \in In(c), Settled(c, r),
         NEW st \in ReqStates \ {"NONE"}
  PROVE  LET d == InState(c, r, st)
         IN  /\ Agreed(d, o) /\ Settled(d, r) /\ r \in In(d) /\ In(d) = In(c)
             /\ d.cur = c.cur /\ d.total = c.total /\ d.state = [c.state EXCEPT ![r] = st]
             /\ st # "QUEUED" \/ Kind[r] = "smart" => Settled(d, NULL)
PROOF
<1>1. PICK d : d = InState(c, r, st)
  OBVIOUS
<1>2. /\ Sound(d) /\ In(d) = In(c) /\ d.state = [c.state EXCEPT ![r] = st]
      /\ d.cur = c.cur /\ d.total = c.total
  BY <1>1, StateKeeps DEF Agreed
<1>3. c.state \in [Reqs -> ReqStates]
  BY SoundTypes DEF Agreed
<1>4. Agreed(d, o)
  BY <1>2 DEF Agreed
<1>5. Settled(d, r)
  BY <1>2, <1>3, InType DEF Settled
<1>6. st # "QUEUED" \/ Kind[r] = "smart" => Settled(d, NULL)
  BY <1>2, <1>3, InType DEF Settled
<1> QED BY <1>1, <1>2, <1>4, <1>5, <1>6

(* The queue when a command is sent: the request is in it, and current.    *)
LEMMA TakenKeeps ==
  ASSUME Good(queue, owed, run), NEW r \in Reqs, MayGo(r)
  PROVE  /\ Agreed(Taken(r), owed) /\ Settled(Taken(r), r)
         /\ r \in In(Taken(r)) /\ Taken(r).cur = r
         /\ run.top => /\ In(Taken(r)) = {r} /\ queue.total = 0
                       /\ Taken(r).state = [queue.state EXCEPT ![r] = "QUEUED"]
         /\ ~run.top => Taken(r) = queue
PROOF
<1>1. CASE run.top
  <2>1. queue.total = 0 /\ run.srb = r
    BY <1>1 DEF MayGo, Good, Sound, HasLists, QueueRecords
  <2>2. In(queue) = {}
    BY <2>1, EmptyIn DEF Good
  <2>3. PICK e : e = InState(QueueRequest(queue, r), r, "QUEUED")
    OBVIOUS
  <2>4. "QUEUED" \in ReqStates \ {"NONE"}
    BY DEF ReqStates
  <2>5. /\ Agreed(e, owed) /\ Settled(e, r) /\ r \in In(e) /\ In(e) = In(queue) \cup {r}
        /\ e.cur = (IF queue.total = 0 THEN r ELSE queue.cur)
        /\ e.state = [queue.state EXCEPT ![r] = "QUEUED"]
    BY <1>1, <2>1, <2>3, <2>4, QueueAgreed
  <2>6. Taken(r) = e
    BY <1>1, <2>3 DEF Taken
  <2> QED BY <1>1, <2>1, <2>2, <2>5, <2>6
<1>2. CASE ~run.top
  <2>1. run.srb = r /\ queue.cur = r
    BY <1>2, NullIs DEF MayGo, Good
  <2>2. Agreed(queue, owed) /\ Settled(queue, r)
    BY <1>2, <2>1, GoodAgreed
  <2>3. r \in In(queue)
    BY <2>1, <2>2, NullIs, CurIn DEF Agreed
  <2>4. Taken(r) = queue
    BY <1>2 DEF Taken
  <2> QED BY <1>2, <2>1, <2>2, <2>3, <2>4
<1>3. run.top \in BOOLEAN
  BY DEF Good
<1> QED BY <1>1, <1>2, <1>3

(* A request is completed and the loop goes on. *)
LEMMA FinishKeeps ==
  ASSUME NEW c, NEW r \in Reqs, Agreed(c, owed), r \in In(c), Settled(c, r),
         Finish(c, r, FALSE)
  PROVE  Good(queue', owed', run')
PROOF
<1>1. PICK d : d = RemoveRequest(c, r)
  OBVIOUS
<1>2. PICK o : o = Served(owed, r)
  OBVIOUS
<1>3. Agreed(d, o) /\ Settled(d, NULL)
  BY <1>1, <1>2, RemoveAgreed
<1>4. Good(d, o, Fetch(d, FALSE))
  BY <1>3, AgreedGood
<1>5. queue' = d /\ owed' = o /\ run' = Fetch(d, FALSE)
  BY <1>1, <1>2 DEF Finish, Served
<1> QED BY <1>4, <1>5

(* A request that is past QUEUED needs no exception. *)
LEMMA SettledAll ==
  ASSUME NEW c, NEW r, Settled(c, r), c.state[r] # "QUEUED" \/ Kind[r] = "smart"
  PROVE  Settled(c, NULL)
PROOF
  BY DEF Settled

(* The loop goes on with the current request. *)
LEMMA InHandGood ==
  ASSUME NEW c, NEW o, NEW r \in Reqs, Agreed(c, o), Settled(c, r), r = c.cur
  PROVE  Good(c, o, [srb |-> r, top |-> FALSE])
PROOF
<1>1. PICK rn : rn = [srb |-> r, top |-> FALSE]
  OBVIOUS
<1>2. rn \in [srb : Reqs \cup {NULL}, top : BOOLEAN] /\ rn.srb = r /\ rn.top = FALSE
  BY <1>1
<1> QED BY <1>1, <1>2 DEF Agreed, Good

(* Between two calls the loop has nobody in hand. *)
LEMMA IdleAgreed ==
  ASSUME Good(queue, owed, run), run.srb = NULL
  PROVE  /\ Agreed(queue, owed) /\ Settled(queue, NULL)
         /\ \A r \in Reqs : Settled(queue, r)
PROOF
<1>1. Agreed(queue, owed) /\ Settled(queue, NULL)
  BY GoodAgreed
<1>2. \A r \in Reqs : Settled(queue, r)
  BY <1>1, InType, NullIs DEF Settled
<1> QED BY <1>1, <1>2

(* The two values of the loop that stand for no request. *)
LEMMA IdleIs == /\ Idle.srb = NULL /\ Idle.top = FALSE
                /\ Resetting.srb = NULL /\ Resetting.top = TRUE
                /\ Idle # Resetting
PROOF
  BY DEF Idle, Resetting

(* AtapiResetController__ completes the current request, if there is one.  *)
LEMMA ResetCurrentKeeps ==
  ASSUME Good(queue, owed, run), run.srb = NULL, ResetCurrent
  PROVE  Agreed(queue', owed') /\ Settled(queue', NULL)
PROOF
<1>1. Agreed(queue, owed) /\ Settled(queue, NULL) /\ \A r \in Reqs : Settled(queue, r)
  BY IdleAgreed
<1>2. owed \in [Reqs -> {0, 1}] /\ queue.cur \in Reqs \cup {NULL}
  BY <1>1, SoundTypes DEF Agreed
<1>3. CASE queue.cur = NULL
  <2>1. queue' = queue
    BY <1>3 DEF ResetCurrent
  <2>2. \A r \in Reqs : r # queue.cur
    BY <1>3, NullIs
  <2>3. owed' = owed
    BY <1>2, <2>2 DEF ResetCurrent
  <2> QED BY <1>1, <2>1, <2>3
<1>4. CASE queue.cur # NULL
  <2>1. PICK r \in Reqs : r = queue.cur /\ r \in In(queue)
    BY <1>1, <1>4, CurIn, InType DEF Agreed
  <2>2. queue' = RemoveRequest(queue, r)
    BY <1>4, <2>1 DEF ResetCurrent
  <2>3. owed' = Served(owed, r)
    BY <1>2, <2>1 DEF ResetCurrent, Served
  <2>4. Agreed(RemoveRequest(queue, r), Served(owed, r)) /\ Settled(RemoveRequest(queue, r), NULL)
    BY <1>1, <2>1, RemoveAgreed
  <2> QED BY <2>2, <2>3, <2>4
<1> QED BY <1>3, <1>4
-----------------------------------------------------------------------------
(* Each action keeps the queue and the notifications in agreement.         *)

(* A new SRB. *)
LEMMA CallKeeps ==
  ASSUME Good(queue, owed, run), NEW r \in Reqs, Call(r)
  PROVE  Good(queue', owed', run')
PROOF
<1>1. Agreed(queue, owed) /\ Settled(queue, NULL)
  BY IdleIs, IdleAgreed DEF Call
<1>2. r \notin In(queue) /\ owed \in [Reqs -> {0, 1}]
  BY <1>1 DEF Call, Agreed
<1>3. PICK d : d = Renewed(queue, r)
  OBVIOUS
<1>4. Sound(d) /\ In(d) = In(queue) /\ d.state = [queue.state EXCEPT ![r] = "NONE"]
  BY <1>1, <1>2, <1>3, RenewKeeps DEF Agreed
<1>5. queue' = d
  BY <1>3 DEF Call, Renewed
<1>6. PICK o : o = owed'
  OBVIOUS
<1>7. o = [owed EXCEPT ![r] = 1]
  BY <1>6 DEF Call
<1>8. PICK rn : rn = run'
  OBVIOUS
<1>9. rn.srb = r /\ rn.top = TRUE /\ rn \in [srb : Reqs \cup {NULL}, top : BOOLEAN]
  BY <1>8 DEF Call
<1>10. queue.state \in [Reqs -> ReqStates]
  BY <1>1, SoundTypes DEF Agreed
<1>11. Settled(d, r)
  BY <1>1, <1>2, <1>4, <1>10, InType, NullIs DEF Settled
<1>12. o \in [Reqs -> {0, 1}] /\ \A y \in Reqs : o[y] = 1 <=> y \in In(d) \/ r = y
  BY <1>1, <1>2, <1>4, <1>7 DEF Agreed
<1> QED BY <1>2, <1>4, <1>5, <1>6, <1>8, <1>9, <1>11, <1>12 DEF Good

(* Preparing a request leaves it in a later state than QUEUED. *)
LEMMA PreparedIs ==
  ASSUME NEW r \in Reqs
  PROVE  Prepared(r) \in ReqStates \ {"NONE", "QUEUED"}
PROOF
  BY DEF Prepared, ReqStates

(* A new request is queued behind others. *)
LEMMA PostKeepsIo ==
  ASSUME Good(queue, owed, run), NEW r \in Reqs,
         PostPending(r) \/ PostAnswered(r) \/ PostSmart(r)
  PROVE  Good(queue', owed', run')
PROOF
<1>1. run.srb = r /\ run.top
  BY DEF PostPending, PostAnswered, PostSmart, MustWait
<1>2. PICK st : st = Prepared(r)
  OBVIOUS
<1>3. st \in ReqStates \ {"NONE", "QUEUED"} /\ "QUEUED" \in ReqStates \ {"NONE"}
  BY <1>2, PreparedIs DEF ReqStates
<1>4. PICK d : d = QueueRequest(InState(queue, r, st), r)
  OBVIOUS
<1>5. Agreed(d, owed) /\ Settled(d, r) /\ r \in In(d) /\ d.state[r] = st
  <2>1. st \in ReqStates \ {"NONE"}
    BY <1>3
  <2> QED BY ZenonT(30), <1>1, <1>4, <2>1, QueueAgreed
<1>6. CASE PostPending(r)
  <2>1. queue' = d /\ owed' = owed /\ run' = Idle
    BY <1>2, <1>4, <1>6 DEF PostPending
  <2>2. Settled(d, NULL)
    BY <1>3, <1>5, SettledAll
  <2> QED BY <1>5, <2>1, <2>2, AgreedGood
<1>7. CASE PostAnswered(r)
  <2>1. Finish(d, r, FALSE)
    BY <1>2, <1>4, <1>7 DEF PostAnswered
  <2> QED BY <1>5, <2>1, FinishKeeps
<1>8. CASE PostSmart(r)
  <2>1. PICK e : e = InState(QueueRequest(queue, r), r, "QUEUED")
    OBVIOUS
  <2>2. Agreed(e, owed) /\ Settled(e, r)
    BY <1>1, <1>3, <2>1, QueueAgreed
  <2>3. Kind[r] = "smart" /\ queue' = e /\ owed' = owed /\ run' = Idle
    BY <1>8, <2>1 DEF PostSmart
  <2>4. Settled(e, NULL)
    BY <2>2, <2>3, SettledAll
  <2> QED BY <2>2, <2>3, <2>4, AgreedGood
<1> QED BY <1>6, <1>7, <1>8

(* A command is sent, or taken for sent. *)
LEMMA SendKeepsIo ==
  ASSUME Good(queue, owed, run), NEW r \in Reqs, Execute(r) \/ Unsent(r)
  PROVE  Good(queue', owed', run')
PROOF
<1>1. MayGo(r) /\ run' = Idle /\ owed' = owed
  BY DEF Execute, Unsent
<1>2. PICK c : c = Taken(r)
  OBVIOUS
<1>3. Agreed(c, owed) /\ Settled(c, r) /\ r \in In(c)
  BY <1>1, <1>2, TakenKeeps
<1>4. PICK d : d = InState(c, r, "EXPECTING")
  OBVIOUS
<1>5. Agreed(d, owed) /\ Settled(d, NULL)
  <2>1. "EXPECTING" \in ReqStates \ {"NONE"}
    BY DEF ReqStates
  <2> QED BY <1>3, <1>4, <2>1, StateAgreed
<1>6. \/ queue' = d
      \/ queue' = c /\ Kind[r] = "smart"
  BY <1>2, <1>4 DEF Execute, Unsent
<1>7. Agreed(queue', owed) /\ Settled(queue', NULL)
  BY <1>3, <1>5, <1>6, SettledAll
<1> QED BY <1>1, <1>7, AgreedGood

(* A request is completed without an interrupt. *)
LEMMA AnswerKeeps ==
  ASSUME Good(queue, owed, run), NEW r \in Reqs, Answer(r) \/ Refuse(r)
  PROVE  Good(queue', owed', run')
PROOF
<1>1. MayGo(r)
  BY DEF Answer, Refuse
<1>2. PICK c : c = Taken(r)
  OBVIOUS
<1>3. /\ Agreed(c, owed) /\ Settled(c, r) /\ r \in In(c)
      /\ run.top => In(c) = {r}
  BY <1>1, <1>2, TakenKeeps
<1>4. PICK d : d = InState(c, r, "COMPLETE")
  OBVIOUS
<1>5. Agreed(d, owed) /\ Settled(d, r) /\ r \in In(d)
  <2>1. "COMPLETE" \in ReqStates \ {"NONE"}
    BY DEF ReqStates
  <2> QED BY <1>3, <1>4, <2>1, StateAgreed
<1>6. run.top \in BOOLEAN
  BY DEF Good
<1>7. Finish(d, r, FALSE) \/ Finish(c, r, run.top)
  BY <1>2, <1>4 DEF Answer, Refuse
<1>8. CASE Finish(d, r, FALSE)
  BY <1>5, <1>8, FinishKeeps
<1>9. CASE Finish(c, r, run.top) /\ run.top
  <2>1. PICK e : e = RemoveRequest(c, r)
    OBVIOUS
  <2>2. PICK o : o = Served(owed, r)
    OBVIOUS
  <2>3. Agreed(e, o) /\ Settled(e, NULL) /\ In(e) = In(c) \ {r}
    BY <1>3, <2>1, <2>2, RemoveAgreed
  <2>4. In(e) = {}
    BY <1>3, <1>9, <2>3
  <2>5. e.cur = NULL
    BY <2>3, <2>4, CurIn DEF Agreed
  <2>6. Fetch(e, run.top) = Idle
    BY <2>5 DEF Fetch
  <2>7. queue' = e /\ owed' = o /\ run' = Idle
    BY <1>9, <2>1, <2>2, <2>6 DEF Finish, Served
  <2> QED BY <2>3, <2>7, AgreedGood
<1>10. CASE Finish(c, r, run.top) /\ ~run.top
  <2>1. Finish(c, r, FALSE)
    BY <1>6, <1>10
  <2> QED BY <1>3, <2>1, FinishKeeps
<1> QED BY <1>7, <1>8, <1>9, <1>10

(* The interrupt handler serves the current request. *)
LEMMA InterruptKeeps ==
  ASSUME Good(queue, owed, run), NEW r \in Reqs, NextPart(r) \/ Retry(r) \/ Done(r)
  PROVE  Good(queue', owed', run')
PROOF
<1>1. run.srb = NULL /\ r = queue.cur
  BY IdleIs DEF NextPart, Retry, Done, Interrupted
<1>2. Agreed(queue, owed) /\ Settled(queue, r)
  BY <1>1, IdleAgreed
<1>3. r \in In(queue)
  BY <1>1, <1>2, NullIs, CurIn DEF Agreed
<1>4. CASE Done(r)
  <2>1. PICK d : d = RemoveRequest(queue, r)
    OBVIOUS
  <2>2. PICK o : o = Served(owed, r)
    OBVIOUS
  <2>3. Agreed(d, o) /\ Settled(d, NULL)
    BY <1>2, <1>3, <2>1, <2>2, RemoveAgreed
  <2>4. queue' = d /\ owed' = o
    BY <1>4, <2>1, <2>2 DEF Done, Served
  <2>5. run' = [srb |-> d.cur, top |-> FALSE]
    BY <1>4, <2>4 DEF Done
  <2> QED BY <2>3, <2>4, <2>5, AgreedGood
<1>5. CASE NextPart(r) \/ Retry(r)
  <2>1. PICK st \in ReqStates \ {"NONE"} : queue' = InState(queue, r, st)
    <3>1. "NEXT" \in ReqStates \ {"NONE"} /\ "QUEUED" \in ReqStates \ {"NONE"}
      BY DEF ReqStates
    <3>2. queue' = InState(queue, r, "NEXT") \/ queue' = InState(queue, r, "QUEUED")
      BY <1>5 DEF NextPart, Retry
    <3> QED BY <3>1, <3>2
  <2>2. PICK d : d = InState(queue, r, st)
    OBVIOUS
  <2>3. Agreed(d, owed) /\ Settled(d, r) /\ d.cur = r
    <3>1. LET e == InState(queue, r, st)
          IN  Agreed(e, owed) /\ Settled(e, r) /\ e.cur = queue.cur
      BY ZenonT(30), <1>2, <1>3, StateAgreed
    <3> QED BY <1>1, <2>2, <3>1
  <2>4. queue' = d /\ owed' = owed /\ run' = [srb |-> r, top |-> FALSE]
    BY <1>5, <2>1, <2>2 DEF NextPart, Retry
  <2> QED BY <2>3, <2>4, InHandGood
<1> QED BY <1>4, <1>5

(* The interrupt handler resets the controller. *)
LEMMA StuckKeeps ==
  ASSUME Good(queue, owed, run), Stuck
  PROVE  Good(queue', owed', run')
PROOF
<1>1. run = Idle /\ run' = Idle
  BY DEF Stuck, Interrupted
<1>2. Agreed(queue', owed') /\ Settled(queue', NULL)
  BY <1>1, IdleIs, ResetCurrentKeeps DEF Stuck
<1> QED BY <1>1, <1>2, AgreedGood

(* SRBs that are answered at once: the loop finds nobody to go on with. *)
LEMMA PortDriverKeeps ==
  ASSUME QueuedOnce, Good(queue, owed, run),
         Immediate \/ ResetDevice \/ \E r \in Reqs : Abort(r)
  PROVE  Good(queue', owed', run')
PROOF
<1>1. \A x \in Reqs : Kind[x] # "smart"
  BY DEF QueuedOnce, Immediate, ResetDevice, Abort
<1>2. run.srb = NULL
  BY IdleIs DEF Immediate, ResetDevice, Abort
<1>3. Agreed(queue, owed) /\ Settled(queue, NULL) /\ \A x \in Reqs : Settled(queue, x)
  BY <1>2, IdleAgreed
<1>4. Agreed(queue', owed') /\ Settled(queue', NULL)
  <2>1. CASE Immediate \/ ResetDevice
    BY <1>3, <2>1 DEF Immediate, ResetDevice
  <2>2. CASE \E r \in Reqs : Abort(r)
    <3>1. PICK r \in Reqs : Abort(r)
      BY <2>2
    <3>2. CASE ResetCurrent
      BY <1>2, <3>2, ResetCurrentKeeps
    <3>3. CASE ~ResetCurrent
      <4>1. queue' = RemoveRequest(queue, r) /\ owed' = Served(owed, r)
        BY <3>1, <3>3 DEF Abort, Served
      <4>2. r \in In(queue)
        BY <1>3, <3>1 DEF Abort, Agreed
      <4>3. Agreed(RemoveRequest(queue, r), Served(owed, r)) /\ Settled(RemoveRequest(queue, r), NULL)
        BY <1>3, <4>2, RemoveAgreed
      <4> QED BY <4>1, <4>3
    <3> QED BY <3>2, <3>3
  <2> QED BY <2>1, <2>2
<1>5. run' = Fetch(queue', TRUE)
  <2>1. CASE Immediate \/ ResetDevice
    BY <2>1 DEF Immediate, ResetDevice
  <2>2. CASE \E r \in Reqs : Abort(r)
    BY <2>2 DEF Abort
  <2> QED BY <2>1, <2>2
<1>6. Fetch(queue', TRUE) = Idle
  BY <1>1, <1>4, FetchesNobody DEF Agreed
<1> QED BY <1>4, <1>5, <1>6, AgreedGood

(* A bus reset completes one request after the other. *)
LEMMA ResetKeeps ==
  ASSUME Good(queue, owed, run), ResetBus \/ ResetEnd \/ \E r \in Reqs : ResetOne(r)
  PROVE  Good(queue', owed', run')
PROOF
<1>1. run.srb = NULL
  BY IdleIs DEF ResetBus, ResetEnd, ResetOne
<1>2. Agreed(queue, owed) /\ Settled(queue, NULL) /\ \A x \in Reqs : Settled(queue, x)
  BY <1>1, IdleAgreed
<1>3. CASE ResetBus \/ ResetEnd
  <2>1. queue' = queue /\ owed' = owed /\ (run' = Idle \/ run' = Resetting)
    BY <1>3 DEF ResetBus, ResetEnd
  <2> QED BY <1>2, <2>1, AgreedGood
<1>4. CASE \E r \in Reqs : ResetOne(r)
  <2>1. PICK r \in Reqs : ResetOne(r)
    BY <1>4
  <2>2. r = queue.cur /\ run' = Resetting
    BY <2>1 DEF ResetOne
  <2>3. r \in In(queue)
    BY <1>2, <2>2, NullIs, CurIn DEF Agreed
  <2>4. queue' = RemoveRequest(queue, r) /\ owed' = Served(owed, r)
    BY <2>1 DEF ResetOne, Served
  <2>5. Agreed(RemoveRequest(queue, r), Served(owed, r)) /\ Settled(RemoveRequest(queue, r), NULL)
    BY <1>2, <2>3, RemoveAgreed
  <2>6. Good(RemoveRequest(queue, r), Served(owed, r), Resetting)
    BY <2>5, AgreedGood
  <2> QED BY <2>2, <2>4, <2>6
<1> QED BY <1>3, <1>4

(* The rest of the state keeps its type. *)
LEMMA NextTyped ==
  ASSUME IInv, Next \/ UNCHANGED vars
  PROVE  /\ dev' \in Reqs \cup {NULL} /\ expect' \in BOOLEAN
         /\ tries' \in [Reqs -> 0..MaxRetries - 1] /\ parts' \in [Reqs -> Nat]
PROOF
<1>1. dev' \in Reqs \cup {NULL} /\ expect' \in BOOLEAN
  <2>1. CASE UNCHANGED vars
    BY <2>1 DEF IInv, vars
  <2>2. CASE Next
    BY <2>2 DEF IInv, Next, Step, Interrupt, PortDriver, ResetStep, PostPending, PostAnswered,
       PostSmart, Execute, Unsent, Answer, Refuse, NoDrq, Stuck, NextPart, Retry, Done,
       ResetCurrent, Immediate, ResetDevice, Call, Abort, ResetBus, ResetEnd, ResetOne
  <2> QED BY <2>1, <2>2
<1>2. tries' \in [Reqs -> 0..MaxRetries - 1]
  <2>1. \/ tries' = tries
        \/ \E r \in Reqs : tries' = [tries EXCEPT ![r] = 0]
        \/ \E r \in Reqs : tries[r] + 1 < MaxRetries /\ tries' = [tries EXCEPT ![r] = @ + 1]
    BY DEF vars, Next, Step, Interrupt, PortDriver, ResetStep, PostPending, PostAnswered,
       PostSmart, Execute, Unsent, Answer, Refuse, NoDrq, Stuck, NextPart, Retry, Done,
       Immediate, ResetDevice, Call, Abort, ResetBus, ResetEnd, ResetOne
  <2>2. MaxRetries \in Nat \ {0} /\ tries \in [Reqs -> 0..MaxRetries - 1]
    BY IoAssumption DEF IoAssumption, IInv
  <2> QED BY <2>1, <2>2
<1>3. parts' \in [Reqs -> Nat]
  <2>1. \/ parts' = parts
        \/ \E r \in Reqs : parts' = [parts EXCEPT ![r] = Parts[r]]
        \/ \E r \in Reqs : parts[r] > 1 /\ parts' = [parts EXCEPT ![r] = @ - 1]
    BY DEF vars, Next, Step, Interrupt, PortDriver, ResetStep, PostPending, PostAnswered,
       PostSmart, Execute, Unsent, Answer, Refuse, NoDrq, Stuck, NextPart, Retry, Done,
       Immediate, ResetDevice, Call, Abort, ResetBus, ResetEnd, ResetOne
  <2>2. Parts \in [Reqs -> Nat \ {0}] /\ parts \in [Reqs -> Nat]
    BY IoAssumption DEF IoAssumption, IInv
  <2> QED BY <2>1, <2>2
<1> QED BY <1>1, <1>2, <1>3

(* The channel starts without requests. *)
LEMMA InitGood ==
  ASSUME Init
  PROVE  IInv
PROOF
<1>1. PICK L : L = [l \in Luns |-> <<>>]
  OBVIOUS
<1>2. HasLists(EmptyQueue, L)
  BY <1>1, ConstantsAre, EmptyLists
<1>3. Sound(EmptyQueue) /\ \A r \in Reqs : r \in In(EmptyQueue) <=> r \in Elements(L[Lun(r)])
  BY <1>2, SoundIs
<1>4. EmptyQueue.total = 0
  BY DEF EmptyQueue
<1>5. In(EmptyQueue) = {}
  BY <1>3, <1>4, EmptyIn
<1>6. PICK o \in [Reqs -> {0, 1}] : o = [r \in Reqs |-> 0]
  OBVIOUS
<1>7. Agreed(EmptyQueue, o) /\ Settled(EmptyQueue, NULL)
  BY <1>3, <1>5, <1>6 DEF Agreed, Settled
<1>8. queue = EmptyQueue /\ owed = o /\ run = Idle
  BY <1>6 DEF Init
<1>9. Good(queue, owed, run)
  BY <1>7, <1>8, AgreedGood
<1>10. tries \in [Reqs -> 0..MaxRetries - 1] /\ parts \in [Reqs -> Nat]
  <2>1. 0 \in 0..MaxRetries - 1
    BY IoAssumption DEF IoAssumption
  <2> QED BY <2>1 DEF Init
<1>11. dev = NULL /\ expect = FALSE
  BY DEF Init
<1> QED BY <1>9, <1>10, <1>11 DEF IInv

(* Every step keeps the invariant. *)
LEMMA NextGood ==
  ASSUME Undisturbed, IInv, Next \/ UNCHANGED vars
  PROVE  IInv'
PROOF
<1>1. Good(queue, owed, run)
  BY DEF IInv
<1>2. Good(queue', owed', run')
  <2>1. CASE UNCHANGED vars
    BY <1>1, <2>1 DEF vars
  <2>2. CASE Step
    <3>1. PICK r \in Reqs : \/ PostPending(r) \/ PostAnswered(r) \/ PostSmart(r)
                            \/ Execute(r) \/ Unsent(r) \/ Answer(r) \/ Refuse(r) \/ NoDrq(r)
      BY <2>2 DEF Step
    <3>2. ~NoDrq(r)
      BY DEF NoDrq, Undisturbed, RemovedOnce
    <3> QED BY <1>1, <3>1, <3>2, PostKeepsIo, SendKeepsIo, AnswerKeeps
  <2>3. CASE Interrupt
    BY <1>1, <2>3, StuckKeeps, InterruptKeeps DEF Interrupt
  <2>4. CASE PortDriver
    BY <1>1, <2>4, CallKeeps, PortDriverKeeps DEF PortDriver, Undisturbed
  <2>5. CASE ResetBus \/ ResetStep
    BY <1>1, <2>5, ResetKeeps DEF ResetStep
  <2> QED BY <2>1, <2>2, <2>3, <2>4, <2>5 DEF Next
<1>3. /\ dev' \in Reqs \cup {NULL} /\ expect' \in BOOLEAN
      /\ tries' \in [Reqs -> 0..MaxRetries - 1] /\ parts' \in [Reqs -> Nat]
  BY NextTyped
<1> QED BY <1>2, <1>3 DEF IInv

(* The lists of the queue hold what the port driver waits for, and the     *)
(* loop has a new request or the current one in hand.                      *)
THEOREM IoInvariant ==
  ASSUME Undisturbed
  PROVE  Spec => []IInv
PROOF
<1>1. Init => IInv
  BY InitGood
<1>2. IInv /\ [Next]_vars => IInv'
  BY NextGood
<1> QED BY <1>1, <1>2, PTL DEF Spec

(* The state of the channel has its type. *)
THEOREM IoTyped ==
  ASSUME Undisturbed
  PROVE  Spec => []TypeOK
PROOF
<1>1. IInv => TypeOK
  <2> SUFFICES ASSUME IInv PROVE TypeOK
    OBVIOUS
  <2>1. Good(queue, owed, run)
    BY DEF IInv
  <2>2. queue \in QueueRecords
    BY <2>1, SoundTypes DEF Good
  <2>3. DOMAIN queue = DOMAIN EmptyQueue
    BY <2>2 DEF QueueRecords, EmptyQueue
  <2>4. queue.state \in [Reqs -> DOMAIN Level]
    <3>1. ReqStates = DOMAIN Level
      BY DEF ReqStates, Level
    <3> QED BY <2>1, <3>1, SoundTypes DEF Good
  <2>5. owed \in [Reqs -> Int]
    BY <2>1 DEF Good
  <2> QED BY <2>1, <2>3, <2>4, <2>5 DEF IInv, Good, TypeOK
<1> QED BY <1>1, IoInvariant, PTL

(* Listed speaks of the same lists. *)
LEMMA ListedIs ==
  ASSUME NEW l
  PROVE  Listed(l) = Elements(List(queue, l))
PROOF
  BY DEF Listed, Elements

(* A request that the port driver waits for is in the queue of its device  *)
(* or in hand, and no other is: RequestComplete is called once for each    *)
(* SRB (complete_req of AtapiStartIo__, the end of AtapiInterrupt__).      *)
THEOREM EachIsCompletedOnce ==
  ASSUME Undisturbed
  PROVE  Spec => []CompletedOnce
PROOF
<1>1. IInv => CompletedOnce
  <2> SUFFICES ASSUME IInv, NEW r \in Reqs
               PROVE  /\ owed[r] \in {0, 1}
                      /\ owed[r] = 1 <=> (r \in Listed(Lun(r)) \/ (run.srb = r /\ run.top))
    BY DEF CompletedOnce
  <2>1. /\ owed \in [Reqs -> {0, 1}]
        /\ owed[r] = 1 <=> r \in In(queue) \/ (run.srb = r /\ run.top)
    BY DEF IInv, Good
  <2>2. r \in In(queue) <=> r \in Listed(Lun(r))
    BY ListedIs DEF In
  <2> QED BY <2>1, <2>2
<1> QED BY <1>1, IoInvariant, PTL

(* Between two calls every request in a list is one the port driver waits  *)
(* for, and queue_depth counts them (UniataRemoveRequest).                 *)
THEOREM QueueIsClean ==
  ASSUME Undisturbed
  PROVE  Spec => []NoneLeftBehind
PROOF
<1>1. IInv => NoneLeftBehind
  <2> SUFFICES ASSUME IInv, run = Idle, NEW l \in Luns
               PROVE  /\ \A r \in Listed(l) : owed[r] = 1
                      /\ queue.depth[l] = Cardinality(Listed(l))
    BY DEF NoneLeftBehind
  <2>1. Good(queue, owed, run)
    BY DEF IInv
  <2>2. queue.depth[l] = Cardinality(Listed(l))
    BY <2>1, DepthIs, ListedIs DEF Good
  <2>3. ASSUME NEW r \in Listed(l) PROVE owed[r] = 1
    <3>1. PICK L : HasLists(queue, L) /\ List(queue, l) = L[l]
      BY <2>1, SoundHas DEF Good
    <3>2. r \in Elements(L[l])
      BY <3>1, ListedIs
    <3>3. r \in Reqs /\ Lun(r) = l
      BY <3>1, <3>2 DEF HasLists, IsList, Elements
    <3>4. r \in In(queue)
      BY <3>1, <3>2, <3>3 DEF In
    <3> QED BY <2>1, <3>3, <3>4 DEF Good
  <2> QED BY <2>2, <2>3
<1> QED BY <1>1, IoInvariant, PTL
-----------------------------------------------------------------------------
(* No request is an IO_CONTROL SMART command. *)
NoSmart == \A r \in Reqs : Kind[r] # "smart"

(* Without SMART requests none is queued twice. *)
LEMMA NoSmartOnce ==
  ASSUME RemovedOnce, NoSmart
  PROVE  Undisturbed
PROOF
  BY DEF NoSmart, QueuedOnce, Undisturbed

(* The loop goes on with nobody whose command was sent. *)
LEMMA FetchPasses ==
  ASSUME NEW c, NEW top, NEW x \in Reqs, c.state[x] = "EXPECTING"
  PROVE  Fetch(c, top).srb # x
PROOF
<1>1. ~(Level[c.state[x]] <= Level["QUEUED"])
  BY DEF Level
<1>2. x # NULL
  BY NullIs
<1> QED BY <1>1, <1>2, IdleIs DEF Fetch

(* What happens to another request does not touch it. *)
LEMMA SentStays ==
  ASSUME NEW c, Sound(c), NEW x, Sent(c, x), NEW r \in Reqs, r # x
  PROVE  /\ \A st \in ReqStates : Sent(InState(c, r, st), x)
         /\ r \notin In(c) => Sent(QueueRequest(c, r), x)
         /\ r \in In(c) /\ c.state[r] # "NONE" => Sent(RemoveRequest(c, r), x)
         /\ r \notin In(c) => Sent(Renewed(c, r), x)
PROOF
<1>1. x \in Reqs /\ x \in In(c) /\ c.state[x] = "EXPECTING" /\ c.state \in [Reqs -> ReqStates]
  BY InType, SoundTypes DEF Sent
<1>2. ASSUME NEW st \in ReqStates PROVE Sent(InState(c, r, st), x)
  <2>1. PICK d : d = InState(c, r, st)
    OBVIOUS
  <2>2. In(d) = In(c) /\ d.state = [c.state EXCEPT ![r] = st]
    BY <2>1, StateKeeps
  <2> QED BY <1>1, <2>1, <2>2 DEF Sent
<1>3. ASSUME r \notin In(c) PROVE Sent(QueueRequest(c, r), x)
  <2>1. PICK d : d = QueueRequest(c, r)
    OBVIOUS
  <2>2. In(d) = In(c) \cup {r} /\ d.state = c.state
    BY <1>3, <2>1, QueueKeeps
  <2> QED BY <1>1, <2>1, <2>2 DEF Sent
<1>4. ASSUME r \in In(c), c.state[r] # "NONE" PROVE Sent(RemoveRequest(c, r), x)
  <2>1. PICK d : d = RemoveRequest(c, r)
    OBVIOUS
  <2>2. In(d) = In(c) \ {r} /\ d.state = [c.state EXCEPT ![r] = "NONE"]
    BY <1>4, <2>1, RemoveKeeps
  <2> QED BY <1>1, <2>1, <2>2 DEF Sent
<1>5. ASSUME r \notin In(c) PROVE Sent(Renewed(c, r), x)
  <2>1. PICK d : d = Renewed(c, r)
    OBVIOUS
  <2>2. In(d) = In(c) /\ d.state = [c.state EXCEPT ![r] = "NONE"]
    BY <1>5, <2>1, RenewKeeps
  <2> QED BY <1>1, <2>1, <2>2 DEF Sent
<1> QED BY <1>2, <1>3, <1>4, <1>5

(* The command that is sent belongs to a queued request marked as          *)
(* expecting; a command that was sent before stays so.                     *)
LEMMA SendDev ==
  ASSUME Good(queue, owed, run), DevInv, dev \in Reqs \cup {NULL}, NoSmart,
         NEW r \in Reqs, Execute(r) \/ Unsent(r), dev' # NULL
  PROVE  Sent(queue', dev') /\ run'.srb # dev'
PROOF
<1>1. MayGo(r) /\ run' = Idle /\ run.srb = r
  BY DEF Execute, Unsent, MayGo
<1>2. PICK c : c = Taken(r)
  OBVIOUS
<1>3. /\ Agreed(c, owed) /\ r \in In(c)
      /\ run.top => queue.total = 0
      /\ ~run.top => c = queue
  BY <1>1, <1>2, TakenKeeps
<1>4. queue' = InState(c, r, "EXPECTING")
  BY <1>2 DEF Execute, Unsent, NoSmart
<1>5. PICK d : d = InState(c, r, "EXPECTING")
  OBVIOUS
<1>6. "EXPECTING" \in ReqStates
  BY DEF ReqStates
<1>7. In(d) = In(c) /\ d.state = [c.state EXCEPT ![r] = "EXPECTING"]
  BY <1>3, <1>5, <1>6, StateKeeps DEF Agreed
<1>8. c.state \in [Reqs -> ReqStates]
  BY <1>3, SoundTypes DEF Agreed
<1>9. Sent(d, r)
  BY <1>3, <1>7, <1>8 DEF Sent
<1>10. CASE dev' = r
  BY <1>1, <1>4, <1>5, <1>9, <1>10, NullIs, IdleIs
<1>11. CASE dev' # r
  <2>1. dev' = dev
    BY <1>11 DEF Execute, Unsent
  <2>2. PICK x \in Reqs : x = dev
    BY <2>1
  <2>3. run # Resetting
    BY <1>1, NullIs, IdleIs
  <2>4. Sent(queue, x)
    BY <2>1, <2>2, <2>3 DEF DevInv
  <2>5. c = queue
    <3>1. ASSUME queue.total = 0 PROVE FALSE
      <4>1. In(queue) = {}
        BY <3>1, EmptyIn DEF Good
      <4> QED BY <2>4, <4>1 DEF Sent
    <3> QED BY <1>3, <3>1
  <2>6. Sent(d, x)
    BY <1>3, <1>5, <1>6, <1>11, <2>1, <2>2, <2>4, <2>5, SentStays DEF Agreed
  <2> QED BY <1>1, <1>4, <1>5, <2>1, <2>2, <2>6, NullIs, IdleIs
<1> QED BY <1>10, <1>11

(* A request that is answered is not the one that is executed. *)
LEMMA AnswerDev ==
  ASSUME Good(queue, owed, run), NoSmart, NEW x \in Reqs, Sent(queue, x), run.srb # x,
         NEW r \in Reqs, Answer(r) \/ Refuse(r)
  PROVE  Sent(queue', x) /\ run'.srb # x
PROOF
<1>1. MayGo(r) /\ run.srb = r
  BY DEF Answer, Refuse, MayGo
<1>2. ~run.top
  <2>1. queue.total # 0
    <3>1. ASSUME queue.total = 0 PROVE FALSE
      <4>1. In(queue) = {}
        BY <3>1, EmptyIn DEF Good
      <4> QED BY <4>1 DEF Sent
    <3> QED BY <3>1
  <2> QED BY <1>1, <2>1, TakenKeeps
<1>3. Taken(r) = queue /\ Agreed(queue, owed) /\ r \in In(queue) /\ Settled(queue, r)
  BY <1>1, <1>2, TakenKeeps
<1>4. PICK d : d = InState(queue, r, "COMPLETE")
  OBVIOUS
<1>5. "COMPLETE" \in ReqStates \ {"NONE"} /\ "COMPLETE" \in ReqStates
  BY DEF ReqStates
<1>6. Agreed(d, owed) /\ r \in In(d) /\ Settled(d, r)
  BY <1>3, <1>4, <1>5, StateAgreed
<1>7. Sent(d, x)
  BY <1>1, <1>3, <1>4, <1>5, SentStays DEF Agreed
<1>8. Finish(d, r, FALSE)
  BY <1>3, <1>4 DEF Answer, Refuse, NoSmart
<1>9. PICK e : e = RemoveRequest(d, r)
  OBVIOUS
<1>10. d.state[r] # "NONE"
  BY <1>6 DEF Settled
<1>11. Sent(e, x)
  BY <1>1, <1>6, <1>7, <1>9, <1>10, SentStays DEF Agreed
<1>12. queue' = e /\ run' = Fetch(e, FALSE)
  BY <1>8, <1>9 DEF Finish
<1>13. Fetch(e, FALSE).srb # x
  BY <1>11, FetchPasses DEF Sent
<1> QED BY <1>11, <1>12, <1>13

(* A request that is queued is not the one that is executed. *)
LEMMA PostDev ==
  ASSUME Good(queue, owed, run), NoSmart, NEW x \in Reqs, Sent(queue, x), run.srb # x,
         NEW r \in Reqs, PostPending(r) \/ PostAnswered(r) \/ PostSmart(r)
  PROVE  Sent(queue', x) /\ run'.srb # x
PROOF
<1>1. run.srb = r /\ run.top
  BY DEF PostPending, PostAnswered, PostSmart, MustWait
<1>2. Sound(queue) /\ r \notin In(queue)
  BY <1>1, NullIs DEF Good
<1>3. PICK st : st = Prepared(r)
  OBVIOUS
<1>4. st \in ReqStates \ {"NONE"} /\ st \in ReqStates
  BY <1>3, PreparedIs
<1>5. PICK b : b = InState(queue, r, st)
  OBVIOUS
<1>6. Sent(b, x) /\ Sound(b) /\ r \notin In(b)
  <2>1. Sound(b) /\ In(b) = In(queue)
    BY <1>2, <1>4, <1>5, StateKeeps
  <2>2. \A t \in ReqStates : Sent(InState(queue, r, t), x)
    BY <1>1, <1>2, SentStays
  <2> QED BY <1>2, <1>4, <1>5, <2>1, <2>2
<1>7. PICK d : d = QueueRequest(b, r)
  OBVIOUS
<1>8. Sent(d, x)
  BY <1>1, <1>6, <1>7, SentStays
<1>9. Agreed(d, owed) /\ r \in In(d) /\ Settled(d, r)
  BY <1>1, <1>4, <1>5, <1>7, QueueAgreed
<1>10. CASE PostPending(r)
  <2>1. queue' = d /\ run' = Idle
    BY <1>3, <1>5, <1>7, <1>10 DEF PostPending
  <2> QED BY <1>8, <2>1, NullIs, IdleIs
<1>11. CASE PostAnswered(r)
  <2>1. Finish(d, r, FALSE)
    BY <1>3, <1>5, <1>7, <1>11 DEF PostAnswered
  <2>2. PICK e : e = RemoveRequest(d, r)
    OBVIOUS
  <2>3. d.state[r] # "NONE"
    BY <1>9 DEF Settled
  <2>4. Sent(e, x)
    BY <1>1, <1>8, <1>9, <2>2, <2>3, SentStays DEF Agreed
  <2>5. queue' = e /\ run' = Fetch(e, FALSE)
    BY <2>1, <2>2 DEF Finish
  <2>6. Fetch(e, FALSE).srb # x
    BY <2>4, FetchPasses DEF Sent
  <2> QED BY <2>4, <2>5, <2>6
<1>12. ~PostSmart(r)
  BY DEF PostSmart, NoSmart
<1> QED BY <1>10, <1>11, <1>12

(* A new SRB is not the one that is executed. *)
LEMMA CallDev ==
  ASSUME Good(queue, owed, run), NEW x \in Reqs, Sent(queue, x), NEW r \in Reqs, Call(r)
  PROVE  Sent(queue', x) /\ run'.srb # x
PROOF
<1>1. run.srb = NULL /\ owed[r] = 0 /\ run'.srb = r /\ queue' = Renewed(queue, r)
  BY IdleIs DEF Call, Renewed
<1>2. Agreed(queue, owed)
  BY <1>1, IdleAgreed
<1>3. r \notin In(queue) /\ Sound(queue)
  BY <1>1, <1>2 DEF Agreed
<1>4. r # x
  BY <1>3 DEF Sent
<1>5. Sent(Renewed(queue, r), x)
  BY <1>3, <1>4, SentStays
<1> QED BY <1>1, <1>4, <1>5

(* An abort without a reset removes a request that is not executed. *)
LEMMA AbortDev ==
  ASSUME Good(queue, owed, run), NEW x \in Reqs, Sent(queue, x),
         NEW r \in Reqs, Abort(r), ~ResetCurrent
  PROVE  Sent(queue', x) /\ run'.srb # x
PROOF
<1>1. /\ run.srb = NULL /\ owed[r] = 1 /\ Level[queue.state[r]] <= Level["READY"]
      /\ queue' = RemoveRequest(queue, r) /\ run' = Fetch(queue', TRUE)
  BY IdleIs DEF Abort
<1>2. Agreed(queue, owed) /\ Settled(queue, r)
  BY <1>1, IdleAgreed
<1>3. Sound(queue) /\ r \in In(queue) /\ queue.state[r] # "NONE"
  BY <1>1, <1>2 DEF Agreed, Settled
<1>4. r # x
  BY <1>1 DEF Sent, Level
<1>5. Sent(queue', x)
  BY <1>1, <1>3, <1>4, SentStays
<1>6. PICK e : e = queue'
  OBVIOUS
<1>7. Fetch(e, TRUE).srb # x
  BY <1>5, <1>6, FetchPasses DEF Sent
<1> QED BY <1>1, <1>5, <1>6, <1>7

(* Every step keeps this. *)
LEMMA NextDev ==
  ASSUME RemovedOnce, NoSmart, IInv, DevInv, Next \/ UNCHANGED vars
  PROVE  DevInv'
PROOF
<1>1. Good(queue, owed, run) /\ dev \in Reqs \cup {NULL}
  BY DEF IInv
<1> SUFFICES ASSUME dev' # NULL, run' # Resetting
             PROVE  Sent(queue', dev') /\ run'.srb # dev'
  BY DEF DevInv
<1>2. CASE UNCHANGED vars
  BY <1>2 DEF vars, DevInv
<1>3. CASE Step
  <2>1. PICK r \in Reqs : \/ PostPending(r) \/ PostAnswered(r) \/ PostSmart(r)
                          \/ Execute(r) \/ Unsent(r) \/ Answer(r) \/ Refuse(r)
    BY <1>3 DEF Step, NoDrq, RemovedOnce
  <2>2. CASE Execute(r) \/ Unsent(r)
    BY <1>1, <2>2, SendDev
  <2>3. CASE \/ PostPending(r) \/ PostAnswered(r) \/ PostSmart(r)
             \/ Answer(r) \/ Refuse(r)
    <3>1. dev' = dev /\ run.srb = r
      BY <2>3 DEF PostPending, PostAnswered, PostSmart, Answer, Refuse, MustWait, MayGo
    <3>2. PICK x \in Reqs : x = dev
      BY <1>1, <3>1
    <3>3. Sent(queue, x) /\ run.srb # x
      BY <3>1, <3>2, NullIs, IdleIs DEF DevInv
    <3>4. Sent(queue', x) /\ run'.srb # x
      BY <1>1, <2>3, <3>3, PostDev, AnswerDev
    <3> QED BY <3>1, <3>2, <3>4
  <2> QED BY <2>1, <2>2, <2>3
<1>4. CASE Interrupt \/ ResetStep \/ ResetBus
  <2>1. dev' = NULL \/ run' = Resetting
    BY <1>4 DEF Interrupt, ResetStep, ResetBus, Stuck, ResetCurrent, NextPart, Retry, Done,
       ResetEnd, ResetOne
  <2> QED BY <2>1
<1>5. CASE PortDriver
  <2>1. run = Idle /\ run # Resetting
    BY <1>5, IdleIs DEF PortDriver, Immediate, ResetDevice, Call, Abort
  <2>2. CASE ResetDevice \/ ResetCurrent
    BY <2>2 DEF ResetDevice, ResetCurrent
  <2>3. CASE ~ResetDevice /\ ~ResetCurrent
    <3>1. dev' = dev
      BY <1>5, <2>3 DEF PortDriver, Immediate, Call, Abort
    <3>2. PICK x \in Reqs : x = dev
      BY <1>1, <3>1
    <3>3. Sent(queue, x)
      BY <2>1, <3>1, <3>2 DEF DevInv
    <3>4. CASE Immediate
      <4>1. queue' = queue /\ run' = Fetch(queue, TRUE)
        BY <3>4 DEF Immediate
      <4>2. Fetch(queue, TRUE).srb # x
        BY <3>3, FetchPasses DEF Sent
      <4> QED BY <3>1, <3>2, <3>3, <4>1, <4>2
    <3>5. CASE \E r \in Reqs : Call(r) \/ Abort(r)
      <4>1. Sent(queue', x) /\ run'.srb # x
        BY <1>1, <2>3, <3>3, <3>5, CallDev, AbortDev
      <4> QED BY <3>1, <3>2, <4>1
    <3> QED BY <1>5, <2>3, <3>4, <3>5 DEF PortDriver
  <2> QED BY <2>2, <2>3
<1> QED BY <1>2, <1>3, <1>4, <1>5 DEF Next

(* AtapiStartIo__ never takes up a request that the hardware executes      *)
(* ("current request is under precessing"), without the double removal of  *)
(* a PIO write and without SMART requests, which keep the state QUEUED     *)
(* while they are executed.                                                *)
THEOREM ExecutedIsLeftAlone ==
  ASSUME RemovedOnce, NoSmart
  PROVE  Spec => []LeftAlone
PROOF
<1>1. Undisturbed
  BY NoSmartOnce
<1>2. Init => DevInv
  BY DEF Init, DevInv
<1>3. IInv /\ DevInv /\ [Next]_vars => DevInv'
  BY NextDev
<1>4. IInv /\ DevInv => LeftAlone
  BY NullIs, IdleIs DEF IInv, DevInv, LeftAlone
<1>5. Spec => []IInv
  BY <1>1, IoInvariant
<1> QED BY <1>2, <1>3, <1>4, <1>5, PTL DEF Spec
-----------------------------------------------------------------------------
(* Nothing times out.  No request is answered while it is prepared and     *)
(* none is aborted: either may make another request the current one while  *)
(* the hardware executes the former (UniataRemoveRequest).                 *)
CurKept == (\A r \in Reqs : Kind[r] # "sense") /\ "abort" \notin Faults

PatientNext == Step \/ Interrupt \/ PortDriver

(* Nobody is executed when a command may be sent. *)
LEMMA NobodyExecuted ==
  ASSUME Good(queue, owed, run), CurInv, NEW r \in Reqs, MayGo(r)
  PROVE  dev = NULL
PROOF
<1>1. run.srb = r /\ r # NULL
  BY NullIs DEF MayGo
<1>2. run.top => queue.total = 0
  BY TakenKeeps
<1>3. queue.total = 0 => queue.cur = NULL
  BY SoundTypes DEF Good
<1> QED BY <1>1, <1>2, <1>3 DEF CurInv

(* A request that is queued behind others does not become the current one. *)
LEMMA PostCur ==
  ASSUME Good(queue, owed, run), NEW r \in Reqs, PostPending(r) \/ PostSmart(r)
  PROVE  queue'.cur = queue.cur
PROOF
<1>1. run.srb = r /\ run.top /\ queue.total # 0
  <2>1. run.srb = r /\ run.top /\ queue.total > 0
    BY DEF PostPending, PostSmart, MustWait
  <2> QED BY <2>1
<1>2. PICK st : st = Prepared(r)
  OBVIOUS
<1>3. st \in ReqStates \ {"NONE"} /\ "QUEUED" \in ReqStates \ {"NONE"}
  BY <1>2, PreparedIs DEF ReqStates
<1>4. PICK d : d = QueueRequest(InState(queue, r, st), r)
  OBVIOUS
<1>5. PICK e : e = InState(QueueRequest(queue, r), r, "QUEUED")
  OBVIOUS
<1>6. d.cur = queue.cur
  BY ZenonT(30), <1>1, <1>3, <1>4, QueueAgreed
<1>7. e.cur = queue.cur
  <2>1. e.cur = IF queue.total = 0 THEN r ELSE queue.cur
    <3>1. "QUEUED" \in ReqStates \ {"NONE"}
      BY DEF ReqStates
    <3> QED BY ZenonT(30), <1>1, <1>5, <3>1, QueueAgreed
  <2> QED BY <1>1, <2>1
<1>8. queue' = d \/ queue' = e
  BY <1>2, <1>4, <1>5 DEF PostPending, PostSmart
<1> QED BY <1>6, <1>7, <1>8

(* Every step but a bus reset keeps the executed request the current one.  *)
LEMMA NextCur ==
  ASSUME RemovedOnce, CurKept, IInv, CurInv, PatientNext \/ UNCHANGED vars
  PROVE  CurInv'
PROOF
<1>1. Good(queue, owed, run)
  BY DEF IInv
<1>2. CASE UNCHANGED vars
  BY <1>2 DEF vars, CurInv
<1>3. CASE Step
  <2>1. PICK r \in Reqs : \/ PostPending(r) \/ PostAnswered(r) \/ PostSmart(r)
                          \/ Execute(r) \/ Unsent(r) \/ Answer(r) \/ Refuse(r) \/ NoDrq(r)
    BY <1>3 DEF Step
  <2>2. ~PostAnswered(r)
    BY DEF CurKept, PostAnswered
  <2>3. CASE PostPending(r) \/ PostSmart(r)
    <3>1. queue'.cur = queue.cur /\ dev' = dev /\ run' = Idle
      BY <1>1, <2>3, PostCur DEF PostPending, PostSmart
    <3> QED BY <3>1, IdleIs DEF CurInv
  <2>4. CASE Execute(r)
    <3>1. PICK c : c = Taken(r)
      OBVIOUS
    <3>2. Agreed(c, owed) /\ c.cur = r
      BY <1>1, <2>4, <3>1, TakenKeeps DEF Execute
    <3>3. "EXPECTING" \in ReqStates
      BY DEF ReqStates
    <3>4. InState(c, r, "EXPECTING").cur = r
      BY <3>2, <3>3, StateKeeps DEF Agreed
    <3>5. queue'.cur = r /\ dev' = r /\ run' = Idle
      BY <2>4, <3>1, <3>2, <3>4 DEF Execute
    <3> QED BY <3>5, IdleIs DEF CurInv
  <2>5. CASE Unsent(r) \/ Answer(r) \/ Refuse(r) \/ NoDrq(r)
    <3>1. MayGo(r) /\ dev' = dev
      BY <2>5 DEF Unsent, Answer, Refuse, NoDrq
    <3>2. dev = NULL
      BY <1>1, <3>1, NobodyExecuted
    <3> QED BY <3>1, <3>2 DEF CurInv
  <2> QED BY <2>1, <2>2, <2>3, <2>4, <2>5
<1>4. CASE Interrupt
  <2>1. dev' = NULL
    BY <1>4 DEF Interrupt, Stuck, ResetCurrent, NextPart, Retry, Done
  <2> QED BY <2>1 DEF CurInv
<1>5. CASE PortDriver
  <2>1. CASE ResetDevice
    BY <2>1 DEF ResetDevice, CurInv
  <2>2. CASE Immediate
    <3>1. queue' = queue /\ dev' = dev /\ run' = Fetch(queue, TRUE)
      BY <2>2 DEF Immediate
    <3>2. Fetch(queue, TRUE).srb = NULL \/ Fetch(queue, TRUE).top
      BY IdleIs DEF Fetch
    <3> QED BY <3>1, <3>2 DEF CurInv
  <2>3. CASE \E r \in Reqs : Call(r)
    <3>1. PICK r \in Reqs : Call(r)
      BY <2>3
    <3>2. run.srb = NULL /\ owed[r] = 0
      BY <3>1, IdleIs DEF Call
    <3>3. Sound(queue) /\ r \notin In(queue)
      BY <1>1, <3>2, IdleAgreed DEF Agreed
    <3>4. queue' = Renewed(queue, r) /\ run'.top /\ dev' = dev
      BY <3>1 DEF Call, Renewed
    <3>5. Renewed(queue, r).cur = queue.cur
      BY <3>3, RenewKeeps
    <3> QED BY <3>4, <3>5 DEF CurInv
  <2>4. ~\E r \in Reqs : Abort(r)
    BY DEF CurKept, Abort
  <2> QED BY <1>5, <2>1, <2>2, <2>3, <2>4 DEF PortDriver
<1> QED BY <1>2, <1>3, <1>4, <1>5 DEF PatientNext

(* While the hardware executes a command the current request of the        *)
(* channel is the one the command belongs to (UniataGetCurRequest), so     *)
(* that AtapiInterrupt__ completes the right SRB.                          *)
THEOREM CurrentIsExecuted ==
  ASSUME Undisturbed, CurKept
  PROVE  PatientSpec => []CurIsExecuted
PROOF
<1>1. Init => IInv /\ CurInv
  BY InitGood DEF Init, CurInv
<1>2. IInv /\ CurInv /\ [PatientNext]_vars => IInv' /\ CurInv'
  <2>1. PatientNext => Next
    BY DEF PatientNext, Next
  <2>2. RemovedOnce
    BY DEF Undisturbed
  <2> QED BY <2>1, <2>2, NextGood, NextCur
<1>3. CurInv => CurIsExecuted
  BY DEF CurInv, CurIsExecuted
<1> QED BY <1>1, <1>2, <1>3, PTL DEF PatientSpec, PatientNext

(* Every request is sent to its drive, and nothing goes wrong but that     *)
(* commands end with an error.                                             *)
OnlyErrors == /\ \A r \in Reqs : Kind[r] \in {"dma", "pio", "verify", "smart"}
              /\ Faults \subseteq {"error", "immediate"}

(* These conditions imply the others. *)
LEMMA OnlyErrorsAre ==
  ASSUME OnlyErrors
  PROVE  RemovedOnce /\ CurKept
PROOF
  BY DEF OnlyErrors, RemovedOnce, CurKept

(* Every step but a bus reset keeps the channel busy. *)
LEMMA NextBusy ==
  ASSUME OnlyErrors, IInv, IInv', CurInv, BusyInv, PatientNext \/ UNCHANGED vars
  PROVE  BusyInv'
PROOF
<1>1. Good(queue, owed, run) /\ Good(queue', owed', run')
  BY DEF IInv
<1>2. CASE UNCHANGED vars
  BY <1>2 DEF vars, BusyInv
<1>3. CASE Step
  <2>1. PICK r \in Reqs : \/ PostPending(r) \/ PostSmart(r) \/ Execute(r) \/ Unsent(r)
    BY <1>3 DEF Step, OnlyErrors, PostAnswered, Answer, Refuse, NoDrq
  <2>2. CASE PostPending(r) \/ PostSmart(r)
    <3>1. run.top /\ queue.total > 0 /\ dev' = dev
      BY <2>2 DEF PostPending, PostSmart, MustWait
    <3> QED BY <3>1 DEF BusyInv
  <2>3. CASE Execute(r)
    <3>1. dev' = r
      BY <2>3 DEF Execute
    <3> QED BY <3>1, NullIs DEF BusyInv
  <2>4. ~Unsent(r)
    <3>1. MayGo(r) => dev = NULL
      BY <1>1, NobodyExecuted
    <3>2. "busy" \notin Faults
      BY DEF OnlyErrors
    <3> QED BY <3>1, <3>2 DEF Unsent
  <2> QED BY <2>1, <2>2, <2>3, <2>4
<1>4. CASE Interrupt
  <2>1. PICK r \in Reqs : NextPart(r) \/ Retry(r) \/ Done(r)
    BY <1>4 DEF Interrupt, Stuck, OnlyErrors
  <2>2. CASE NextPart(r) \/ Retry(r)
    <3>1. run' = [srb |-> r, top |-> FALSE]
      BY <2>2 DEF NextPart, Retry
    <3> QED BY <3>1, NullIs DEF BusyInv
  <2>3. CASE Done(r)
    <3>1. run' = [srb |-> queue'.cur, top |-> FALSE]
      BY <2>3 DEF Done
    <3>2. PICK d : d = queue'
      OBVIOUS
    <3>3. d.total \in Nat /\ (d.total = 0 <=> d.cur = NULL)
      BY <1>1, <3>2, SoundTypes DEF Good
    <3>4. run'.srb = d.cur /\ run'.top = FALSE
      BY <3>1, <3>2
    <3> QED BY <3>2, <3>3, <3>4 DEF BusyInv
  <2> QED BY <2>1, <2>2, <2>3
<1>5. CASE PortDriver
  <2>1. run.srb = NULL
    BY <1>5, IdleIs DEF PortDriver, Immediate, ResetDevice, Call, Abort
  <2>2. CASE Immediate
    BY <2>1, <2>2 DEF Immediate, BusyInv
  <2>3. CASE \E r \in Reqs : Call(r)
    <3>1. PICK r \in Reqs : Call(r)
      BY <2>3
    <3>2. owed[r] = 0 /\ queue' = Renewed(queue, r) /\ dev' = dev
      BY <3>1 DEF Call, Renewed
    <3>3. Sound(queue) /\ r \notin In(queue)
      BY <1>1, <2>1, <3>2, IdleAgreed DEF Agreed
    <3>4. Renewed(queue, r).total = queue.total
      BY <3>3, RenewKeeps
    <3> QED BY <2>1, <3>2, <3>4 DEF BusyInv
  <2> QED BY <1>5, <2>2, <2>3 DEF PortDriver, ResetDevice, Abort, OnlyErrors
<1> QED BY <1>2, <1>3, <1>4, <1>5 DEF PatientNext

(* The loop of AtapiStartIo__ and the interrupt handler leave no channel   *)
(* idle that has requests ("fetch all queued commands for the channel").   *)
THEOREM ChannelStaysBusy ==
  ASSUME OnlyErrors, QueuedOnce
  PROVE  PatientSpec => []StaysBusy
PROOF
<1>1. Undisturbed /\ RemovedOnce /\ CurKept
  BY OnlyErrorsAre DEF Undisturbed
<1>2. Init => IInv /\ CurInv /\ BusyInv
  <2>1. Init => BusyInv
    BY DEF Init, BusyInv, EmptyQueue
  <2>2. Init => CurInv
    BY DEF Init, CurInv
  <2> QED BY <2>1, <2>2, InitGood
<1>3. IInv /\ CurInv /\ BusyInv /\ [PatientNext]_vars => IInv' /\ CurInv' /\ BusyInv'
  <2>1. PatientNext => Next
    BY DEF PatientNext, Next
  <2> QED BY <1>1, <2>1, NextGood, NextCur, NextBusy
<1>4. BusyInv => StaysBusy
  BY IdleIs DEF BusyInv, StaysBusy
<1> QED BY <1>2, <1>3, <1>4, PTL DEF PatientSpec, PatientNext
=============================================================================
