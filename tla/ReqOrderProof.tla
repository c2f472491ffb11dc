--------------------------- MODULE ReqOrderProof ---------------------------
(***************************************************************************)
(* Proofs about ReqOrder for every set of requests, every assignment of    *)
(* commands to them and every value of the limits.                         *)
(***************************************************************************)
EXTENDS ReqOrder, TLAPS

(* Where element i stood before an insertion behind p.                     *)
Place(i, p) == IF i <= p THEN i ELSE i - 1

(* What PutBehind returns: one element more, in the old order around r.    *)
LEMMA PutBehindProps ==
  ASSUME NEW s \in Seq(Reqs), NEW r \in Reqs, NEW p \in 1..Len(s)
  PROVE  /\ PutBehind(s, p, r) \in Seq(Reqs)
         /\ Len(PutBehind(s, p, r)) = Len(s) + 1
         /\ PutBehind(s, p, r)[p + 1] = r
         /\ \A i \in 1..Len(s) + 1 :
              i # p + 1 => /\ Place(i, p) \in 1..Len(s)
                           /\ PutBehind(s, p, r)[i] = s[Place(i, p)]
         /\ \A i, j \in 1..Len(s) + 1 :
              i # p + 1 /\ j # p + 1 /\ i < j => Place(i, p) < Place(j, p)
  BY DEF PutBehind, Place

(* An insertion adds the inserted element and nothing else.                *)
LEMMA PutBehindMembers ==
  ASSUME NEW s \in Seq(Reqs), NEW r \in Reqs, NEW p \in 1..Len(s)
  PROVE  /\ Members(PutBehind(s, p, r)) = Members(s) \cup {r}
         /\ Distinct(s) /\ r \notin Members(s) => Distinct(PutBehind(s, p, r))
<1> DEFINE t == PutBehind(s, p, r)
<1>1. /\ Len(t) = Len(s) + 1
      /\ t[p + 1] = r
      /\ \A i \in 1..Len(t) : i # p + 1 => /\ Place(i, p) \in 1..Len(s)
                                          /\ t[i] = s[Place(i, p)]
  BY PutBehindProps
<1> HIDE DEF t
<1>2. Members(t) \subseteq Members(s) \cup {r}
  BY <1>1 DEF Members
<1>3. ASSUME NEW i \in 1..Len(s) PROVE s[i] \in Members(t)
  <2> DEFINE k == IF i <= p THEN i ELSE i + 1
  <2>1. k \in 1..Len(t) /\ k # p + 1 /\ Place(k, p) = i
    BY <1>1 DEF Place
  <2> QED
    BY <1>1, <2>1 DEF Members
<1>4. r \in Members(t)
  BY <1>1 DEF Members
<1>5. ASSUME Distinct(s), r \notin Members(s) PROVE Distinct(t)
  <2>1. ASSUME NEW i \in 1..Len(t), NEW j \in 1..Len(t), t[i] = t[j]
        PROVE  i = j
    <3>1. CASE i = p + 1 \/ j = p + 1
      BY <1>1, <1>5, <2>1, <3>1 DEF Members
    <3>2. CASE i # p + 1 /\ j # p + 1
      <4>1. Place(i, p) = Place(j, p)
        BY <1>1, <1>5, <2>1, <3>2 DEF Distinct
      <4> QED
        BY <4>1, <3>2, <1>1 DEF Place
    <3> QED
      BY <3>1, <3>2
  <2> QED
    BY <2>1 DEF Distinct
<1>6. Members(s) \subseteq Members(t)
  BY <1>3 DEF Members
<1> QED
  BY <1>2, <1>4, <1>5, <1>6 DEF t

(* Where element i stood before element p was taken out.                   *)
Former(i, p) == IF i < p THEN i ELSE i + 1

(* What TakeOut returns: one element less, the others in the old order.    *)
LEMMA TakeOutProps ==
  ASSUME NEW s \in Seq(Reqs), NEW p \in 1..Len(s)
  PROVE  /\ TakeOut(s, p) \in Seq(Reqs)
         /\ Len(TakeOut(s, p)) = Len(s) - 1
         /\ \A i \in 1..Len(s) - 1 :
              /\ Former(i, p) \in 1..Len(s) \ {p}
              /\ TakeOut(s, p)[i] = s[Former(i, p)]
         /\ \A i, j \in 1..Len(s) - 1 : i < j => Former(i, p) < Former(j, p)
  BY DEF TakeOut, Former

(* A removal takes away the removed element and nothing else.              *)
LEMMA TakeOutMembers ==
  ASSUME NEW s \in Seq(Reqs), NEW p \in 1..Len(s), Distinct(s)
  PROVE  /\ Members(TakeOut(s, p)) = Members(s) \ {s[p]}
         /\ Distinct(TakeOut(s, p))
<1> DEFINE t == TakeOut(s, p)
<1>1. /\ Len(t) = Len(s) - 1
      /\ \A i \in 1..Len(t) : /\ Former(i, p) \in 1..Len(s) \ {p}
                              /\ t[i] = s[Former(i, p)]
  <2>1. Len(t) = Len(s) - 1
    BY TakeOutProps
  <2>2. \A i \in 1..Len(s) - 1 : /\ Former(i, p) \in 1..Len(s) \ {p}
                                 /\ t[i] = s[Former(i, p)]
    BY TakeOutProps
  <2> HIDE DEF t
  <2> QED BY <2>1, <2>2
<1> HIDE DEF t
<1>2. Members(t) \subseteq Members(s) \ {s[p]}
  BY <1>1 DEF Members, Distinct
<1>3. ASSUME NEW i \in 1..Len(s), i # p PROVE s[i] \in Members(t)
  <2> DEFINE k == IF i < p THEN i ELSE i - 1
  <2>1. k \in 1..Len(t) /\ Former(k, p) = i
    BY <1>1, <1>3 DEF Former
  <2> QED
    BY <1>1, <2>1 DEF Members
<1>4. Members(s) \ {s[p]} \subseteq Members(t)
  BY <1>3 DEF Members
<1>5. ASSUME NEW i \in 1..Len(t), NEW j \in 1..Len(t), t[i] = t[j]
      PROVE  i = j
  <2>1. Former(i, p) = Former(j, p)
    BY <1>1, <1>5 DEF Distinct
  <2> QED
    BY <2>1, <1>1 DEF Former
<1> QED
  BY <1>2, <1>4, <1>5 DEF t, Distinct

(* The first ttl of a request fits its byte and respects the limit.        *)
LEMMA FirstTtlProps ==
  ASSUME NEW d \in Nat
  PROVE  /\ FirstTtl(d) \in 0..TtlMod - 1
         /\ d < MaxDepth => FirstTtl(d) <= OvertakeLimit
<1> DEFINE m == IF d >= MinTtl THEN d ELSE MinTtl
<1>1. m \in Nat
  BY TtlAssumption
<1>2. m % TtlMod \in 0..TtlMod - 1
  BY <1>1, TtlAssumption
<1>3. m % TtlMod <= m
  BY <1>1, <1>2, TtlAssumption, Z3
<1> QED
  BY <1>2, <1>3, TtlAssumption DEF FirstTtl, OvertakeLimit
-----------------------------------------------------------------------------
(* Each request is for a device of the channel.                            *)
LEMMA LunType == \A r \in Reqs : Lun(r) \in Luns
  BY CmdAssumption DEF Lun, Command

(* Each step keeps the types, and no request gets queued twice.            *)
LEMMA TypeStep == TypeOK /\ [Next]_vars => TypeOK'
<1> SUFFICES ASSUME TypeOK, [Next]_vars PROVE TypeOK'
  OBVIOUS
<1> USE LunType, TtlAssumption
<1>1. CASE UNCHANGED vars
  BY <1>1 DEF TypeOK, vars
<1>2. ASSUME NEW r \in Reqs, ArriveIdle(r) PROVE TypeOK'
  <2>1. <<r>> \in Seq(Reqs) /\ Members(<<r>>) = {r} /\ Distinct(<<r>>)
    BY DEF Members, Distinct
  <2>2. \A l \in Luns : queue'[l] = IF l = Lun(r) THEN <<r>> ELSE queue[l]
    BY <1>2 DEF TypeOK, ArriveIdle, PlaceFirst
  <2>3. /\ queue' \in [Luns -> Seq(Reqs)]
        /\ ttl' \in [Reqs -> 0..TtlMod - 1]
        /\ older' \subseteq Reqs \X Reqs
        /\ passed' \in [Reqs -> 0..TtlMod]
    BY <1>2, <2>1 DEF TypeOK, ArriveIdle, PlaceFirst
  <2> QED
    BY <2>1, <2>2, <2>3 DEF TypeOK
<1>3. ASSUME NEW r \in Reqs, ArriveBusy(r) PROVE TypeOK'
  <2> DEFINE q == queue[Lun(r)]
  <2>1. q \in Seq(Reqs) /\ Distinct(q) /\ r \notin Members(q)
    BY <1>3 DEF TypeOK, ArriveBusy, PlaceBehind
  <2>2. PICK p \in Places(r, q) :
          /\ queue' = [queue EXCEPT ![Lun(r)] = PutBehind(q, p, r)]
          /\ ttl' = [s \in Reqs |->
                       IF s = r THEN FirstTtl(Len(q))
                       ELSE IF s \in {q[i] : i \in p+1..Len(q)}
                            THEN Older(ttl[s]) ELSE ttl[s]]
          /\ passed' = [s \in Reqs |->
                          IF s = r THEN 0
                          ELSE IF s \in {q[i] : i \in p+1..Len(q)}
                               THEN Count(passed[s]) ELSE passed[s]]
    BY <1>3 DEF ArriveBusy, PlaceBehind
  <2>3. p \in 1..Len(q)
    BY DEF Places
  <2>4. /\ PutBehind(q, p, r) \in Seq(Reqs)
        /\ Members(PutBehind(q, p, r)) = Members(q) \cup {r}
        /\ Distinct(PutBehind(q, p, r))
    BY <2>1, <2>3, PutBehindProps, PutBehindMembers
  <2>5. \A l \in Luns :
          queue'[l] = IF l = Lun(r) THEN PutBehind(q, p, r) ELSE queue[l]
    BY <2>2 DEF TypeOK
  <2>6. queue' \in [Luns -> Seq(Reqs)]
    BY <2>2, <2>4 DEF TypeOK
  <2>7. ttl' \in [Reqs -> 0..TtlMod - 1]
    <3>1. FirstTtl(Len(q)) \in 0..TtlMod - 1
      <4>1. Len(q) \in Nat
        BY <2>1
      <4> QED
        BY <4>1, FirstTtlProps
    <3>2. \A t \in 0..TtlMod - 1 : Older(t) \in 0..TtlMod - 1
      BY DEF Older
    <3> QED
      BY <2>2, <3>1, <3>2 DEF TypeOK
  <2>8. passed' \in [Reqs -> 0..TtlMod]
    <3>1. \A n \in 0..TtlMod : Count(n) \in 0..TtlMod
      BY DEF Count
    <3> QED
      BY <2>2, <3>1 DEF TypeOK
  <2>9. older' \subseteq Reqs \X Reqs
    BY SMTT(30), <1>3, <2>1 DEF TypeOK, ArriveBusy, PlaceBehind, Members
  <2> QED
    BY <2>4, <2>5, <2>6, <2>7, <2>8, <2>9 DEF TypeOK
<1>4. ASSUME NEW r \in Reqs, Depart(r) PROVE TypeOK'
  <2> DEFINE q == queue[Lun(r)]
  <2>1. q \in Seq(Reqs) /\ Distinct(q)
    BY DEF TypeOK
  <2>2. PICK p \in 1..Len(q) :
          queue' = [queue EXCEPT ![Lun(r)] = TakeOut(q, p)]
    BY <1>4 DEF Depart, TakeAway
  <2>3. /\ TakeOut(q, p) \in Seq(Reqs)
        /\ Members(TakeOut(q, p)) \subseteq Members(q)
        /\ Distinct(TakeOut(q, p))
    BY <2>1, TakeOutProps, TakeOutMembers
  <2>4. \A l \in Luns :
          queue'[l] = IF l = Lun(r) THEN TakeOut(q, p) ELSE queue[l]
    BY <2>2 DEF TypeOK
  <2>5. queue' \in [Luns -> Seq(Reqs)]
    BY <2>2, <2>3 DEF TypeOK
  <2>6. /\ ttl' \in [Reqs -> 0..TtlMod - 1]
        /\ passed' \in [Reqs -> 0..TtlMod]
    <3>1. /\ ttl' = [ttl EXCEPT ![r] = 0]
          /\ passed' = [passed EXCEPT ![r] = 0]
      BY <1>4 DEF Depart, TakeAway
    <3> QED
      BY <3>1 DEF TypeOK
  <2>7. older' \subseteq Reqs \X Reqs
    <3>1. older' \subseteq older
      BY <1>4 DEF Depart, TakeAway
    <3> QED
      BY <3>1 DEF TypeOK
  <2> QED
    BY <2>3, <2>4, <2>5, <2>6, <2>7 DEF TypeOK
<1> QED
  BY <1>1, <1>2, <1>3, <1>4 DEF Next

(* Type correctness: in particular no request is ever queued twice.        *)
THEOREM TypeCorrect == Spec => []TypeOK
<1>1. Init => TypeOK
  BY TtlAssumption DEF Init, InitPlaces, TypeOK, Members, Distinct
<1> QED
  BY <1>1, TypeStep, PTL DEF Spec
-----------------------------------------------------------------------------
(* The strengthening.  ConflictOrder alone is not inductive: a pair left   *)
(* over in the history from an earlier stay of r would be read as one of   *)
(* its present stay; so the history must speak of queued requests only.    *)
(* And a request may be overtaken only while its ttl lasts, so what is     *)
(* invariant is the sum of the overtakings suffered and those left.        *)
HistoryQueued ==
  \A a, b \in Reqs : <<a, b>> \in older =>
    a \in Members(queue[Lun(a)]) /\ b \in Members(queue[Lun(b)])

Budget == (\A r \in Reqs : ~Jumps(r)) =>
            \A r \in Reqs : passed[r] + ttl[r] <= OvertakeLimit

OrderInv == TypeOK /\ HistoryQueued /\ ConflictOrder

BudgetInv == TypeOK /\ Budget

(* s was allowed to be put in front of r. *)
Allowed(s, r) == \/ Jumps(s)
                 \/ Roams(s) /\ BothReorderable(s, r) /\ ~Conflict(s, r)

(* Each step keeps what the order theorem rests on.                        *)
LEMMA OrderStep == OrderInv /\ [Next]_vars => OrderInv'
<1> SUFFICES ASSUME OrderInv, [Next]_vars PROVE OrderInv'
  OBVIOUS
<1> USE LunType
<1>0. TypeOK /\ TypeOK'
  BY TypeStep DEF OrderInv
<1>1. CASE UNCHANGED vars
  BY <1>0, <1>1 DEF OrderInv, HistoryQueued, ConflictOrder, Overtook, vars
<1>2. ASSUME NEW r \in Reqs, ArriveIdle(r) PROVE OrderInv'
  <2>1. /\ queue[Lun(r)] = << >>
        /\ older' = older
        /\ \A l \in Luns : queue'[l] = IF l = Lun(r) THEN <<r>> ELSE queue[l]
    BY <1>0, <1>2 DEF TypeOK, ArriveIdle, PlaceFirst
  <2>2. HistoryQueued'
    <3>1. Members(<< >>) = {}
      BY DEF Members
    <3> QED
      BY <2>1, <3>1 DEF OrderInv, HistoryQueued
  <2>3. ASSUME NEW s \in Reqs, NEW t \in Reqs, Overtook(s, t)'
        PROVE  Overtook(s, t)
    <3>1. PICK l \in Luns : \E i, j \in 1..Len(queue'[l]) :
            /\ i < j /\ queue'[l][i] = s /\ queue'[l][j] = t
            /\ <<t, s>> \in older
      BY <2>1, <2>3 DEF Overtook
    <3>2. l # Lun(r)
      BY <2>1, <3>1
    <3> QED
      BY <2>1, <3>1, <3>2 DEF Overtook
  <2> QED
    BY <1>0, <2>2, <2>3 DEF OrderInv, ConflictOrder
<1>3. ASSUME NEW r \in Reqs, ArriveBusy(r) PROVE OrderInv'
  <2> DEFINE q == queue[Lun(r)]
  <2>1. q \in Seq(Reqs) /\ r \notin Members(q)
    BY <1>0, <1>3 DEF TypeOK, ArriveBusy, PlaceBehind
  <2>2. older' = older \cup {<<s, r>> : s \in Members(q)}
    BY <1>3 DEF ArriveBusy, PlaceBehind
  <2>3. PICK p \in Places(r, q) :
          queue' = [queue EXCEPT ![Lun(r)] = PutBehind(q, p, r)]
    BY <1>3 DEF ArriveBusy, PlaceBehind
  <2>4. p \in 1..Len(q)
    BY DEF Places
  <2>5. \A l \in Luns :
          queue'[l] = IF l = Lun(r) THEN PutBehind(q, p, r) ELSE queue[l]
    BY <1>0, <2>3 DEF TypeOK
  <2>6. Members(PutBehind(q, p, r)) = Members(q) \cup {r}
    BY <2>1, <2>4, PutBehindMembers
  <2>7. HistoryQueued'
    <3>1. \A s \in Members(q) : Lun(s) = Lun(r)
      BY <1>0 DEF TypeOK
    <3> QED
      BY <2>2, <2>5, <2>6, <3>1 DEF OrderInv, HistoryQueued
  <2>8. \A a \in Reqs : <<a, r>> \notin older /\ <<r, a>> \notin older
    BY <2>1 DEF OrderInv, HistoryQueued
  <2>9. ASSUME NEW s \in Reqs, NEW t \in Reqs, Overtook(s, t)'
        PROVE  Allowed(s, t)
    <3>0. PICK l \in Luns : \E i, j \in 1..Len(queue'[l]) :
            /\ i < j /\ queue'[l][i] = s /\ queue'[l][j] = t
            /\ <<t, s>> \in older'
      BY <2>9 DEF Overtook
    <3>1. PICK i \in 1..Len(queue'[l]), j \in 1..Len(queue'[l]) :
            /\ i < j /\ queue'[l][i] = s /\ queue'[l][j] = t
            /\ <<t, s>> \in older'
      BY <3>0
    <3>2. CASE l # Lun(r)
      <4>1. queue'[l] = queue[l] /\ s \in Members(queue[l])
        BY <2>5, <3>1, <3>2 DEF Members
      <4>2. s # r
        BY <1>0, <3>2, <4>1 DEF TypeOK
      <4>3. <<t, s>> \in older
        BY <2>2, <3>1, <4>2
      <4>4. Overtook(s, t)
        BY <3>1, <4>1, <4>3 DEF Overtook
      <4> QED
        BY <4>4 DEF OrderInv, ConflictOrder, Allowed
    <3>3. CASE l = Lun(r)
      <4> DEFINE u == PutBehind(q, p, r)
      <4>1. /\ queue'[l] = u
            /\ Len(u) = Len(q) + 1
            /\ u[p + 1] = r
            /\ \A k \in 1..Len(q) + 1 : k # p + 1 =>
                 Place(k, p) \in 1..Len(q) /\ u[k] = q[Place(k, p)]
            /\ \A k, m \in 1..Len(q) + 1 :
                 k # p + 1 /\ m # p + 1 /\ k < m => Place(k, p) < Place(m, p)
        BY ZenonT(60), <2>1, <2>4, <2>5, <3>3, PutBehindProps
      <4> HIDE DEF u
      <4>2. i \in 1..Len(q) + 1 /\ j \in 1..Len(q) + 1
        BY <4>1, <3>1
      <4>3. CASE i = p + 1
        <5>1. s = r
          BY <3>1, <4>1, <4>3
        <5>2. Place(j, p) \in p+1..Len(q) /\ t = q[Place(j, p)]
          BY <2>1, <2>4, <3>1, <4>1, <4>2, <4>3 DEF Place
        <5>3. p # Len(q)
          BY <2>1, <2>4, <5>2
        <5>4. \/ Roams(r) /\ MayPass(r, t)
              \/ Jumps(r)
          BY <5>2, <5>3, <2>4 DEF Places
        <5> QED
          BY <5>1, <5>4 DEF MayPass, Allowed
      <4>4. CASE i # p + 1
        <5>1. s \in Members(q) /\ s # r
          BY <2>1, <3>1, <4>1, <4>2, <4>4 DEF Members
        <5>2. <<t, s>> \in older
          BY <2>2, <3>1, <5>1
        <5>3. t # r
          BY <2>8, <5>2
        <5>4. j # p + 1
          BY <3>1, <4>1, <5>3
        <5>5. /\ Place(i, p) < Place(j, p)
              /\ q[Place(i, p)] = s /\ q[Place(j, p)] = t
              /\ Place(i, p) \in 1..Len(q) /\ Place(j, p) \in 1..Len(q)
          BY <3>1, <4>1, <4>2, <4>4, <5>4
        <5>6. Overtook(s, t)
          BY <5>2, <5>5 DEF Overtook
        <5> QED
          BY <5>6 DEF OrderInv, ConflictOrder, Allowed
      <4> QED
        BY <4>3, <4>4
    <3> QED
      BY <3>2, <3>3
  <2> QED
    BY <1>0, <2>7, <2>9 DEF OrderInv, ConflictOrder, Allowed
<1>4. ASSUME NEW r \in Reqs, Depart(r) PROVE OrderInv'
  <2> DEFINE q == queue[Lun(r)]
  <2>1. q \in Seq(Reqs) /\ Distinct(q)
    BY <1>0 DEF TypeOK
  <2>2. older' = {e \in older : r \notin {e[1], e[2]}}
    BY <1>4 DEF Depart, TakeAway
  <2>3. PICK p \in 1..Len(q) :
          q[p] = r /\ queue' = [queue EXCEPT ![Lun(r)] = TakeOut(q, p)]
    BY <1>4 DEF Depart, TakeAway
  <2>4. \A l \in Luns :
          queue'[l] = IF l = Lun(r) THEN TakeOut(q, p) ELSE queue[l]
    BY <1>0, <2>3 DEF TypeOK
  <2>5. Members(TakeOut(q, p)) = Members(q) \ {r}
    BY <2>1, <2>3, TakeOutMembers
  <2>6. HistoryQueued'
    BY <2>2, <2>4, <2>5 DEF OrderInv, HistoryQueued
  <2>7. ASSUME NEW s \in Reqs, NEW t \in Reqs, Overtook(s, t)'
        PROVE  Overtook(s, t)
    <3>0. PICK l \in Luns : \E i, j \in 1..Len(queue'[l]) :
            /\ i < j /\ queue'[l][i] = s /\ queue'[l][j] = t
            /\ <<t, s>> \in older
      BY <2>2, <2>7 DEF Overtook
    <3>1. PICK i \in 1..Len(queue'[l]), j \in 1..Len(queue'[l]) :
            /\ i < j /\ queue'[l][i] = s /\ queue'[l][j] = t
            /\ <<t, s>> \in older
      BY <3>0
    <3>2. CASE l # Lun(r)
      BY <2>4, <3>1, <3>2 DEF Overtook
    <3>3. CASE l = Lun(r)
      <4> DEFINE u == TakeOut(q, p)
      <4>0. q \in Seq(Reqs) /\ p \in 1..Len(q)
        BY <2>1
      <4> HIDE DEF q
      <4>1. /\ Len(u) = Len(q) - 1
            /\ \A k \in 1..Len(q) - 1 : /\ Former(k, p) \in 1..Len(q) \ {p}
                                         /\ u[k] = q[Former(k, p)]
            /\ \A k, m \in 1..Len(q) - 1 : k < m => Former(k, p) < Former(m, p)
        BY <4>0, TakeOutProps
      <4>3. queue'[l] = u
        BY <2>4, <3>3
      <4> HIDE DEF u
      <4>2. /\ Former(i, p) < Former(j, p)
            /\ Former(i, p) \in 1..Len(q) /\ Former(j, p) \in 1..Len(q)
            /\ q[Former(i, p)] = s /\ q[Former(j, p)] = t
        BY <3>1, <4>1, <4>3
      <4> QED
        BY <3>1, <3>3, <4>2 DEF Overtook, q
    <3> QED
      BY <3>2, <3>3
  <2> QED
    BY <1>0, <2>6, <2>7 DEF OrderInv, ConflictOrder
<1> QED
  BY <1>1, <1>2, <1>3, <1>4 DEF Next

(* Of two conflicting requests the older is served first, whatever the     *)
(* history of arrivals, completions and aborts (UniataQueueRequest,        *)
(* UniataGetCost): only HEAD_OF_QUEUE is exempt.                           *)
THEOREM ConflictsKeepOrder == Spec => []ConflictOrder
<1>1. Init => OrderInv
  <2>1. Init => TypeOK
    BY TtlAssumption DEF Init, InitPlaces, TypeOK, Members, Distinct
  <2> QED
    BY <2>1 DEF Init, InitPlaces, OrderInv, HistoryQueued, ConflictOrder, Overtook
<1>2. OrderInv => ConflictOrder
  BY DEF OrderInv
<1> QED
  BY <1>1, <1>2, OrderStep, PTL DEF Spec
-----------------------------------------------------------------------------
(* Overtakings suffered and overtakings left never exceed the limit.       *)
LEMMA BudgetStep == BudgetInv /\ [Next]_vars => BudgetInv'
<1> SUFFICES ASSUME BudgetInv, [Next]_vars, \A r \in Reqs : ~Jumps(r)
             PROVE  \A s \in Reqs : passed'[s] + ttl'[s] <= OvertakeLimit
  BY TypeStep DEF BudgetInv, Budget, Jumps
<1> USE LunType
<1>0. /\ TypeOK
      /\ \A s \in Reqs : passed[s] + ttl[s] <= OvertakeLimit
  BY DEF BudgetInv, Budget
<1>1. /\ OvertakeLimit \in Nat
      /\ ttl \in [Reqs -> 0..TtlMod - 1]
      /\ passed \in [Reqs -> 0..TtlMod]
  BY <1>0, TtlAssumption DEF TypeOK, OvertakeLimit
<1>2. CASE UNCHANGED vars
  BY <1>0, <1>2 DEF vars
<1>3. ASSUME NEW r \in Reqs, ArriveIdle(r) \/ Depart(r)
      PROVE  \A s \in Reqs : passed'[s] + ttl'[s] <= OvertakeLimit
  <2>1. ttl' = [ttl EXCEPT ![r] = 0] /\ passed' = [passed EXCEPT ![r] = 0]
    BY <1>3 DEF ArriveIdle, PlaceFirst, Depart, TakeAway
  <2> QED
    BY <2>1, <1>0, <1>1
<1>4. ASSUME NEW r \in Reqs, ArriveBusy(r)
      PROVE  \A s \in Reqs : passed'[s] + ttl'[s] <= OvertakeLimit
  <2> DEFINE q == queue[Lun(r)]
  <2>1. q \in Seq(Reqs) /\ Len(q) < MaxDepth /\ Len(q) \in Nat
    BY <1>0, <1>4 DEF TypeOK, ArriveBusy, PlaceBehind
  <2>2. PICK p \in Places(r, q) :
          /\ ttl' = [s \in Reqs |->
                       IF s = r THEN FirstTtl(Len(q))
                       ELSE IF s \in {q[i] : i \in p+1..Len(q)}
                            THEN Older(ttl[s]) ELSE ttl[s]]
          /\ passed' = [s \in Reqs |->
                          IF s = r THEN 0
                          ELSE IF s \in {q[i] : i \in p+1..Len(q)}
                               THEN Count(passed[s]) ELSE passed[s]]
    BY <1>4 DEF ArriveBusy, PlaceBehind
  <2>3. FirstTtl(Len(q)) <= OvertakeLimit /\ FirstTtl(Len(q)) \in Nat
    <3> HIDE DEF q
    <3> QED
      BY <2>1, FirstTtlProps, TtlAssumption
  <2>4. ASSUME NEW i \in p+1..Len(q) PROVE ttl[q[i]] > 0
    <3>1. p \in 1..Len(q) /\ p # Len(q)
      BY <2>1 DEF Places
    <3>2. \A k \in p+1..Len(q) : MayPass(r, q[k])
      BY <3>1 DEF Places
    <3> QED
      BY <3>2 DEF MayPass
  <2>5. ASSUME NEW s \in Reqs PROVE passed'[s] + ttl'[s] <= OvertakeLimit
    <3>1. CASE s = r
      BY <2>2, <2>3, <3>1
    <3>2. CASE s # r /\ s \in {q[i] : i \in p+1..Len(q)}
      <4>1. ttl[s] > 0
        BY <2>4, <3>2
      <4>2. ttl'[s] = ttl[s] - 1
        BY <1>1, <2>2, <3>2, <4>1 DEF Older
      <4>3. passed'[s] <= passed[s] + 1 /\ passed'[s] \in Nat
        BY <1>1, <2>2, <3>2, TtlAssumption DEF Count
      <4> QED
        BY <1>0, <1>1, <4>2, <4>3
    <3>3. CASE s # r /\ s \notin {q[i] : i \in p+1..Len(q)}
      BY <1>0, <2>2, <3>3
    <3> QED
      BY <3>1, <3>2, <3>3
  <2> QED
    BY <2>5
<1> QED
  BY <1>2, <1>3, <1>4 DEF Next

(* Reordering starves nobody: as long as no HEAD_OF_QUEUE requests are     *)
(* sent, a request is overtaken at most OvertakeLimit times during its     *)
(* stay (ttl in UniataQueueRequest and UniataGetCost).                     *)
THEOREM OvertakingIsBounded == Spec => []BoundedOvertaking
<1>1. Init => BudgetInv
  <2>1. Init => TypeOK
    BY TtlAssumption DEF Init, InitPlaces, TypeOK, Members, Distinct
  <2>2. OvertakeLimit \in Nat
    BY TtlAssumption DEF OvertakeLimit
  <2> QED
    BY <2>1, <2>2 DEF Init, InitPlaces, BudgetInv, Budget
<1>2. BudgetInv => BoundedOvertaking
  <2> SUFFICES ASSUME BudgetInv, \A r \in Reqs : ~Jumps(r), NEW r \in Queued
               PROVE  passed[r] <= OvertakeLimit
    BY DEF BoundedOvertaking
  <2>1. r \in Reqs
    BY DEF BudgetInv, TypeOK, Queued, Members
  <2>2. passed[r] + ttl[r] <= OvertakeLimit
    BY <2>1 DEF BudgetInv, Budget
  <2>3. passed[r] \in Nat /\ ttl[r] \in Nat /\ OvertakeLimit \in Nat
    BY <2>1, TtlAssumption DEF BudgetInv, TypeOK, OvertakeLimit
  <2> QED
    BY <2>2, <2>3
<1> QED
  BY <1>1, <1>2, BudgetStep, PTL DEF Spec
-----------------------------------------------------------------------------
(* The head of a queue, the request its device is working on, stays at the *)
(* head until it leaves, whatever arrives.                                 *)
THEOREM HeadNeverDisplaced == Spec => HeadStays
<1> DEFINE Stays == \A l \in Luns :
                      queue[l] # << >> /\ Head(queue[l]) \in Members(queue'[l])
                        => Head(queue'[l]) = Head(queue[l])
<1>1. TypeOK /\ [Next]_vars => [Stays]_vars
  <2> SUFFICES ASSUME TypeOK, Next, NEW l \in Luns, queue[l] # << >>,
                      Head(queue[l]) \in Members(queue'[l])
               PROVE  Head(queue'[l]) = Head(queue[l])
    OBVIOUS
  <2> USE LunType
  <2>1. /\ queue[l] \in Seq(Reqs) /\ Distinct(queue[l])
        /\ Len(queue[l]) >= 1 /\ Head(queue[l]) = queue[l][1]
    BY DEF TypeOK
  <2>2. ASSUME NEW r \in Reqs, ArriveIdle(r)
        PROVE  Head(queue'[l]) = Head(queue[l])
    BY <2>2 DEF ArriveIdle, PlaceFirst, TypeOK
  <2>3. ASSUME NEW r \in Reqs, ArriveBusy(r)
        PROVE  Head(queue'[l]) = Head(queue[l])
    <3>1. PICK p \in Places(r, queue[Lun(r)]) :
            queue' = [queue EXCEPT ![Lun(r)] = PutBehind(queue[Lun(r)], p, r)]
      BY <2>3 DEF ArriveBusy, PlaceBehind
    <3>2. CASE l # Lun(r)
      BY <3>1, <3>2 DEF TypeOK
    <3>3. CASE l = Lun(r)
      <4>1. p \in 1..Len(queue[l]) /\ queue'[l] = PutBehind(queue[l], p, r)
        BY <3>1, <3>3 DEF Places, TypeOK
      <4> QED
        BY <2>1, <4>1 DEF PutBehind
    <3> QED
      BY <3>2, <3>3
  <2>4. ASSUME NEW r \in Reqs, Depart(r)
        PROVE  Head(queue'[l]) = Head(queue[l])
    <3>1. PICK p \in 1..Len(queue[Lun(r)]) :
            queue' = [queue EXCEPT ![Lun(r)] = TakeOut(queue[Lun(r)], p)]
      BY <2>4 DEF Depart, TakeAway
    <3>2. CASE l # Lun(r)
      BY <3>1, <3>2 DEF TypeOK
    <3>3. CASE l = Lun(r)
      <4>1. p \in 1..Len(queue[l]) /\ queue'[l] = TakeOut(queue[l], p)
        BY <3>1, <3>3 DEF TypeOK
      <4>2. p # 1
        <5>1. Members(queue'[l]) = Members(queue[l]) \ {queue[l][p]}
          BY <2>1, <4>1, TakeOutMembers
        <5> QED
          BY <2>1, <5>1
      <4>3. Len(TakeOut(queue[l], p)) >= 1 /\ TakeOut(queue[l], p)[1] = queue[l][1]
        BY <2>1, <4>1, <4>2 DEF TakeOut
      <4> QED
        BY <2>1, <4>1, <4>3, TakeOutProps
    <3> QED
      BY <3>2, <3>3
  <2> QED
    BY <2>2, <2>3, <2>4 DEF Next
<1> QED
  BY <1>1, TypeCorrect, PTL DEF Spec, HeadStays
=============================================================================
