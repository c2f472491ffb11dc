--------------------------- MODULE ReqQueueProof ---------------------------
(***************************************************************************)
(* Proofs about the request queue of a channel, for any number of          *)
(* requests, any commands in them and any costs.                           *)
(*                                                                         *)
(* First what the operations of ChanQueue do to its lists: queueing puts a *)
(* request into the list of its device, removing takes it out, and the     *)
(* links in both directions, the depths and the current request stay in    *)
(* agreement.  ChanIoProof builds on these lemmas too.                     *)
(*                                                                         *)
(* Then ReqQueue: the lists are in agreement whatever the users of the     *)
(* queue do, no device waits longer than the other one's queue is, and the *)
(* places requests get are those ReqPlaces allows.                         *)
(***************************************************************************)
EXTENDS ReqQueue, SequenceTheorems, FunctionTheorems, FiniteSetTheorems,
        WellFoundedInduction, TLAPS

(* Every set of natural numbers that is not empty has a least element: the *)
(* form of induction the recursive definitions below are proved by.        *)
LEMMA LeastNat ==
  ASSUME NEW S \in SUBSET Nat, S # {}
  PROVE  \E m \in S : \A k \in S : m <= k
PROOF
<1>1. \E m \in S : \A k \in S : ~(<<k, m>> \in OpToRel(<, Nat))
  BY NatLessThanWellFounded, WFMin
<1>2. ASSUME NEW m \in S, NEW k \in S, ~(<<k, m>> \in OpToRel(<, Nat))
      PROVE  m <= k
  BY <1>2 DEF OpToRel
<1> QED BY <1>1, <1>2

(* A recursive function that follows links exists: it can be built for one *)
(* number of steps after the other.                                        *)
Links == [Reqs -> Reqs \cup {NULL}]

Follows(link, m, f) ==
  f = [n \in 0..m |-> [x \in Reqs \cup {NULL} |->
         IF x = NULL \/ n = 0 THEN << >> ELSE <<x>> \o f[n - 1][link[x]]]]

(* A walk of m links can be recorded. *)
LEMMA FollowsExists ==
  ASSUME NEW link \in Links, NEW m \in Nat
  PROVE  \E f : Follows(link, m, f)
PROOF
<1> DEFINE Bad == {n \in Nat : ~ \E f : Follows(link, n, f)}
<1> SUFFICES ASSUME Bad # {} PROVE FALSE
  OBVIOUS
<1>1. PICK n \in Bad : \A k \in Bad : n <= k
  BY LeastNat
<1>2. n \in Nat /\ ~ \E f : Follows(link, n, f)
  OBVIOUS
<1>3. n # 0
  <2> SUFFICES ASSUME n = 0 PROVE FALSE
    OBVIOUS
  <2> DEFINE f == [k \in 0..0 |-> [x \in Reqs \cup {NULL} |-> << >>]]
  <2>1. \A k \in 0..0 : k = 0
    OBVIOUS
  <2>2. f = [k \in 0..0 |-> [x \in Reqs \cup {NULL} |->
              IF x = NULL \/ k = 0 THEN << >> ELSE <<x>> \o f[k - 1][link[x]]]]
    BY <2>1
  <2> QED BY <1>2, <2>2 DEF Follows
<1>4. n - 1 \in Nat /\ n - 1 \notin Bad
  BY <1>1, <1>2, <1>3
<1>5. PICK f : Follows(link, n - 1, f)
  BY <1>4
<1> DEFINE g == [k \in 0..n |-> IF k < n THEN f[k] ELSE
                  [x \in Reqs \cup {NULL} |->
                     IF x = NULL THEN << >> ELSE <<x>> \o f[n - 1][link[x]]]]
<1>6. ASSUME NEW k \in 0..n
      PROVE  g[k] = [x \in Reqs \cup {NULL} |->
                IF x = NULL \/ k = 0 THEN << >> ELSE <<x>> \o g[k - 1][link[x]]]
  <2>1. CASE k = n
    <3>1. g[k - 1] = f[n - 1]
      BY <1>2, <1>3, <2>1
    <3>2. g[k] = [x \in Reqs \cup {NULL} |->
                     IF x = NULL THEN << >> ELSE <<x>> \o f[n - 1][link[x]]]
      BY <1>2, <2>1
    <3> HIDE DEF g
    <3> QED BY <1>2, <1>3, <2>1, <3>1, <3>2
  <2>2. CASE k < n
    <3>1. g[k] = f[k]
      BY <2>2
    <3>2. f[k] = [x \in Reqs \cup {NULL} |->
                IF x = NULL \/ k = 0 THEN << >> ELSE <<x>> \o f[k - 1][link[x]]]
      <4>1. k \in 0..(n - 1)
        BY <1>2, <2>2
      <4> QED BY <1>5, <4>1 DEF Follows
    <3>3. k # 0 => g[k - 1] = f[k - 1]
      BY <1>2, <2>2
    <3> HIDE DEF g
    <3> QED BY <3>1, <3>2, <3>3
  <2>3. k = n \/ k < n
    BY <1>2
  <2> QED BY <2>1, <2>2, <2>3
<1>7. Follows(link, n, g)
  <2>1. g = [k \in 0..n |-> g[k]]
    OBVIOUS
  <2> HIDE DEF g
  <2> QED BY <1>6, <2>1 DEF Follows
<1> QED BY <1>2, <1>7

(* Chain is what its definition says: it follows the links for as many     *)
(* steps as there are requests.                                            *)
LEMMA ChainDef ==
  ASSUME IsFiniteSet(Reqs), NEW link \in Links
  PROVE  \E f : /\ Follows(link, Cardinality(Reqs), f)
                /\ \A r : Chain(link, r) = f[Cardinality(Reqs)][r]
PROOF
<1> DEFINE f == CHOOSE h : Follows(link, Cardinality(Reqs), h)
<1>1. Follows(link, Cardinality(Reqs), f)
  BY FollowsExists, FS_CardinalityType
<1>2. \A r : Chain(link, r) = f[Cardinality(Reqs)][r]
  BY DEF Chain, Follows
<1> QED BY <1>1, <1>2

(* s is what is met when the links are followed from its first element.    *)
Chained(link, s) ==
  /\ s \in Seq(Reqs)
  /\ \A i, j \in 1..Len(s) : s[i] = s[j] => i = j
  /\ \A i \in 1..Len(s) : link[s[i]] = IF i = Len(s) THEN NULL ELSE s[i + 1]

(* A sequence without repetitions is not longer than there are requests. *)
LEMMA DistinctLen ==
  ASSUME IsFiniteSet(Reqs), NEW s \in Seq(Reqs),
         \A i, j \in 1..Len(s) : s[i] = s[j] => i = j
  PROVE  Len(s) <= Cardinality(Reqs)
PROOF
<1>1. s \in [1..Len(s) -> Reqs] /\ Len(s) \in Nat
  BY LenProperties
<1>2. s \in Injection(1..Len(s), Reqs)
  BY <1>1, Fun_IsInj
<1>3. Cardinality(1..Len(s)) <= Cardinality(Reqs)
  BY <1>2, FS_Injection
<1>4. Cardinality(1..Len(s)) = Len(s)
  <2>1. PICK n \in Nat : n = Len(s)
    BY <1>1
  <2>2. Cardinality(1..n) = n
    BY FS_Interval
  <2> QED BY <2>1, <2>2
<1> QED BY <1>3, <1>4

(* ... so Chain returns such a sequence, from any of its elements on. *)
LEMMA ChainIs ==
  ASSUME QueueAssumption, IsFiniteSet(Reqs), NEW link \in Links, NEW s, Chained(link, s)
  PROVE  /\ Chain(link, NULL) = << >>
         /\ \A k \in 1..Len(s) : Chain(link, s[k]) = SubSeq(s, k, Len(s))
PROOF
<1> DEFINE K == Cardinality(Reqs)
<1>1. K \in Nat
  BY FS_CardinalityType
<1>2. PICK f : Follows(link, K, f) /\ \A r : Chain(link, r) = f[K][r]
  BY ChainDef
<1> HIDE DEF K
<1>3. ASSUME NEW n \in 0..K, NEW x \in Reqs \cup {NULL}
      PROVE  f[n][x] = IF x = NULL \/ n = 0 THEN << >> ELSE <<x>> \o f[n - 1][link[x]]
  BY ZenonT(60), <1>2, <1>3 DEF Follows
<1>4. \A n \in 0..K : f[n][NULL] = << >>
  BY <1>3
<1>5. /\ s \in Seq(Reqs) /\ Len(s) \in Nat /\ Len(s) <= K
      /\ \A i \in 1..Len(s) : s[i] \in Reqs
  BY DistinctLen, LenProperties DEF Chained, K
<1>6. PICK N \in Nat : N = Len(s)
  BY <1>5
<1>7. N <= K
  BY <1>5, <1>6
<1> DEFINE Bad == {d \in Nat : \E k \in 1..N, n \in 0..K :
                     /\ k = N - d
                     /\ n > d
                     /\ f[n][s[k]] # SubSeq(s, k, N)}
<1>8. Bad = {}
  <2> SUFFICES ASSUME Bad # {} PROVE FALSE
    OBVIOUS
  <2>1. PICK d \in Bad : \A e \in Bad : d <= e
    BY LeastNat
  <2>2. d \in Nat
    OBVIOUS
  <2>3. PICK k \in 1..N, n \in 0..K : /\ k = N - d
                                      /\ n > d
                                      /\ f[n][s[k]] # SubSeq(s, k, N)
    OBVIOUS
  <2>4. n \in Nat /\ n # 0 /\ n - 1 \in 0..K
    BY <1>1, <2>2, <2>3
  <2>5. s[k] \in Reqs /\ s[k] # NULL
    BY <1>5, <1>6 DEF QueueAssumption
  <2>6. f[n][s[k]] = <<s[k]>> \o f[n - 1][link[s[k]]]
    BY <1>3, <2>4, <2>5
  <2>7. SubSeq(s, k, N) = <<s[k]>> \o SubSeq(s, k + 1, N)
    <3>1. k \in 1..Len(s) /\ N \in k..Len(s)
      BY <1>6
    <3> QED BY <1>5, <3>1, SubSeqRecursiveFirst
  <2>8. CASE k = N
    <3>1. link[s[k]] = NULL
      BY <1>6, <2>8 DEF Chained
    <3>2. SubSeq(s, k + 1, N) = << >>
      BY <2>8, SubSeqEmpty
    <3> QED BY <1>4, <2>3, <2>4, <2>6, <2>7, <3>1, <3>2
  <2>9. CASE k # N
    <3>1. link[s[k]] = s[k + 1]
      BY <1>6, <2>9 DEF Chained
    <3>2. d - 1 \in Nat /\ k + 1 \in 1..N /\ k + 1 = N - (d - 1) /\ n - 1 > d - 1
      BY <2>2, <2>3, <2>4, <2>9
    <3>3. d - 1 \notin Bad
      <4> HIDE DEF Bad
      <4> QED BY <2>1, <2>2, <3>2
    <3>4. f[n - 1][s[k + 1]] = SubSeq(s, k + 1, N)
      BY <2>4, <3>2, <3>3
    <3> HIDE DEF Bad
    <3> QED BY <2>3, <2>6, <2>7, <3>1, <3>4
  <2> QED BY <2>8, <2>9
<1>9. ASSUME NEW k \in 1..N
      PROVE  f[K][s[k]] = SubSeq(s, k, N)
  <2>1. N - k \in Nat /\ K > N - k /\ K \in 0..K /\ k = N - (N - k)
    BY <1>1, <1>7
  <2> QED BY <1>8, <2>1
<1>10. K \in 0..K
  BY <1>1
<1> QED BY <1>2, <1>4, <1>6, <1>9, <1>10
-----------------------------------------------------------------------------
(* The records the queue of a channel may be. *)
ReqStates == {"NONE", "QUEUED", "PREPARE", "NEXT", "READY", "EXPECTING", "COMPLETE"}

QueueRecords ==
  [first : [Luns -> Reqs \cup {NULL}], last : [Luns -> Reqs \cup {NULL}],
   depth : [Luns -> Nat],              wait : [Luns -> Nat],
   next : Links,                       prev : Links,
   ttl : [Reqs -> 0..TtlMod - 1],      state : [Reqs -> ReqStates],
   total : Nat, cur : Reqs \cup {NULL}, cdev : Luns]

(* The list of device l in queue c is s: linked in both directions, with   *)
(* its ends and its length known.                                          *)
IsList(c, l, s) ==
  /\ s \in Seq(Reqs)
  /\ \A i, j \in 1..Len(s) : s[i] = s[j] => i = j
  /\ \A i \in 1..Len(s) :
       /\ Lun(s[i]) = l
       /\ c.next[s[i]] = IF i = Len(s) THEN NULL ELSE s[i + 1]
       /\ c.prev[s[i]] = IF i = 1 THEN NULL ELSE s[i - 1]
  /\ c.first[l] = IF Len(s) = 0 THEN NULL ELSE s[1]
  /\ c.last[l] = IF Len(s) = 0 THEN NULL ELSE s[Len(s)]
  /\ c.depth[l] = Len(s)

(* The lists of the channel are the sequences L, their lengths make up     *)
(* queue_depth of the channel, and the current request is the first of its *)
(* device.                                                                 *)
HasLists(c, L) ==
  /\ c \in QueueRecords
  /\ L \in [Luns -> Seq(Reqs)]
  /\ \A l \in Luns : IsList(c, l, L[l])
  /\ c.total = IF Luns = {0} THEN c.depth[0] ELSE c.depth[0] + c.depth[1]
  /\ c.total = 0 <=> c.cur = NULL
  /\ c.cur # NULL => c.cur = c.first[Lun(c.cur)]

QueueConstants == CmdAssumption /\ QueueAssumption /\ IsFiniteSet(Reqs)

Backwards(s) == [i \in 1..Len(s) |-> s[Len(s) - i + 1]]

(* List, and the chain in the other direction, return the list. *)
LEMMA ListIs ==
  ASSUME QueueConstants, NEW c, NEW L, HasLists(c, L), NEW l \in Luns
  PROVE  /\ List(c, l) = L[l]
         /\ Chain(c.prev, c.last[l]) = Backwards(L[l])
         /\ \A i \in 1..Len(L[l]) : Chain(c.next, L[l][i]) = SubSeq(L[l], i, Len(L[l]))
         /\ Chain(c.next, NULL) = << >>
PROOF
<1>1. PICK s : s = L[l] /\ IsList(c, l, s)
  BY DEF HasLists
<1>2. c.next \in Links /\ c.prev \in Links
  BY DEF HasLists, QueueRecords
<1>3. s \in Seq(Reqs) /\ Len(s) \in Nat /\ (Len(s) = 0 => s = << >>)
  BY <1>1, LenProperties, EmptySeq DEF IsList
<1>4. Chained(c.next, s)
  BY <1>1 DEF IsList, Chained
<1>5. /\ Chain(c.next, NULL) = << >>
      /\ \A i \in 1..Len(s) : Chain(c.next, s[i]) = SubSeq(s, i, Len(s))
  BY <1>2, <1>4, ChainIs DEF QueueConstants
<1>6. List(c, l) = s
  <2>1. CASE Len(s) = 0
    BY <1>1, <1>3, <1>5, <2>1 DEF List, IsList
  <2>2. CASE Len(s) # 0
    <3>1. 1 \in 1..Len(s) /\ c.first[l] = s[1]
      BY <1>1, <1>3, <2>2 DEF IsList
    <3> QED BY <1>3, <1>5, <3>1, SubSeqFull DEF List
  <2> QED BY <2>1, <2>2
<1> DEFINE b == Backwards(s)
<1>7. PICK n \in Nat : n = Len(s)
  BY <1>3
<1>8. /\ b \in Seq(Reqs) /\ Len(b) = n
      /\ \A i \in 1..n : b[i] = s[n - i + 1]
  <2>1. b = [i \in 1..n |-> s[n - i + 1]]
    BY <1>7 DEF Backwards
  <2>2. \A i \in 1..n : s[n - i + 1] \in Reqs
    BY <1>3, <1>7
  <2> QED BY <2>1, <2>2
<1> HIDE DEF b
<1>9. Chained(c.prev, b)
  <2>1. ASSUME NEW i \in 1..n, NEW j \in 1..n, b[i] = b[j]
        PROVE  i = j
    <3>1. n - i + 1 \in 1..n /\ n - j + 1 \in 1..n
      OBVIOUS
    <3>2. s[n - i + 1] = s[n - j + 1]
      BY <1>8, <2>1
    <3>3. n - i + 1 = n - j + 1
      BY <1>1, <1>7, <3>1, <3>2 DEF IsList
    <3> QED BY <3>3
  <2>2. ASSUME NEW i \in 1..n
        PROVE  c.prev[b[i]] = IF i = n THEN NULL ELSE b[i + 1]
    <3>1. n - i + 1 \in 1..n /\ (n - i + 1 = 1 <=> i = n) /\ (n - i + 1) - 1 = n - (i + 1) + 1
      OBVIOUS
    <3>2. c.prev[s[n - i + 1]] = IF i = n THEN NULL ELSE s[(n - i + 1) - 1]
      BY <1>1, <1>7, <3>1 DEF IsList
    <3>3. i # n => b[i + 1] = s[n - (i + 1) + 1]
      BY <1>8
    <3> QED BY <1>8, <3>1, <3>2, <3>3
  <2> QED BY <1>8, <2>1, <2>2 DEF Chained
<1>10. /\ Chain(c.prev, NULL) = << >>
       /\ \A i \in 1..n : Chain(c.prev, b[i]) = SubSeq(b, i, n)
  BY <1>2, <1>8, <1>9, ChainIs DEF QueueConstants
<1>11. Chain(c.prev, c.last[l]) = b
  <2>1. CASE n = 0
    <3>1. b = << >>
      BY <1>8, <2>1, EmptySeq
    <3> QED BY <1>1, <1>7, <1>10, <2>1, <3>1 DEF IsList
  <2>2. CASE n # 0
    <3>1. 1 \in 1..n /\ n - 1 + 1 = n
      BY <2>2
    <3>2. c.last[l] = b[1]
      BY <1>1, <1>7, <1>8, <2>2, <3>1 DEF IsList
    <3> QED BY <1>8, <1>10, <3>1, <3>2, SubSeqFull
  <2> QED BY <2>1, <2>2
<1> QED BY <1>1, <1>5, <1>6, <1>11 DEF b
-----------------------------------------------------------------------------
(* A cost is an integer. *)
LEMMA CostType ==
  ASSUME QueueConstants, NEW c, NEW a \in Reqs, NEW b \in Reqs
  PROVE  GetCost(c, a, b) \in Int
PROOF
<1>1. Cmd[a] \in Command /\ Cmd[b] \in Command
  BY DEF QueueConstants, CmdAssumption
<1>2. Cmd[a].lba \in Int /\ Cmd[a].bcount \in Int /\ Cmd[b].lba \in Int
  BY <1>1 DEF Command
<1>3. CostMax \in Int /\ SeekBackM \in Int /\ RwSwitchM \in Int /\ RwSwitchCost \in Int
  BY DEF QueueConstants, QueueAssumption
<1>4. PICK gap \in Int : gap = Cmd[a].lba + Cmd[a].bcount - Cmd[b].lba
  BY <1>2
<1>5. PICK m \in Int : m = IF gap < 0 THEN 1 - SeekBackM ELSE SeekBackM - 1
  BY <1>3
<1>6. gap * m \in Int /\ (gap * m) * RwSwitchM \in Int
  BY <1>3
<1>7. GetCost(c, a, b) \in {CostTtl, CostDenied, CostIntersect, gap * m,
                            (gap * m) * RwSwitchM + RwSwitchCost}
  <2>1. (Cmd[a].lba + Cmd[a].bcount - Cmd[b].lba)
           * (IF Cmd[a].lba + Cmd[a].bcount - Cmd[b].lba < 0
              THEN 1 - SeekBackM ELSE SeekBackM - 1) = gap * m
    BY <1>4, <1>5
  <2> QED BY <2>1 DEF GetCost
<1> QED BY <1>3, <1>6, <1>7 DEF CostTtl, CostDenied, CostIntersect

(* The gaps of a list: gap g lies before the request that is g.at - 1 from *)
(* the end.                                                                *)
Gap(s, n, i) == [at |-> i, before |-> s[n - i + 1], after |-> s[n - i + 2]]

(* The gaps that QueueRequest looks at are those between neighbours. *)
LEMMA GapsAre ==
  ASSUME QueueConstants, NEW c, NEW L, HasLists(c, L), NEW l \in Luns,
         NEW n \in Nat, n = Len(L[l])
  PROVE  Gaps(c, l) = {Gap(L[l], n, i) : i \in 2..n}
PROOF
<1> DEFINE b == Backwards(L[l])
<1>1. Chain(c.prev, c.last[l]) = b
  BY ListIs
<1>2. Len(b) = n /\ \A i \in 1..n : b[i] = L[l][n - i + 1]
  <2>1. b = [i \in 1..n |-> L[l][n - i + 1]]
    BY DEF Backwards
  <2>2. \A i \in 1..n : L[l][n - i + 1] \in Reqs
    BY DEF HasLists
  <2> QED BY <2>1, <2>2
<1> HIDE DEF b
<1> DEFINE E(i) == [at |-> i, before |-> b[i], after |-> b[i - 1]]
<1>3. Gaps(c, l) = {E(i) : i \in 2..n}
  BY <1>1, <1>2 DEF Gaps
<1>4. \A i \in 2..n : b[i] = L[l][n - i + 1] /\ b[i - 1] = L[l][n - i + 2]
  <2> SUFFICES ASSUME NEW i \in 2..n
               PROVE  b[i] = L[l][n - i + 1] /\ b[i - 1] = L[l][n - i + 2]
    OBVIOUS
  <2>1. i \in 1..n /\ i - 1 \in 1..n /\ n - (i - 1) + 1 = n - i + 2
    OBVIOUS
  <2>2. b[i - 1] = L[l][n - (i - 1) + 1]
    BY <1>2, <2>1
  <2> QED BY <1>2, <2>1, <2>2
<1>5. \A i \in 2..n : E(i) = Gap(L[l], n, i)
  BY <1>4 DEF Gap
<1> HIDE DEF E
<1> QED BY <1>3, <1>5

(* The places UniataQueueRequest chooses from, counted from the head of    *)
(* the list: behind how many requests r may be put.                        *)
MayBeBehind(c, r, s, p) ==
  \/ p = Len(s)
  \/ /\ Reorder /\ Cmd[r].tag # "ordered"
     /\ \A i \in p + 1..Len(s) : GetCost(c, r, s[i]) <= CostReselect
  \/ Reorder /\ Cmd[r].tag = "head" /\ p = 1

(* An offer names a request of the list, and a place that no conflict      *)
(* forbids.                                                                *)
LEMMA OffersAre ==
  ASSUME QueueConstants, NEW c, NEW L, HasLists(c, L), NEW r \in Reqs,
         L[Lun(r)] # << >>
  PROVE  \A o \in Offers(c, r) :
           /\ o.at \in 0..Len(L[Lun(r)]) /\ o.cost \in Int
           /\ o = Start(c, r) \/ \E g \in Gaps(c, Lun(r)) :
                 o = [at |-> g.at, behind |-> g.before, cost |-> Extra(c, r, g)]
           /\ \E p \in 1..Len(L[Lun(r)]) : /\ o.behind = L[Lun(r)][p]
                                          /\ MayBeBehind(c, r, L[Lun(r)], p)
PROOF
<1> DEFINE l == Lun(r)
           s == L[l]
<1>1. l \in Luns /\ IsList(c, l, s) /\ s \in Seq(Reqs)
  BY DEF Lun, QueueConstants, CmdAssumption, Command, HasLists
<1>2. PICK n \in Nat \ {0} : n = Len(s)
  BY <1>1, EmptySeq
<1>3. c.first[l] = s[1] /\ c.last[l] = s[n] /\ \A i \in 1..n : s[i] \in Reqs
  BY <1>1, <1>2 DEF IsList
<1>4. CostReselect \in Int /\ - CostReselect \in Int
  BY DEF CostReselect, QueueConstants, QueueAssumption
<1>5. \A a, b \in Reqs : GetCost(c, a, b) \in Int
  BY CostType
<1> SUFFICES ASSUME NEW o \in Offers(c, r)
             PROVE  /\ o.at \in 0..n /\ o.cost \in Int
                    /\ o = Start(c, r) \/ \E g \in Gaps(c, l) :
                          o = [at |-> g.at, behind |-> g.before, cost |-> Extra(c, r, g)]
                    /\ \E p \in 1..n : o.behind = s[p] /\ MayBeBehind(c, r, s, p)
  BY <1>2
<1>6. CASE o = Start(c, r)
  <2>1. CASE Reorder /\ Cmd[r].tag = "head"
    <3>1. o = [at |-> 1, behind |-> s[1], cost |-> -CostReselect]
      BY <1>3, <1>6, <2>1 DEF Start
    <3>2. 1 \in 1..n /\ MayBeBehind(c, r, s, 1)
      BY <1>2, <2>1 DEF MayBeBehind
    <3> HIDE DEF s, l
    <3>3. o.at \in 0..n /\ o.cost \in Int
      BY <1>2, <1>4, <3>1
    <3> QED BY <1>6, <3>1, <3>2, <3>3
  <2>2. CASE ~(Reorder /\ Cmd[r].tag = "head")
    <3>1. o = [at |-> 1, behind |-> s[n], cost |-> GetCost(c, s[n], r)]
      BY <1>3, <1>6, <2>2 DEF Start
    <3>2. n \in 1..n /\ MayBeBehind(c, r, s, n)
      BY <1>2 DEF MayBeBehind
    <3> HIDE DEF s, l
    <3>3. o.at \in 0..n /\ o.cost \in Int
      BY <1>2, <1>3, <1>5, <3>1, <3>2
    <3> QED BY <1>6, <3>1, <3>2, <3>3
  <2> QED BY <2>1, <2>2
<1>7. ASSUME NEW g \in Gaps(c, l), Reorder /\ Cmd[r].tag # "ordered",
             \A h \in Gaps(c, l) : h.at <= g.at => ~Barred(c, r, h),
             o = [at |-> g.at, behind |-> g.before, cost |-> Extra(c, r, g)]
      PROVE  /\ o.at \in 0..n /\ o.cost \in Int
             /\ \E p \in 1..n : o.behind = s[p] /\ MayBeBehind(c, r, s, p)
  <2>1. Gaps(c, l) = {Gap(s, n, i) : i \in 2..n}
    <3>1. n \in Nat /\ n = Len(L[l])
      BY <1>2
    <3> QED BY <1>1, <3>1, GapsAre
  <2> HIDE DEF s, l
  <2>2. PICK i \in 2..n : g = [at |-> i, before |-> s[n - i + 1], after |-> s[n - i + 2]]
    BY <2>1 DEF Gap
  <2>3. n - i + 1 \in 1..n /\ n - i + 2 \in 1..n
    OBVIOUS
  <2>4. g.before \in Reqs /\ g.after \in Reqs
    BY <1>3, <2>2, <2>3
  <2>5. Extra(c, r, g) \in Int
    <3>1. /\ GetCost(c, g.before, r) \in Int
          /\ GetCost(c, r, g.after) \in Int
          /\ GetCost(c, g.before, g.after) \in Int
      BY <1>5, <2>4
    <3> QED BY <3>1 DEF Extra
  <2>6. ASSUME NEW k \in n - i + 2..n
        PROVE  GetCost(c, r, s[k]) <= CostReselect
    <3> DEFINE j == n - k + 2
               h == Gap(s, n, j)
    <3>1. j \in 2..n /\ j <= i /\ n - j + 2 = k
      OBVIOUS
    <3>2. h \in Gaps(c, l) /\ h.at <= g.at
      BY <2>1, <2>2, <3>1 DEF Gap
    <3>3. h.after = s[k]
      BY <3>1 DEF Gap
    <3>4. ~Barred(c, r, h)
      BY <1>7, <3>2
    <3>5. s[k] \in Reqs
      BY <1>3
    <3> HIDE DEF j, h
    <3> QED BY <1>4, <1>5, <3>3, <3>4, <3>5 DEF Barred
  <2>7. MayBeBehind(c, r, s, n - i + 1)
    BY <1>2, <1>7, <2>6 DEF MayBeBehind, s
  <2> QED BY <1>7, <2>2, <2>3, <2>5, <2>7
<1> QED BY <1>6, <1>7 DEF Offers

(* One of the places is the cheapest, and the first met of those. *)
Best(S, o) == \A x \in S : o.cost < x.cost \/ (o.cost = x.cost /\ o.at <= x.at)

(* One of the offers is the best. *)
LEMMA BestOffer ==
  ASSUME NEW S, S # {}, NEW n \in Nat,
         \A o \in S : o.at \in 0..n /\ o.cost \in Int,
         \A o, x \in S : o.at = x.at => o = x
  PROVE  \E o \in S : Best(S, o)
PROOF
<1> DEFINE T(m) == {o \in S : o.at <= m}
           Bad  == {m \in Nat : T(m) # {} /\ ~ \E o \in T(m) : Best(T(m), o)}
<1>1. Bad = {}
  <2> SUFFICES ASSUME Bad # {} PROVE FALSE
    OBVIOUS
  <2>1. PICK m \in Bad : \A k \in Bad : m <= k
    BY LeastNat
  <2>2. m \in Nat /\ T(m) # {} /\ ~ \E o \in T(m) : Best(T(m), o)
    OBVIOUS
  <2>3. m = 0 \/ (m - 1 \in Nat /\ m - 1 \notin Bad)
    <3> HIDE DEF Bad
    <3> QED BY <2>1, <2>2
  <2>4. \A o \in T(m) : /\ o.at \in Nat /\ o.cost \in Int
                        /\ o.at = m \/ (m # 0 /\ o \in T(m - 1))
    BY <2>2
  <2>5. m # 0 => T(m - 1) \subseteq T(m)
    BY <2>2
  <2>6. CASE m = 0 \/ T(m - 1) = {}
    <3>1. PICK o \in T(m) : TRUE
      BY <2>2
    <3>2. \A x \in T(m) : x = o
      BY <2>4, <2>6
    <3>3. Best(T(m), o)
      BY <2>4, <3>2 DEF Best
    <3> QED BY <2>2, <3>3
  <2>7. CASE m # 0 /\ T(m - 1) # {}
    <3>1. PICK o \in T(m - 1) : Best(T(m - 1), o)
      BY <2>3, <2>7
    <3>2. o \in T(m) /\ o.cost \in Int /\ o.at < m /\ o.at \in Nat
      BY <2>2, <2>4, <2>5, <2>7
    <3>3. CASE \E x \in T(m) : x.at = m /\ x.cost < o.cost
      <4>1. PICK x \in T(m) : x.at = m /\ x.cost < o.cost
        BY <3>3
      <4>2. ASSUME NEW y \in T(m)
            PROVE  x.cost < y.cost \/ (x.cost = y.cost /\ x.at <= y.at)
        <5>1. CASE y.at = m
          <6>1. y = x
            BY <4>1, <5>1
          <6> QED BY <2>2, <2>4, <4>1, <6>1
        <5>2. CASE y \in T(m - 1)
          <6>1. o.cost < y.cost \/ o.cost = y.cost
            BY <3>1, <5>2 DEF Best
          <6>2. x.cost \in Int /\ y.cost \in Int
            BY <2>4
          <6> HIDE DEF T
          <6> QED BY <3>2, <4>1, <6>1, <6>2
        <5> HIDE DEF T
        <5> QED BY <2>4, <5>1, <5>2
      <4>3. Best(T(m), x)
        BY <4>2 DEF Best
      <4> QED BY <2>2, <4>3
    <3>4. CASE \A x \in T(m) : x.at = m => ~(x.cost < o.cost)
      <4>1. ASSUME NEW y \in T(m)
            PROVE  o.cost < y.cost \/ (o.cost = y.cost /\ o.at <= y.at)
        <5>1. CASE y.at = m
          <6>1. y.cost \in Int /\ ~(y.cost < o.cost)
            BY <2>4, <3>4, <5>1
          <6> HIDE DEF T
          <6> QED BY <2>2, <3>2, <5>1, <6>1
        <5>2. CASE y \in T(m - 1)
          BY <3>1, <5>2 DEF Best
        <5> HIDE DEF T
        <5> QED BY <2>4, <5>1, <5>2
      <4>2. Best(T(m), o)
        BY <4>1 DEF Best
      <4> QED BY <2>2, <3>2, <4>2
    <3> QED BY <3>3, <3>4
  <2> QED BY <2>6, <2>7
<1>2. T(n) = S
  OBVIOUS
<1>3. n \notin Bad
  BY <1>1
<1> QED BY <1>2, <1>3

(* UniataQueueRequest always finds a place for a request in a list that is *)
(* not empty.                                                              *)
LEMMA InsertBehindIs ==
  ASSUME QueueConstants, NEW c, NEW L, HasLists(c, L), NEW r \in Reqs,
         L[Lun(r)] # << >>
  PROVE  /\ InsertBehind(c, r) # {}
         /\ \A b \in InsertBehind(c, r) :
              \E p \in 1..Len(L[Lun(r)]) : /\ b = L[Lun(r)][p]
                                          /\ MayBeBehind(c, r, L[Lun(r)], p)
PROOF
<1> DEFINE l == Lun(r)
           O == Offers(c, r)
<1>1. l \in Luns
  BY DEF Lun, QueueConstants, CmdAssumption, Command
<1>2. PICK n \in Nat : n = Len(L[l])
  BY <1>1, LenProperties DEF HasLists
<1>3. \A o \in O : /\ o.at \in 0..n /\ o.cost \in Int
                   /\ o = Start(c, r) \/ \E g \in Gaps(c, l) :
                          o = [at |-> g.at, behind |-> g.before, cost |-> Extra(c, r, g)]
                   /\ \E p \in 1..n : /\ o.behind = L[l][p]
                                      /\ MayBeBehind(c, r, L[l], p)
  BY <1>2, OffersAre
<1>4. Gaps(c, l) = {Gap(L[l], n, i) : i \in 2..n}
  BY <1>1, <1>2, GapsAre
<1>5. ASSUME NEW g \in Gaps(c, l), NEW h \in Gaps(c, l), g.at = h.at
      PROVE  g = h
  BY <1>4, <1>5 DEF Gap
<1>6. \A g \in Gaps(c, l) : g.at # 1
  BY <1>4 DEF Gap
<1>7. Start(c, r).at = 1
  BY DEF Start
<1>8. ASSUME NEW o \in O, NEW x \in O, o.at = x.at
      PROVE  o = x
  <2>1. CASE o = Start(c, r) /\ x = Start(c, r)
    BY <2>1
  <2>2. CASE o = Start(c, r) /\ x # Start(c, r)
    BY <1>3, <1>6, <1>7, <1>8, <2>2
  <2>3. CASE o # Start(c, r) /\ x = Start(c, r)
    BY <1>3, <1>6, <1>7, <1>8, <2>3
  <2>4. CASE o # Start(c, r) /\ x # Start(c, r)
    <3>1. PICK g \in Gaps(c, l) :
            o = [at |-> g.at, behind |-> g.before, cost |-> Extra(c, r, g)]
      BY <1>3, <2>4
    <3>2. PICK h \in Gaps(c, l) :
            x = [at |-> h.at, behind |-> h.before, cost |-> Extra(c, r, h)]
      BY <1>3, <2>4
    <3>3. g.at = h.at
      BY <1>8, <3>1, <3>2
    <3> QED BY <1>5, <3>1, <3>2, <3>3
  <2> QED BY <2>1, <2>2, <2>3, <2>4
<1>9. O # {}
  BY DEF Offers
<1>10. InsertBehind(c, r) = {o.behind : o \in {o \in O : Best(O, o)}}
  BY DEF InsertBehind, Best
<1> HIDE DEF O, l
<1>11. \E o \in O : Best(O, o)
  BY <1>3, <1>8, <1>9, BestOffer
<1>12. InsertBehind(c, r) # {}
  BY <1>10, <1>11
<1>13. \A b \in InsertBehind(c, r) :
          \E p \in 1..n : b = L[l][p] /\ MayBeBehind(c, r, L[l], p)
  BY <1>3, <1>10
<1> QED BY <1>2, <1>12, <1>13 DEF l
-----------------------------------------------------------------------------
(* s with r inserted behind its first p elements, and s without element p. *)
Inserted(s, p, r) ==
  [i \in 1..Len(s) + 1 |-> IF i <= p THEN s[i] ELSE IF i = p + 1 THEN r ELSE s[i - 1]]
Removed(s, p) == [i \in 1..Len(s) - 1 |-> IF i < p THEN s[i] ELSE s[i + 1]]

Elements(s) == {s[i] : i \in 1..Len(s)}

(* An insertion makes a sequence of requests, longer by one. *)
LEMMA InsertedSeq ==
  ASSUME NEW s \in Seq(Reqs), NEW n \in Nat, n = Len(s),
         NEW p \in Nat, p <= n, NEW r \in Reqs
  PROVE  Inserted(s, p, r) \in Seq(Reqs)
PROOF
<1> DEFINE f == [i \in 1..n + 1 |-> IF i <= p THEN s[i] ELSE IF i = p + 1 THEN r ELSE s[i - 1]]
<1>1. Inserted(s, p, r) = f
  BY DEF Inserted
<1>2. f \in [1..n + 1 -> Reqs]
  OBVIOUS
<1> QED BY <1>1, <1>2

(* What an insertion puts where. *)
LEMMA InsertedIs ==
  ASSUME NEW s \in Seq(Reqs), NEW n \in Nat, n = Len(s),
         NEW p \in Nat, p <= n, NEW r \in Reqs
  PROVE  /\ Len(Inserted(s, p, r)) = n + 1
         /\ \A i \in 1..n + 1 :
              Inserted(s, p, r)[i] = IF i <= p THEN s[i] ELSE IF i = p + 1 THEN r ELSE s[i - 1]
PROOF
<1> DEFINE f == [i \in 1..n + 1 |-> IF i <= p THEN s[i] ELSE IF i = p + 1 THEN r ELSE s[i - 1]]
<1>1. Inserted(s, p, r) = f
  BY DEF Inserted
<1>2. f \in Seq(Reqs) /\ Len(f) = n + 1
  <2>1. f \in [1..n + 1 -> Reqs]
    OBVIOUS
  <2> QED BY <2>1
<1> QED BY <1>1, <1>2

(* The links of queue c with r linked in behind element p of list s. *)
NextWith(c, s, p, r) ==
  [x \in Reqs |-> IF x = s[p] THEN r ELSE IF x = r THEN c.next[s[p]] ELSE c.next[x]]
PrevWith(c, s, p, r) ==
  [x \in Reqs |-> IF x = r THEN s[p] ELSE IF x = c.next[s[p]] THEN r ELSE c.prev[x]]

(* To show a list that is not empty, with a name for its length. *)
LEMMA IsListIf ==
  ASSUME NEW c, NEW l, NEW s \in Seq(Reqs), NEW n \in Nat \ {0}, n = Len(s),
         \A i, j \in 1..n : s[i] = s[j] => i = j,
         \A i \in 1..n : /\ Lun(s[i]) = l
                         /\ c.next[s[i]] = IF i = n THEN NULL ELSE s[i + 1]
                         /\ c.prev[s[i]] = IF i = 1 THEN NULL ELSE s[i - 1],
         c.first[l] = s[1], c.last[l] = s[n], c.depth[l] = n
  PROVE  IsList(c, l, s)
PROOF
<1>1. Len(s) # 0
  OBVIOUS
<1>2. \A i, j \in 1..Len(s) : s[i] = s[j] => i = j
  OBVIOUS
<1>3. \A i \in 1..Len(s) : /\ Lun(s[i]) = l
                           /\ c.next[s[i]] = IF i = Len(s) THEN NULL ELSE s[i + 1]
                           /\ c.prev[s[i]] = IF i = 1 THEN NULL ELSE s[i - 1]
  OBVIOUS
<1>4. c.first[l] = s[1] /\ c.last[l] = s[Len(s)] /\ c.depth[l] = Len(s)
  OBVIOUS
<1> QED BY <1>1, <1>2, <1>3, <1>4, Zenon DEF IsList

(* The list of a device after a request was linked in behind the p-th. *)
LEMMA InsertedList ==
  ASSUME QueueConstants, NEW c, NEW d, NEW l, NEW s, IsList(c, l, s),
         c.next \in Links, c.prev \in Links,
         NEW r \in Reqs, Lun(r) = l, r \notin Elements(s),
         NEW n \in Nat, n = Len(s), NEW p \in 1..n,
         d.next = NextWith(c, s, p, r),
         d.prev = PrevWith(c, s, p, r),
         d.first[l] = c.first[l],
         d.last[l] = IF c.next[s[p]] = NULL THEN r ELSE c.last[l],
         d.depth[l] = c.depth[l] + 1
  PROVE  IsList(d, l, Inserted(s, p, r))
PROOF
<1>1. s \in Seq(Reqs) /\ p \in Nat /\ p <= n
  BY DEF IsList
<1> DEFINE t == Inserted(s, p, r)
<1>2. /\ Len(t) = n + 1
      /\ \A i \in 1..n + 1 : t[i] = IF i <= p THEN s[i] ELSE IF i = p + 1 THEN r ELSE s[i - 1]
  BY <1>1, InsertedIs
<1>0. t \in Seq(Reqs)
  BY <1>1, InsertedSeq
<1> HIDE DEF t
<1>20. \A x \in Reqs :
         /\ d.next[x] = IF x = s[p] THEN r ELSE IF x = r THEN c.next[s[p]] ELSE c.next[x]
         /\ d.prev[x] = IF x = r THEN s[p] ELSE IF x = c.next[s[p]] THEN r ELSE c.prev[x]
  BY DEF NextWith, PrevWith
<1>3. /\ \A i \in 1..n : /\ s[i] \in Reqs /\ s[i] # r /\ s[i] # NULL
                         /\ Lun(s[i]) = l
                         /\ c.next[s[i]] = IF i = n THEN NULL ELSE s[i + 1]
                         /\ c.prev[s[i]] = IF i = 1 THEN NULL ELSE s[i - 1]
      /\ \A i, j \in 1..n : s[i] = s[j] => i = j
      /\ c.first[l] = s[1] /\ c.last[l] = s[n] /\ c.depth[l] = n
  <2>1. s \in Seq(Reqs) /\ \A i \in 1..n : s[i] \in Reqs
    BY DEF IsList
  <2>2. \A i \in 1..n : s[i] # r /\ s[i] # NULL
    BY <2>1 DEF Elements, QueueConstants, QueueAssumption
  <2>3. n # 0
    OBVIOUS
  <2> QED BY <2>1, <2>2, <2>3 DEF IsList
<1>4. r # NULL
  BY DEF QueueConstants, QueueAssumption
<1>5. ASSUME NEW i \in 1..n + 1, NEW j \in 1..n + 1, t[i] = t[j]
      PROVE  i = j
  <2> DEFINE k(x) == IF x <= p THEN x ELSE x - 1
  <2>1. \A x \in 1..n + 1 : x # p + 1 => k(x) \in 1..n /\ t[x] = s[k(x)]
    BY <1>2
  <2>2. t[p + 1] = r
    BY <1>2
  <2>3. \A x \in 1..n + 1 : x # p + 1 => t[x] # r
    BY <1>3, <2>1
  <2>4. CASE i = p + 1 \/ j = p + 1
    BY <1>5, <2>2, <2>3, <2>4
  <2>5. CASE i # p + 1 /\ j # p + 1
    <3>1. k(i) = k(j)
      <4> HIDE DEF k
      <4>1. k(i) \in 1..n /\ k(j) \in 1..n /\ s[k(i)] = s[k(j)]
        BY <1>5, <2>1, <2>5
      <4> QED BY <1>3, <4>1
    <3> QED BY <2>5, <3>1
  <2> QED BY <2>4, <2>5
<1>6. ASSUME NEW i \in 1..n + 1
      PROVE  /\ Lun(t[i]) = l
             /\ d.next[t[i]] = IF i = n + 1 THEN NULL ELSE t[i + 1]
             /\ d.prev[t[i]] = IF i = 1 THEN NULL ELSE t[i - 1]
  <2>1. CASE i <= p
    <3>1. i \in 1..n /\ t[i] = s[i] /\ (i < p => i + 1 \in 1..n /\ t[i + 1] = s[i + 1])
      BY <1>2, <2>1
    <3>2. i # 1 => i - 1 \in 1..n /\ t[i - 1] = s[i - 1]
      BY <1>2, <2>1
    <3>3. d.next[s[i]] = IF i = p THEN r ELSE s[i + 1]
      BY SMTT(30), <1>20, <1>3, <2>1, <3>1
    <3>4. t[p + 1] = r
      BY <1>2
    <3>5. s[i] # c.next[s[p]]
      BY <1>3, <2>1, <3>1
    <3>6. d.prev[s[i]] = c.prev[s[i]]
      BY <1>20, <1>3, <3>1, <3>5
    <3> QED BY <1>3, <2>1, <3>1, <3>2, <3>3, <3>4, <3>6
  <2>2. CASE i = p + 1
    <3>1. t[i] = r /\ t[i - 1] = s[p]
      BY <1>2, <2>2
    <3>2. d.next[r] = IF p = n THEN NULL ELSE s[p + 1]
      BY <1>20, <1>3
    <3>3. p # n => t[i + 1] = s[p + 1]
      BY <1>2, <2>2
    <3>4. d.prev[r] = s[p]
      BY <1>20
    <3> QED BY <2>2, <3>1, <3>2, <3>3, <3>4
  <2>3. CASE i > p + 1
    <3>1. i - 1 \in 1..n /\ t[i] = s[i - 1] /\ i - 1 # p
      BY <1>2, <2>3
    <3>2. i # n + 1 => t[i + 1] = s[i] /\ i \in 1..n
      <4> SUFFICES ASSUME i # n + 1 PROVE t[i + 1] = s[i] /\ i \in 1..n
        OBVIOUS
      <4>1. i + 1 \in 1..n + 1 /\ ~(i + 1 <= p) /\ i + 1 # p + 1 /\ (i + 1) - 1 = i
        BY <2>3
      <4>2. t[i + 1] = s[(i + 1) - 1]
        BY <1>2, <4>1
      <4> QED BY <4>1, <4>2
    <3>3. d.next[s[i - 1]] = IF i - 1 = n THEN NULL ELSE s[i]
      BY SMTT(30), <1>20, <1>3, <3>1
    <3>4. t[i - 1] = IF i - 1 = p + 1 THEN r ELSE s[i - 2]
      <4>1. i - 1 \in 1..n + 1 /\ ~(i - 1 <= p) /\ (i - 1) - 1 = i - 2
        BY <2>3
      <4>2. t[i - 1] = IF i - 1 = p + 1 THEN r ELSE s[(i - 1) - 1]
        BY <1>2, <4>1
      <4> QED BY <4>1, <4>2
    <3>5. s[i - 1] = c.next[s[p]] <=> i - 1 = p + 1
      BY <1>3, <2>3, <3>1
    <3>6. d.prev[s[i - 1]] = IF i - 1 = p + 1 THEN r ELSE c.prev[s[i - 1]]
      BY SMTT(30), <1>20, <1>3, <3>1, <3>5
    <3>7. c.prev[s[i - 1]] = s[i - 2]
      <4>1. i - 1 # 1 /\ (i - 1) - 1 = i - 2
        BY <2>3
      <4>2. c.prev[s[i - 1]] = s[(i - 1) - 1]
        BY <1>3, <3>1, <4>1
      <4> QED BY <4>1, <4>2
    <3> QED BY <1>3, <2>3, <3>1, <3>2, <3>3, <3>4, <3>6, <3>7
  <2> QED BY <2>1, <2>2, <2>3
<1>7. d.first[l] = t[1]
  BY <1>2, <1>3
<1>8. d.last[l] = t[n + 1]
  <2>1. c.next[s[p]] = NULL <=> p = n
    BY <1>3
  <2> QED BY <1>2, <1>3, <2>1
<1>9. d.depth[l] = n + 1
  BY <1>3
<1>10. t \in Seq(Reqs) /\ n + 1 \in Nat \ {0} /\ n + 1 = Len(t)
  BY <1>0, <1>2
<1>11. d.first[l] = t[1] /\ d.last[l] = t[n + 1] /\ d.depth[l] = n + 1
  BY <1>7, <1>8, <1>9
<1>12. IsList(d, l, t)
  BY ZenonT(30), <1>5, <1>6, <1>10, <1>11, IsListIf
<1> QED BY <1>12 DEF t
-----------------------------------------------------------------------------
(* A request belongs to a device of the channel. *)
LEMMA LunType ==
  ASSUME QueueConstants, NEW r \in Reqs
  PROVE  Lun(r) \in Luns
PROOF
  BY DEF Lun, QueueConstants, CmdAssumption, Command

(* The list of the other device is not touched. *)
LEMMA OtherList ==
  ASSUME NEW c, NEW d, NEW k, NEW s, IsList(c, k, s),
         \A i \in 1..Len(s) : d.next[s[i]] = c.next[s[i]] /\ d.prev[s[i]] = c.prev[s[i]],
         d.first[k] = c.first[k], d.last[k] = c.last[k], d.depth[k] = c.depth[k]
  PROVE  IsList(d, k, s)
PROOF
  BY ZenonT(30) DEF IsList

(* An operation that changes only the list of device l. *)
OnlyList(c, d, l) ==
  /\ \A x \in Reqs : Lun(x) # l => d.next[x] = c.next[x] /\ d.prev[x] = c.prev[x]
  /\ \A k \in Luns : k # l => /\ d.first[k] = c.first[k]
                              /\ d.last[k] = c.last[k]
                              /\ d.depth[k] = c.depth[k]

(* An operation on one device leaves the other list as it is. *)
LEMMA OneList ==
  ASSUME QueueConstants, NEW c, NEW L, HasLists(c, L), NEW l \in Luns,
         NEW d, NEW t, IsList(d, l, t), OnlyList(c, d, l)
  PROVE  /\ [L EXCEPT ![l] = t] \in [Luns -> Seq(Reqs)]
         /\ \A k \in Luns : IsList(d, k, [L EXCEPT ![l] = t][k])
PROOF
<1>1. t \in Seq(Reqs) /\ L \in [Luns -> Seq(Reqs)]
  BY DEF IsList, HasLists
<1>2. ASSUME NEW k \in Luns, k # l
      PROVE  IsList(d, k, L[k])
  <2>1. IsList(c, k, L[k]) /\ L[k] \in Seq(Reqs)
    BY DEF HasLists
  <2>2. ASSUME NEW i \in 1..Len(L[k])
        PROVE  d.next[L[k][i]] = c.next[L[k][i]] /\ d.prev[L[k][i]] = c.prev[L[k][i]]
    <3>1. L[k][i] \in Reqs
      BY <2>1
    <3>2. Lun(L[k][i]) # l
      BY <1>2, <2>1 DEF IsList
    <3> QED BY <3>1, <3>2 DEF OnlyList
  <2>3. d.first[k] = c.first[k] /\ d.last[k] = c.last[k] /\ d.depth[k] = c.depth[k]
    BY <1>2 DEF OnlyList
  <2> QED BY <2>1, <2>2, <2>3, OtherList
<1> QED BY <1>1, <1>2

(* The queue depth of the channel follows that of one device. *)
LEMMA TotalIs ==
  ASSUME QueueConstants, NEW c, NEW L, HasLists(c, L), NEW l \in Luns, NEW d,
         OnlyList(c, d, l), d.depth[l] \in Int, d.total \in Int,
         d.total - c.total = d.depth[l] - c.depth[l]
  PROVE  d.total = IF Luns = {0} THEN d.depth[0] ELSE d.depth[0] + d.depth[1]
PROOF
<1>1. Luns = {0} \/ Luns = {0, 1}
  BY DEF QueueConstants, QueueAssumption
<1>2. c.total = IF Luns = {0} THEN c.depth[0] ELSE c.depth[0] + c.depth[1]
  BY DEF HasLists
<1>3. \A k \in Luns : c.depth[k] \in Nat
  BY DEF HasLists, QueueRecords
<1>4. \A k \in Luns : k # l => d.depth[k] = c.depth[k]
  BY DEF OnlyList
<1>5. CASE Luns = {0}
  <2>1. l = 0 /\ c.total = c.depth[0] /\ c.depth[0] \in Nat
    BY <1>2, <1>3, <1>5
  <2>2. d.total = d.depth[0]
    BY <2>1
  <2> QED BY <1>5, <2>2
<1>6. CASE Luns = {0, 1}
  <2>1. {0, 1} # {0}
    <3>1. 1 \in {0, 1} /\ 1 \notin {0}
      OBVIOUS
    <3> QED BY <3>1, Zenon
  <2>2. c.total = c.depth[0] + c.depth[1] /\ c.depth[0] \in Nat /\ c.depth[1] \in Nat
    BY <1>2, <1>3, <1>6, <2>1
  <2>3. d.total = d.depth[0] + d.depth[1]
    BY <1>4, <1>6, <2>2
  <2> QED BY <1>6, <2>1, <2>3
<1> QED BY <1>1, <1>5, <1>6
-----------------------------------------------------------------------------
(* The first request of an idle device becomes its list. *)
LEMMA QueueFirstLists ==
  ASSUME QueueConstants, NEW c, NEW L, HasLists(c, L),
         NEW r \in Reqs, c.depth[Lun(r)] = 0
  PROVE  /\ L[Lun(r)] = << >>
         /\ HasLists(QueueRequest(c, r), [L EXCEPT ![Lun(r)] = <<r>>])
         /\ QueueRequest(c, r).ttl = [c.ttl EXCEPT ![r] = 0]
         /\ QueueRequest(c, r).state = c.state
         /\ QueueRequest(c, r).wait = c.wait
         /\ QueueRequest(c, r).depth = [c.depth EXCEPT ![Lun(r)] = 1]
         /\ QueueRequest(c, r).total = c.total + 1
         /\ QueueRequest(c, r).cur = IF c.total = 0 THEN r ELSE c.cur
PROOF
<1> DEFINE d == QueueRequest(c, r)
<1>1. PICK l \in Luns : l = Lun(r)
  BY LunType
<1>2. IsList(c, l, L[l]) /\ L[l] \in Seq(Reqs) /\ L[l] = << >>
  BY <1>1, EmptySeq DEF HasLists, IsList
<1>3. c \in QueueRecords
  BY DEF HasLists
<1>4. /\ d.first = [c.first EXCEPT ![l] = r] /\ d.last = [c.last EXCEPT ![l] = r]
      /\ d.depth = [c.depth EXCEPT ![l] = 1] /\ d.wait = c.wait
      /\ d.next = [c.next EXCEPT ![r] = NULL] /\ d.prev = [c.prev EXCEPT ![r] = NULL]
      /\ d.ttl = [c.ttl EXCEPT ![r] = 0] /\ d.state = c.state
      /\ d.total = c.total + 1 /\ d.cur = IF c.total = 0 THEN r ELSE c.cur
      /\ d.cdev = l
  BY <1>1, <1>3 DEF QueueRequest, QueueFirst, QueueRecords
<1>5. d \in QueueRecords
  <2> DEFINE q == QueueFirst(c, r)
  <2>1. q \in QueueRecords
    <3>1. 0 \in 0..TtlMod - 1
      BY DEF QueueConstants, QueueAssumption
    <3> QED BY <1>1, <1>3, <3>1 DEF QueueFirst, QueueRecords, Links
  <2>2. d = [q EXCEPT !.depth = [q.depth EXCEPT ![l] = @ + 1],
                      !.total = q.total + 1,
                      !.cur = IF c.total = 0 THEN r ELSE q.cur]
    BY <1>1 DEF QueueRequest
  <2> HIDE DEF q, d
  <2>3. /\ [q.depth EXCEPT ![l] = @ + 1] \in [Luns -> Nat]
        /\ q.total + 1 \in Nat
        /\ (IF c.total = 0 THEN r ELSE q.cur) \in Reqs \cup {NULL}
    BY <2>1 DEF QueueRecords
  <2> QED BY <2>1, <2>2, <2>3 DEF QueueRecords
<1> HIDE DEF d
<1>7. d.next[r] = NULL /\ d.prev[r] = NULL /\ d.first[l] = r /\ d.last[l] = r /\ d.depth[l] = 1
  BY <1>3, <1>4 DEF QueueRecords, Links
<1>8. IsList(d, l, <<r>>)
  <2>1. <<r>> \in Seq(Reqs) /\ Len(<<r>>) = 1 /\ <<r>>[1] = r
    OBVIOUS
  <2>2. \A i \in 1..1 : i = 1
    OBVIOUS
  <2> QED BY <1>1, <1>7, <2>1, <2>2 DEF IsList
<1>9. OnlyList(c, d, l)
  BY <1>1, <1>3, <1>4 DEF OnlyList, QueueRecords, Links
<1>10. /\ [L EXCEPT ![l] = <<r>>] \in [Luns -> Seq(Reqs)]
       /\ \A k \in Luns : IsList(d, k, [L EXCEPT ![l] = <<r>>][k])
  BY <1>8, <1>9, OneList
<1>11. d.total = IF Luns = {0} THEN d.depth[0] ELSE d.depth[0] + d.depth[1]
  <2>1. d.depth[l] = 1 /\ c.depth[l] = 0 /\ c.total \in Nat /\ d.total = c.total + 1
    BY <1>1, <1>3, <1>4, <1>7 DEF QueueRecords
  <2>2. d.depth[l] \in Int /\ d.total \in Int /\ d.total - c.total = d.depth[l] - c.depth[l]
    BY <2>1
  <2> QED BY <1>9, <2>2, TotalIs
<1>12. /\ d.total # 0 /\ d.cur # NULL
       /\ d.cur = d.first[Lun(d.cur)]
  <2>1. c.total \in Nat /\ r # NULL /\ (c.total = 0 <=> c.cur = NULL)
        /\ c.cur \in Reqs \cup {NULL}
    BY <1>3 DEF HasLists, QueueRecords, QueueConstants, QueueAssumption
  <2>2. CASE c.total = 0
    BY <1>1, <1>4, <1>7, <2>1, <2>2
  <2>3. CASE c.total # 0
    <3>1. c.cur # NULL /\ c.cur = c.first[Lun(c.cur)] /\ d.cur = c.cur
      BY <1>4, <2>1, <2>3 DEF HasLists
    <3>2. c.first[l] = NULL
      BY <1>2, EmptySeq DEF IsList
    <3>3. Lun(c.cur) # l /\ Lun(c.cur) \in Luns
      BY <2>1, <3>1, <3>2, LunType
    <3> QED BY <1>9, <2>1, <3>1, <3>3, <1>4 DEF OnlyList
  <2> QED BY <2>2, <2>3
<1>13. HasLists(d, [L EXCEPT ![l] = <<r>>])
  BY <1>5, <1>10, <1>11, <1>12 DEF HasLists
<1> QED BY <1>1, <1>2, <1>4, <1>13 DEF d
-----------------------------------------------------------------------------
(* The requests of a list of length n behind the p-th. *)
Behind(s, p, n) == {s[i] : i \in p + 1..n}

(* What is left to the requests behind the p-th of list s after another    *)
(* overtaking, and to a request that was put there itself.                 *)
Aged(c, s, n, p) ==
  [x \in Reqs |-> IF x \in Behind(s, p, n)
                  THEN (c.ttl[x] + TtlMod - 1) % TtlMod ELSE c.ttl[x]]
AgedTtl(c, s, n, p, r) ==
  [x \in Reqs |-> IF x = r THEN FirstTtl(n) ELSE Aged(c, s, n, p)[x]]

(* Giving a request its time to live changes no list. *)
LEMMA EnteredLists ==
  ASSUME QueueConstants, NEW c, NEW L, HasLists(c, L), NEW r \in Reqs
  PROVE  HasLists(Entered(c, r), L)
PROOF
<1> DEFINE e == Entered(c, r)
<1>1. c \in QueueRecords
  BY DEF HasLists
<1>2. Lun(r) \in Luns
  BY LunType
<1>3. FirstTtl(c.depth[Lun(r)]) \in 0..TtlMod - 1
  <2>1. PICK m \in Nat : m = IF c.depth[Lun(r)] >= MinTtl THEN c.depth[Lun(r)] ELSE MinTtl
    BY <1>1, <1>2 DEF QueueRecords, QueueConstants, QueueAssumption
  <2>2. TtlMod \in Nat \ {0}
    BY DEF QueueConstants, QueueAssumption
  <2>3. m % TtlMod \in 0..TtlMod - 1
    BY <2>2
  <2> QED BY <2>1, <2>3 DEF FirstTtl
<1>4. /\ e \in QueueRecords
      /\ e.first = c.first /\ e.last = c.last /\ e.depth = c.depth
      /\ e.next = c.next /\ e.prev = c.prev
      /\ e.total = c.total /\ e.cur = c.cur
  <2>1. [c.ttl EXCEPT ![r] = FirstTtl(c.depth[Lun(r)])] \in [Reqs -> 0..TtlMod - 1]
    BY <1>1, <1>3 DEF QueueRecords
  <2>2. e = [c EXCEPT !.ttl = [c.ttl EXCEPT ![r] = FirstTtl(c.depth[Lun(r)])]]
    BY DEF Entered
  <2> HIDE DEF e
  <2> QED BY <1>1, <2>1, <2>2 DEF QueueRecords
<1> HIDE DEF e
<1>5. \A k \in Luns : IsList(e, k, L[k])
  BY <1>4 DEF IsList, HasLists
<1>6. HasLists(e, L)
  BY <1>4, <1>5 DEF HasLists
<1> QED BY <1>6 DEF e

(* The requests behind the p-th of a list. *)
LEMMA BehindIs ==
  ASSUME QueueConstants, NEW c, NEW L, HasLists(c, L), NEW l \in Luns,
         NEW s, s = L[l], NEW n \in Nat, n = Len(s), NEW p \in Nat, p \in 1..n
  PROVE  Elements(Chain(c.next, c.next[s[p]])) = Behind(s, p, n)
PROOF
<1>2. /\ s \in Seq(Reqs) /\ n = Len(s)
      /\ c.next[s[p]] = IF p = n THEN NULL ELSE s[p + 1]
  BY DEF HasLists, IsList
<1>3. /\ \A i \in 1..n : Chain(c.next, s[i]) = SubSeq(s, i, n)
      /\ Chain(c.next, NULL) = << >>
  BY ListIs
<1>4. CASE p = n
  <2>1. Chain(c.next, c.next[s[p]]) = << >>
    BY <1>2, <1>3, <1>4
  <2>2. \A i \in p + 1..n : FALSE
    BY <1>4
  <2>3. \A i \in 1..Len(<< >>) : FALSE
    OBVIOUS
  <2> QED BY <2>1, <2>2, <2>3 DEF Elements, Behind
<1>5. CASE p # n
  <2>1. p + 1 \in 1..n
    BY <1>5
  <2> DEFINE t == SubSeq(s, p + 1, n)
  <2>2. Chain(c.next, c.next[s[p]]) = t
    BY <1>2, <1>3, <1>5, <2>1
  <2>3. Len(t) = n - p /\ \A i \in 1..n - p : t[i] = s[p + i]
    <3>1. s \in Seq(Reqs) /\ p + 1 \in 1..Len(s) + 1 /\ n \in (p + 1) - 1..Len(s)
      BY <1>2, <2>1
    <3> HIDE DEF t
    <3>2. Len(t) = n - p
      BY <1>2, <2>1 DEF t
    <3>3. ASSUME NEW i \in 1..n - p
          PROVE  t[i] = s[p + i]
      BY <1>2, <2>1 DEF t
    <3> QED BY <3>2, <3>3
  <2> HIDE DEF t
  <2>4. ASSUME NEW i \in p + 1..n
        PROVE  \E k \in 1..Len(t) : t[k] = s[i]
    <3>1. i - p \in 1..n - p /\ p + (i - p) = i
      OBVIOUS
    <3>2. t[i - p] = s[i]
      BY <2>3, <3>1
    <3> QED BY <2>3, <3>1, <3>2
  <2>5. ASSUME NEW k \in 1..Len(t)
        PROVE  \E i \in p + 1..n : t[k] = s[i]
    <3>1. k \in 1..n - p /\ p + k \in p + 1..n
      BY <2>3
    <3> QED BY <2>3, <3>1
  <2>6. Elements(t) = Behind(s, p, n)
    <3>1. ASSUME NEW x \in Elements(t)
          PROVE  x \in Behind(s, p, n)
      <4>1. PICK k \in 1..Len(t) : x = t[k]
        BY DEF Elements, Behind
      <4> QED BY <2>5, <4>1 DEF Behind
    <3>2. ASSUME NEW x \in Behind(s, p, n)
          PROVE  x \in Elements(t)
      <4>1. PICK i \in p + 1..n : x = s[i]
        BY DEF Behind
      <4> QED BY <2>4, <4>1 DEF Elements, Behind
    <3> QED BY <3>1, <3>2
  <2> QED BY <2>2, <2>6
<1> QED BY <1>4, <1>5

(* A request of a busy device is linked in behind one of its list. *)
LEMMA LinkedLists ==
  ASSUME QueueConstants, NEW e, NEW L, HasLists(e, L),
         NEW r \in Reqs, NEW l, l = Lun(r), NEW s, s = L[l], r \notin Elements(s),
         NEW n \in Nat, n = Len(s), NEW p \in Nat, p \in 1..n
  PROVE  LET d == Linked(e, r, s[p])
         IN  /\ d \in QueueRecords
             /\ d.next = NextWith(e, s, p, r)
             /\ d.prev = PrevWith(e, s, p, r)
             /\ d.last = [e.last EXCEPT ![l] = IF e.next[s[p]] = NULL THEN r ELSE @]
             /\ d.ttl = Aged(e, s, n, p)
             /\ d.first = e.first /\ d.depth = e.depth /\ d.wait = e.wait
             /\ d.state = e.state /\ d.total = e.total /\ d.cur = e.cur
PROOF
<1> DEFINE nx == NextWith(e, s, p, r)
           pv == PrevWith(e, s, p, r)
           la == [e.last EXCEPT ![l] = IF e.next[s[p]] = NULL THEN r ELSE @]
           tt == Aged(e, s, n, p)
<1> USE DEF NextWith, PrevWith, Aged
<1>1. e \in QueueRecords /\ l \in Luns
  BY LunType DEF HasLists
<1>2. s[p] \in Reqs /\ e.next[s[p]] \in Reqs \cup {NULL}
  BY <1>1 DEF HasLists, QueueRecords, Links
<1>3. Elements(Chain(e.next, e.next[s[p]])) = Behind(s, p, n)
  BY <1>1, BehindIs
<1>4. nx \in Links /\ pv \in Links /\ la \in [Luns -> Reqs \cup {NULL}]
  BY <1>1, <1>2 DEF QueueRecords, Links
<1>5. tt \in [Reqs -> 0..TtlMod - 1]
  <2>1. TtlMod \in Nat \ {0}
    BY DEF QueueConstants, QueueAssumption
  <2>2. \A x \in Reqs : e.ttl[x] \in 0..TtlMod - 1
    BY <1>1 DEF QueueRecords
  <2>3. \A x \in Reqs : (e.ttl[x] + TtlMod - 1) % TtlMod \in 0..TtlMod - 1
    <3> SUFFICES ASSUME NEW y \in 0..TtlMod - 1
                 PROVE  (y + TtlMod - 1) % TtlMod \in 0..TtlMod - 1
      BY <2>2
    <3> QED BY <2>1
  <2> QED BY <2>2, <2>3
<1>6. Linked(e, r, s[p]) = [e EXCEPT !.prev = pv, !.next = nx, !.last = la, !.ttl = tt]
  <2>1. {Chain(e.next, e.next[s[p]])[i] : i \in 1..Len(Chain(e.next, e.next[s[p]]))}
          = Behind(s, p, n)
    BY <1>3 DEF Elements, Behind
  <2>2. Linked(e, r, s[p]) =
          [e EXCEPT
             !.prev = [x \in Reqs |-> IF x = r THEN s[p]
                                      ELSE IF x = e.next[s[p]] THEN r ELSE @[x]],
             !.next = [x \in Reqs |-> IF x = s[p] THEN r
                                      ELSE IF x = r THEN e.next[s[p]] ELSE @[x]],
             !.last[l] = IF e.next[s[p]] = NULL THEN r ELSE @,
             !.ttl = [x \in Reqs |-> IF x \in Behind(s, p, n)
                                     THEN (@[x] + TtlMod - 1) % TtlMod ELSE @[x]]]
    BY <2>1, Zenon DEF Linked
  <2> QED BY <1>1, <2>2
<1> HIDE DEF nx, pv, la, tt
<1>7. /\ Linked(e, r, s[p]) \in QueueRecords
      /\ Linked(e, r, s[p]).next = nx /\ Linked(e, r, s[p]).prev = pv
      /\ Linked(e, r, s[p]).last = la /\ Linked(e, r, s[p]).ttl = tt
      /\ Linked(e, r, s[p]).first = e.first /\ Linked(e, r, s[p]).depth = e.depth
      /\ Linked(e, r, s[p]).wait = e.wait /\ Linked(e, r, s[p]).state = e.state
      /\ Linked(e, r, s[p]).total = e.total /\ Linked(e, r, s[p]).cur = e.cur
  BY ZenonT(30), <1>1, <1>4, <1>5, <1>6 DEF QueueRecords
<1> QED BY <1>7 DEF nx, pv, la, tt

(* A request of a busy device gets a place in its list that it may take. *)
LEMMA QueueBehindLists ==
  ASSUME QueueConstants, NEW c, NEW L, HasLists(c, L),
         NEW r \in Reqs, NEW l, l = Lun(r), c.depth[l] # 0, NEW s, s = L[l],
         r \notin Elements(s), NEW n \in Nat, n = Len(s)
  PROVE  \E p \in Nat :
           /\ p \in 1..n
           /\ MayBeBehind(Entered(c, r), r, s, p)
           /\ HasLists(QueueRequest(c, r), [L EXCEPT ![l] = Inserted(s, p, r)])
           /\ QueueRequest(c, r).ttl = AgedTtl(c, s, n, p, r)
           /\ QueueRequest(c, r).state = c.state
           /\ QueueRequest(c, r).wait = c.wait
           /\ QueueRequest(c, r).depth = [c.depth EXCEPT ![l] = n + 1]
           /\ QueueRequest(c, r).total = c.total + 1
           /\ QueueRequest(c, r).cur = IF c.total = 0 THEN r ELSE c.cur
PROOF
<1> DEFINE e == Entered(c, r)
           d == QueueRequest(c, r)
<1>1. /\ l \in Luns /\ c \in QueueRecords /\ IsList(c, l, s) /\ s \in Seq(Reqs)
      /\ c.depth[l] = n /\ n # 0 /\ s # << >>
  <2>1. l \in Luns /\ c \in QueueRecords /\ IsList(c, l, s) /\ s \in Seq(Reqs)
    BY LunType DEF HasLists
  <2>2. c.depth[l] = n
    BY <2>1 DEF IsList
  <2>3. n # 0
    BY <2>2
  <2>4. s # << >>
    BY <2>3
  <2> QED BY <2>1, <2>2, <2>3, <2>4
<1>2. /\ HasLists(e, L) /\ e.next = c.next /\ e.prev = c.prev /\ e.first = c.first
      /\ e.last = c.last /\ e.depth = c.depth /\ e.wait = c.wait /\ e.state = c.state
      /\ e.total = c.total /\ e.cur = c.cur /\ e \in QueueRecords
      /\ e.ttl = [c.ttl EXCEPT ![r] = FirstTtl(n)]
  <2>1. HasLists(e, L) /\ e \in QueueRecords
    BY EnteredLists DEF HasLists
  <2>2. e = [c EXCEPT !.ttl = [c.ttl EXCEPT ![r] = FirstTtl(n)]]
    BY <1>1 DEF Entered
  <2> HIDE DEF e
  <2> QED BY <1>1, <2>1, <2>2 DEF QueueRecords
<1> HIDE DEF e
<1>3. PICK b \in InsertBehind(e, r) : QueueBehind(c, r) = Linked(e, r, b)
  <2> DEFINE S == {Linked(e, r, b) : b \in InsertBehind(e, r)}
  <2>1. InsertBehind(e, r) # {}
    BY <1>1, <1>2, InsertBehindIs
  <2>2. QueueBehind(c, r) = CHOOSE x \in S : TRUE
    BY DEF QueueBehind, e
  <2>3. \E x : x \in S
    BY <2>1
  <2>4. QueueBehind(c, r) \in S
    BY <2>2, <2>3
  <2> QED BY <2>4
<1>4. PICK p \in 1..n : b = s[p] /\ MayBeBehind(e, r, s, p)
  BY <1>1, <1>2, InsertBehindIs
<1>5. p \in Nat /\ p \in 1..n
  OBVIOUS
<1> DEFINE q == Linked(e, r, s[p])
<1>6. /\ q \in QueueRecords
      /\ q.next = NextWith(e, s, p, r)
      /\ q.prev = PrevWith(e, s, p, r)
      /\ q.last = [e.last EXCEPT ![l] = IF e.next[s[p]] = NULL THEN r ELSE @]
      /\ q.ttl = Aged(e, s, n, p)
      /\ q.first = e.first /\ q.depth = e.depth /\ q.wait = e.wait
      /\ q.state = e.state /\ q.total = e.total /\ q.cur = e.cur
  BY <1>2, <1>5, LinkedLists
<1> HIDE DEF q
<1>7. d = [q EXCEPT !.depth = [q.depth EXCEPT ![l] = @ + 1],
                    !.total = q.total + 1,
                    !.cur = IF c.total = 0 THEN c.first[l] ELSE q.cur]
  <2>1. QueueBehind(c, r) = q
    BY <1>3, <1>4 DEF q
  <2> QED BY <2>1 DEF QueueRequest
<1> HIDE DEF d
<1>8. /\ d \in QueueRecords
      /\ d.next = q.next /\ d.prev = q.prev /\ d.last = q.last /\ d.first = c.first
      /\ d.ttl = q.ttl /\ d.state = c.state /\ d.wait = c.wait
      /\ d.depth = [c.depth EXCEPT ![l] = n + 1]
      /\ d.total = c.total + 1
      /\ d.cur = IF c.total = 0 THEN c.first[l] ELSE c.cur
  <2>0. q.depth = c.depth /\ q.total = c.total /\ q.cur = c.cur
    BY <1>2, <1>6
  <2>1. /\ [q.depth EXCEPT ![l] = @ + 1] \in [Luns -> Nat]
        /\ [q.depth EXCEPT ![l] = @ + 1] = [c.depth EXCEPT ![l] = n + 1]
        /\ q.total + 1 \in Nat
        /\ (IF c.total = 0 THEN c.first[l] ELSE q.cur) \in Reqs \cup {NULL}
    <3>1. /\ c.depth \in [Luns -> Nat] /\ c.total \in Nat
          /\ c.first \in [Luns -> Reqs \cup {NULL}] /\ c.cur \in Reqs \cup {NULL}
      BY <1>1 DEF QueueRecords
    <3>2. l \in Luns /\ c.depth[l] = n /\ n + 1 \in Nat
      BY <1>1
    <3>3. [q.depth EXCEPT ![l] = @ + 1] = [c.depth EXCEPT ![l] = n + 1]
      BY <2>0, <3>2
    <3>4. [c.depth EXCEPT ![l] = n + 1] \in [Luns -> Nat]
      BY <3>1, <3>2
    <3>5. q.total + 1 \in Nat
      BY <2>0, <3>1
    <3>6. (IF c.total = 0 THEN c.first[l] ELSE q.cur) \in Reqs \cup {NULL}
      BY <2>0, <3>1, <3>2
    <3> QED BY <3>3, <3>4, <3>5, <3>6
  <2> QED BY ZenonT(30), <1>2, <1>6, <1>7, <2>0, <2>1 DEF QueueRecords
<1>9. d.depth[l] = n + 1
  BY <1>1, <1>8 DEF QueueRecords
<1>10. IsList(d, l, Inserted(s, p, r))
  <2>1. /\ d.next = NextWith(c, s, p, r)
        /\ d.prev = PrevWith(c, s, p, r)
        /\ d.first[l] = c.first[l]
        /\ d.last[l] = IF c.next[s[p]] = NULL THEN r ELSE c.last[l]
        /\ d.depth[l] = c.depth[l] + 1
    <3>1. NextWith(e, s, p, r) = NextWith(c, s, p, r) /\ PrevWith(e, s, p, r) = PrevWith(c, s, p, r)
      BY <1>2 DEF NextWith, PrevWith
    <3>2. c.last \in [Luns -> Reqs \cup {NULL}]
      BY <1>1 DEF QueueRecords
    <3>3. d.last[l] = IF c.next[s[p]] = NULL THEN r ELSE c.last[l]
      BY <1>1, <1>2, <1>6, <1>8, <3>2
    <3> QED BY <1>1, <1>6, <1>8, <1>9, <3>1, <3>3
  <2>2. c.next \in Links /\ c.prev \in Links
    BY <1>1 DEF QueueRecords
  <2> QED BY <1>1, <1>5, <2>1, <2>2, InsertedList
<1>11. OnlyList(c, d, l)
  <2>1. s[p] \in Reqs /\ Lun(s[p]) = l
    BY <1>1 DEF IsList
  <2>2. c.next[s[p]] \in Reqs => Lun(c.next[s[p]]) = l
    <3>1. c.next[s[p]] = NULL \/ (p + 1 \in 1..n /\ c.next[s[p]] = s[p + 1])
      BY <1>1 DEF IsList
    <3>2. NULL \notin Reqs
      BY DEF QueueConstants, QueueAssumption
    <3> QED BY <1>1, <3>1, <3>2 DEF IsList
  <2>3. \A x \in Reqs : Lun(x) # l => d.next[x] = c.next[x] /\ d.prev[x] = c.prev[x]
    BY <1>2, <1>6, <1>8, <2>1, <2>2 DEF NextWith, PrevWith
  <2>4. \A k \in Luns : k # l => d.first[k] = c.first[k] /\ d.last[k] = c.last[k]
                                 /\ d.depth[k] = c.depth[k]
    BY <1>1, <1>2, <1>6, <1>8 DEF QueueRecords
  <2> QED BY <2>3, <2>4 DEF OnlyList
<1> DEFINE t == Inserted(s, p, r)
           M == [L EXCEPT ![l] = t]
<1> HIDE DEF t
<1>12. M \in [Luns -> Seq(Reqs)] /\ \A k \in Luns : IsList(d, k, M[k])
  BY <1>1, <1>10, <1>11, OneList DEF t
<1>13. d.total = IF Luns = {0} THEN d.depth[0] ELSE d.depth[0] + d.depth[1]
  <2>1. c.total \in Nat
    BY <1>1 DEF QueueRecords
  <2>2. d.depth[l] \in Int /\ d.total \in Int /\ d.total - c.total = d.depth[l] - c.depth[l]
    BY <1>1, <1>8, <1>9, <2>1
  <2> QED BY <1>1, <1>11, <2>2, TotalIs
<1>14. c.total # 0 /\ d.total # 0
  <2>1. c.total \in Nat /\ \A k \in Luns : c.depth[k] \in Nat
    BY <1>1 DEF QueueRecords
  <2>2. c.total = IF Luns = {0} THEN c.depth[0] ELSE c.depth[0] + c.depth[1]
    BY DEF HasLists
  <2>3. Luns = {0} \/ Luns = {0, 1}
    BY DEF QueueConstants, QueueAssumption
  <2>4. c.total # 0
    <3>1. CASE Luns = {0}
      BY <1>1, <2>2, <3>1
    <3>2. CASE Luns # {0}
      <4>1. l = 0 \/ l = 1
        BY <1>1, <2>3
      <4>2. c.depth[0] \in Nat /\ c.depth[1] \in Nat
        BY <2>1, <2>3, <3>2
      <4>3. c.depth[0] # 0 \/ c.depth[1] # 0
        BY <1>1, <4>1
      <4>4. c.total = c.depth[0] + c.depth[1]
        BY <2>2, <3>2
      <4> QED BY <4>2, <4>3, <4>4
    <3> QED BY <3>1, <3>2
  <2> QED BY <1>8, <2>1, <2>4
<1>15. d.cur # NULL /\ d.cur = d.first[Lun(d.cur)]
  BY <1>8, <1>14 DEF HasLists
<1>16. HasLists(d, M)
  BY <1>8, <1>12, <1>13, <1>14, <1>15 DEF HasLists
<1>17. d.ttl = AgedTtl(c, s, n, p, r)
  <2>1. r \notin Behind(s, p, n)
    BY <1>5 DEF Behind, Elements
  <2>2. \A x \in Reqs : e.ttl[x] = IF x = r THEN FirstTtl(n) ELSE c.ttl[x]
    BY <1>1, <1>2 DEF QueueRecords
  <2>3. e.ttl \in [Reqs -> 0..TtlMod - 1] /\ \A x \in Reqs : x # r => e.ttl[x] = c.ttl[x]
    BY <1>2, <2>2 DEF QueueRecords
  <2> QED BY <1>6, <1>8, <2>1, <2>2 DEF AgedTtl, Aged
<1>18. d.total = c.total + 1 /\ d.cur = IF c.total = 0 THEN r ELSE c.cur
  BY <1>8, <1>14
<1> QED BY <1>4, <1>5, <1>8, <1>16, <1>17, <1>18 DEF d, e, t
-----------------------------------------------------------------------------
(* A removal makes a sequence of requests, shorter by one. *)
LEMMA RemovedSeq ==
  ASSUME NEW s \in Seq(Reqs), NEW n \in Nat, n = Len(s), NEW p \in Nat, p \in 1..n
  PROVE  Removed(s, p) \in Seq(Reqs)
PROOF
<1> DEFINE f == [i \in 1..n - 1 |-> IF i < p THEN s[i] ELSE s[i + 1]]
<1>1. Removed(s, p) = f
  BY DEF Removed
<1>2. f \in [1..n - 1 -> Reqs] /\ n - 1 \in Nat
  OBVIOUS
<1> QED BY <1>1, <1>2

(* Its elements, those behind the place p one place closer to the head. *)
LEMMA RemovedIs ==
  ASSUME NEW s \in Seq(Reqs), NEW n \in Nat, n = Len(s), NEW p \in Nat, p \in 1..n
  PROVE  /\ Len(Removed(s, p)) = n - 1
         /\ \A i \in 1..n - 1 : Removed(s, p)[i] = IF i < p THEN s[i] ELSE s[i + 1]
PROOF
<1> DEFINE f == [i \in 1..n - 1 |-> IF i < p THEN s[i] ELSE s[i + 1]]
<1>1. Removed(s, p) = f
  BY DEF Removed
<1>2. f \in Seq(Reqs) /\ Len(f) = n - 1
  <2>1. f \in [1..n - 1 -> Reqs] /\ n - 1 \in Nat
    OBVIOUS
  <2> QED BY <2>1
<1> QED BY <1>1, <1>2

(* The links of queue c without request r. *)
NextWithout(c, r) == [x \in Reqs |-> IF x = c.prev[r] THEN c.next[r] ELSE c.next[x]]
PrevWithout(c, r) == [x \in Reqs |-> IF x = c.next[r] THEN c.prev[r] ELSE c.prev[x]]

(* The list of a device after a request was unlinked. *)
LEMMA RemovedList ==
  ASSUME QueueConstants, NEW c, NEW d, NEW l, NEW s, IsList(c, l, s),
         c.next \in Links, c.prev \in Links,
         NEW n \in Nat, n = Len(s), NEW p \in Nat, p \in 1..n, NEW r, r = s[p],
         d.next = NextWithout(c, r), d.prev = PrevWithout(c, r),
         d.first[l] = IF c.prev[r] = NULL THEN c.next[r] ELSE c.first[l],
         d.last[l] = IF c.next[r] = NULL THEN c.prev[r] ELSE c.last[l],
         d.depth[l] = c.depth[l] - 1
  PROVE  IsList(d, l, Removed(s, p))
PROOF
<1>1. s \in Seq(Reqs)
  BY DEF IsList
<1> DEFINE t == Removed(s, p)
<1>2. /\ Len(t) = n - 1
      /\ \A i \in 1..n - 1 : t[i] = IF i < p THEN s[i] ELSE s[i + 1]
  BY <1>1, RemovedIs
<1>3. t \in Seq(Reqs)
  BY <1>1, RemovedSeq
<1> HIDE DEF t
<1>4. /\ \A i \in 1..n : /\ s[i] \in Reqs /\ s[i] # NULL
                         /\ Lun(s[i]) = l
                         /\ c.next[s[i]] = IF i = n THEN NULL ELSE s[i + 1]
                         /\ c.prev[s[i]] = IF i = 1 THEN NULL ELSE s[i - 1]
      /\ \A i, j \in 1..n : s[i] = s[j] => i = j
      /\ c.first[l] = s[1] /\ c.last[l] = s[n] /\ c.depth[l] = n
  <2>1. s \in Seq(Reqs) /\ \A i \in 1..n : s[i] \in Reqs
    BY DEF IsList
  <2>2. \A i \in 1..n : s[i] # NULL
    BY <2>1 DEF QueueConstants, QueueAssumption
  <2>3. n # 0
    OBVIOUS
  <2> QED BY <2>1, <2>2, <2>3 DEF IsList
<1>5. \A x \in Reqs :
         /\ d.next[x] = IF x = c.prev[r] THEN c.next[r] ELSE c.next[x]
         /\ d.prev[x] = IF x = c.next[r] THEN c.prev[r] ELSE c.prev[x]
  BY DEF NextWithout, PrevWithout
<1>6. /\ c.next[r] = IF p = n THEN NULL ELSE s[p + 1]
      /\ c.prev[r] = IF p = 1 THEN NULL ELSE s[p - 1]
  BY <1>4
<1> DEFINE k(x) == IF x < p THEN x ELSE x + 1
<1>7. \A x \in 1..n - 1 : k(x) \in 1..n /\ k(x) # p /\ t[x] = s[k(x)]
  BY <1>2
<1>8. ASSUME NEW i \in 1..n - 1, NEW j \in 1..n - 1, t[i] = t[j]
      PROVE  i = j
  <2>1. k(i) = k(j)
    <3> HIDE DEF k
    <3>1. k(i) \in 1..n /\ k(j) \in 1..n /\ s[k(i)] = s[k(j)]
      BY <1>7, <1>8
    <3> QED BY <1>4, <3>1
  <2> QED BY <2>1
<1>9. ASSUME NEW i \in 1..n - 1
      PROVE  /\ Lun(t[i]) = l
             /\ d.next[t[i]] = IF i = n - 1 THEN NULL ELSE t[i + 1]
             /\ d.prev[t[i]] = IF i = 1 THEN NULL ELSE t[i - 1]
  <2>1. i # n - 1 => t[i + 1] = s[k(i + 1)] /\ k(i + 1) \in 1..n
    <3> HIDE DEF k
    <3>1. i # n - 1 => i + 1 \in 1..n - 1
      OBVIOUS
    <3> QED BY <1>7, <3>1
  <2>2. i # 1 => t[i - 1] = s[k(i - 1)] /\ k(i - 1) \in 1..n
    <3> HIDE DEF k
    <3>1. i # 1 => i - 1 \in 1..n - 1
      OBVIOUS
    <3> QED BY <1>7, <3>1
  <2>3. k(i) \in 1..n /\ t[i] = s[k(i)] /\ s[k(i)] \in Reqs
    <3> HIDE DEF k
    <3> QED BY <1>4, <1>7
  <2>4. Lun(t[i]) = l
    <3> HIDE DEF k
    <3> QED BY <1>4, <2>3
  <2>5. s[k(i)] = c.prev[r] <=> i = p - 1
    <3>1. s[k(i)] = s[p - 1] /\ p # 1 <=> k(i) = p - 1 /\ p # 1
      <4> HIDE DEF k
      <4> QED BY <1>4, <2>3
    <3> QED BY <1>4, <1>6, <2>3, <3>1
  <2>6. s[k(i)] = c.next[r] <=> i = p
    <3>1. s[k(i)] = s[p + 1] /\ p # n <=> k(i) = p + 1 /\ p # n
      <4> HIDE DEF k
      <4> QED BY <1>4, <2>3
    <3> QED BY <1>4, <1>6, <2>3, <3>1
  <2>7. d.next[t[i]] = IF i = p - 1 THEN c.next[r] ELSE c.next[s[k(i)]]
    BY <1>5, <2>3, <2>5
  <2>8. d.prev[t[i]] = IF i = p THEN c.prev[r] ELSE c.prev[s[k(i)]]
    BY <1>5, <2>3, <2>6
  <2>9. CASE i < p - 1
    <3>1. k(i) = i /\ k(i + 1) = i + 1 /\ i # p /\ i # n - 1 /\ i # n
      BY <2>9
    <3>2. i # 1 => k(i - 1) = i - 1
      BY <2>9
    <3> HIDE DEF k
    <3> QED BY <1>4, <2>1, <2>2, <2>3, <2>4, <2>7, <2>8, <2>9, <3>1, <3>2
  <2>10. CASE i = p - 1
    <3>1. k(i) = i /\ k(i + 1) = p + 1 /\ i # p /\ (i = n - 1 <=> p = n)
      BY <2>10
    <3>2. i # 1 => k(i - 1) = i - 1
      BY <2>10
    <3> HIDE DEF k
    <3> QED BY <1>4, <1>6, <2>1, <2>2, <2>3, <2>4, <2>7, <2>8, <2>10, <3>1, <3>2
  <2>11. CASE i = p
    <3>1. k(i) = i + 1 /\ k(i + 1) = i + 2 /\ i # p - 1 /\ (i + 1) + 1 = i + 2
          /\ (i + 1 = n <=> i = n - 1)
      BY <2>11
    <3>2. i # 1 => k(i - 1) = p - 1
      BY <2>11
    <3> HIDE DEF k
    <3>3. c.next[s[i + 1]] = IF i = n - 1 THEN NULL ELSE s[i + 2]
      BY <1>4, <2>3, <3>1
    <3> QED BY <1>6, <2>1, <2>2, <2>3, <2>4, <2>7, <2>8, <2>11, <3>1, <3>2, <3>3
  <2>12. CASE i > p
    <3>1. k(i) = i + 1 /\ k(i + 1) = i + 2 /\ i # p - 1 /\ i # p /\ (i + 1) + 1 = i + 2
          /\ (i + 1 = n <=> i = n - 1) /\ i + 1 # 1 /\ (i + 1) - 1 = i /\ i # 1
      BY <2>12
    <3>2. k(i - 1) = i
      BY <2>12
    <3> HIDE DEF k
    <3>3. c.next[s[i + 1]] = IF i = n - 1 THEN NULL ELSE s[i + 2]
      BY <1>4, <2>3, <3>1
    <3>4. c.prev[s[i + 1]] = s[i]
      BY <1>4, <2>3, <3>1
    <3> QED BY <2>1, <2>2, <2>3, <2>4, <2>7, <2>8, <2>12, <3>1, <3>2, <3>3, <3>4
  <2>13. i < p - 1 \/ i = p - 1 \/ i = p \/ i > p
    OBVIOUS
  <2> QED BY <2>9, <2>10, <2>11, <2>12, <2>13
<1>10. d.depth[l] = n - 1
  BY <1>4
<1>11. CASE n = 1
  <2>1. t = << >> /\ Len(t) = 0 /\ p = 1
    BY <1>2, <1>3, <1>11, EmptySeq
  <2>2. d.first[l] = NULL /\ d.last[l] = NULL /\ d.depth[l] = 0
    <3>1. c.next[r] = NULL /\ c.prev[r] = NULL
      BY <1>6, <1>11, <2>1
    <3>2. n - 1 = 0
      BY <1>11
    <3> QED BY <1>10, <3>1, <3>2, Zenon
  <2>3. \A i \in 1..0 : FALSE
    OBVIOUS
  <2>4. IsList(d, l, t)
    BY <1>3, <2>1, <2>2, <2>3 DEF IsList
  <2> QED BY <2>4 DEF t
<1>12. CASE n # 1
  <2>1. n - 1 \in Nat \ {0} /\ n - 1 = Len(t) /\ 1 \in 1..n - 1 /\ n - 1 \in 1..n - 1
    BY <1>2, <1>12
  <2>2. d.first[l] = t[1]
    BY <1>2, <1>4, <1>6, <2>1
  <2>3. d.last[l] = t[n - 1]
    <3>1. t[n - 1] = IF p = n THEN s[n - 1] ELSE s[n]
      BY <1>2, <2>1
    <3> QED BY <1>4, <1>6, <2>1, <3>1
  <2>4. IsList(d, l, t)
    BY <1>3, <1>8, <1>9, <1>10, <2>1, <2>2, <2>3, IsListIf
  <2> QED BY <2>4 DEF t
<1> QED BY <1>11, <1>12
-----------------------------------------------------------------------------
(* The device whose turn it is has requests, if any device has. *)
LEMMA NextLunIs ==
  ASSUME QueueConstants, NEW depth \in [Luns -> Nat], NEW wait \in [Luns -> Nat], NEW l \in Luns
  PROVE  /\ NextLun(depth, wait, l) \in Luns
         /\ \A k \in Luns : depth[k] # 0 => depth[NextLun(depth, wait, l)] # 0
PROOF
<1>1. CASE Luns = {0}
  BY <1>1 DEF NextLun
<1>2. CASE Luns # {0}
  <2>1. Luns = {0, 1}
    BY <1>2 DEF QueueConstants, QueueAssumption
  <2>2. PICK a \in Nat, b \in Nat, v \in Nat, w \in Nat :
          a = depth[0] /\ b = depth[1] /\ v = wait[0] /\ w = wait[1]
    BY <2>1
  <2>3. NextLun(depth, wait, l) = IF a * (v + 1) > b * (w + 1) THEN 0 ELSE 1
    BY <1>2, <2>2 DEF NextLun
  <2>4. a * (v + 1) > b * (w + 1) => a # 0
    OBVIOUS
  <2>5. ~(a * (v + 1) > b * (w + 1)) /\ a # 0 => b # 0
    OBVIOUS
  <2>6. CASE a * (v + 1) > b * (w + 1)
    BY <2>1, <2>2, <2>3, <2>4, <2>6
  <2>7. CASE ~(a * (v + 1) > b * (w + 1))
    <3>1. NextLun(depth, wait, l) = 1
      BY <2>3, <2>7
    <3> QED BY <2>1, <2>2, <2>5, <2>7, <3>1
  <2> QED BY <2>6, <2>7
<1> QED BY <1>1, <1>2

(* A channel has requests when one of its devices has. *)
LEMMA AnyQueued ==
  ASSUME QueueConstants, NEW depth \in [Luns -> Nat], NEW total,
         total = IF Luns = {0} THEN depth[0] ELSE depth[0] + depth[1]
  PROVE  total # 0 <=> \E k \in Luns : depth[k] # 0
PROOF
<1>1. CASE Luns = {0}
  BY <1>1
<1>2. CASE Luns # {0}
  <2>1. Luns = {0, 1}
    BY <1>2 DEF QueueConstants, QueueAssumption
  <2>2. depth[0] \in Nat /\ depth[1] \in Nat /\ total = depth[0] + depth[1]
    BY <1>2, <2>1
  <2> QED BY <2>1, <2>2
<1> QED BY <1>1, <1>2

(* A list has a first request, one of its device, when it is not empty. *)
LEMMA FirstIs ==
  ASSUME QueueConstants, NEW c, NEW l, NEW s, IsList(c, l, s)
  PROVE  /\ c.depth[l] = 0 <=> c.first[l] = NULL
         /\ c.first[l] # NULL => Lun(c.first[l]) = l
PROOF
<1>1. s \in Seq(Reqs) /\ Len(s) \in Nat /\ c.depth[l] = Len(s)
  BY DEF IsList
<1>2. CASE Len(s) = 0
  BY <1>1, <1>2 DEF IsList
<1>3. CASE Len(s) # 0
  <2>1. 1 \in 1..Len(s)
    BY <1>1, <1>3
  <2>2. c.first[l] = s[1] /\ Lun(s[1]) = l
    BY <1>3, <2>1 DEF IsList
  <2>3. s[1] # NULL
    BY <1>1, <2>1 DEF QueueConstants, QueueAssumption
  <2> QED BY <1>1, <1>3, <2>2, <2>3
<1> QED BY <1>2, <1>3

(* Unlinking changes the links, the ends of the list and the counts. *)
LEMMA UnlinkIs ==
  ASSUME NEW c \in QueueRecords, NEW r \in Reqs, NEW l \in Luns, l = Lun(r),
         c.depth[l] # 0, c.total # 0
  PROVE  /\ Unlink(c, r) \in QueueRecords
         /\ Unlink(c, r).next = NextWithout(c, r) /\ Unlink(c, r).prev = PrevWithout(c, r)
         /\ Unlink(c, r).first = [c.first EXCEPT ![l] = IF c.prev[r] = NULL THEN c.next[r] ELSE @]
         /\ Unlink(c, r).last = [c.last EXCEPT ![l] = IF c.next[r] = NULL THEN c.prev[r] ELSE @]
         /\ Unlink(c, r).depth = [c.depth EXCEPT ![l] = @ - 1]
         /\ Unlink(c, r).total = c.total - 1 /\ Unlink(c, r).wait = c.wait
         /\ Unlink(c, r).ttl = c.ttl /\ Unlink(c, r).state = c.state
PROOF
<1> DEFINE u  == Unlink(c, r)
           fi == [c.first EXCEPT ![l] = IF c.prev[r] = NULL THEN c.next[r] ELSE @]
           la == [c.last EXCEPT ![l] = IF c.next[r] = NULL THEN c.prev[r] ELSE @]
           de == [c.depth EXCEPT ![l] = @ - 1]
<1>1. /\ c.next \in Links /\ c.prev \in Links /\ c.depth \in [Luns -> Nat]
      /\ c.first \in [Luns -> Reqs \cup {NULL}] /\ c.last \in [Luns -> Reqs \cup {NULL}]
      /\ c.total \in Nat
  BY DEF QueueRecords
<1>2. NextWithout(c, r) \in Links /\ PrevWithout(c, r) \in Links
  BY <1>1 DEF NextWithout, PrevWithout, Links
<1>3. fi \in [Luns -> Reqs \cup {NULL}] /\ la \in [Luns -> Reqs \cup {NULL}]
  BY <1>1 DEF Links
<1>4. de \in [Luns -> Nat] /\ c.total - 1 \in Nat
  BY <1>1
<1>5. u = [c EXCEPT !.next = NextWithout(c, r), !.prev = PrevWithout(c, r),
                    !.first = fi, !.last = la, !.depth = de, !.total = c.total - 1]
  BY DEF Unlink, NextWithout, PrevWithout, QueueRecords
<1> HIDE DEF u, fi, la, de
<1>6. /\ u \in QueueRecords
      /\ u.next = NextWithout(c, r) /\ u.prev = PrevWithout(c, r)
      /\ u.first = fi /\ u.last = la /\ u.depth = de
      /\ u.total = c.total - 1 /\ u.wait = c.wait /\ u.ttl = c.ttl /\ u.state = c.state
  BY <1>2, <1>3, <1>4, <1>5 DEF QueueRecords
<1> QED BY <1>6 DEF u, fi, la, de

(* The turns the devices have waited when device m is chosen. *)
Waited(depth, wait, m) == [k \in Luns |-> IF k = m \/ depth[k] = 0 THEN 0 ELSE wait[k] + 1]

(* Request r, element p of its list in c, is removed: d is what is left,   *)
(* m the device whose turn it is.                                          *)
IsRemoved(c, L, r, p, d, m) ==
  /\ d = RemoveRequest(c, r) /\ m = NextLun(d.depth, c.wait, Lun(r)) /\ m \in Luns
  /\ HasLists(d, [L EXCEPT ![Lun(r)] = Removed(L[Lun(r)], p)])
  /\ d.ttl = c.ttl /\ d.state = [c.state EXCEPT ![r] = "NONE"]
  /\ d.depth = [c.depth EXCEPT ![Lun(r)] = @ - 1] /\ d.cur = d.first[m]
  /\ d.wait = Waited(d.depth, c.wait, m)

(* UniataRemoveRequest takes a queued request out of the list of its       *)
(* device, and the first request of the device whose turn it is becomes    *)
(* the current one.                                                        *)
LEMMA RemoveLists ==
  ASSUME QueueConstants, NEW c, NEW L, HasLists(c, L),
         NEW r \in Reqs, c.state[r] # "NONE",
         NEW p \in Nat, p \in 1..Len(L[Lun(r)]), L[Lun(r)][p] = r
  PROVE  \E d, m : IsRemoved(c, L, r, p, d, m)
PROOF
<1>30. PICK l \in Luns : l = Lun(r)
  BY LunType
<1>31. PICK s \in Seq(Reqs) : s = L[l]
  BY DEF HasLists
<1>32. PICK n \in Nat : n = Len(s)
  BY LenProperties
<1>33. p \in 1..n /\ s[p] = r
  BY <1>30, <1>31, <1>32
<1>1. c \in QueueRecords /\ IsList(c, l, s) /\ c.depth[l] = n /\ n # 0
  <2>1. c \in QueueRecords /\ IsList(c, l, s)
    BY <1>30, <1>31 DEF HasLists
  <2>2. c.depth[l] = n
    BY <1>32, <2>1 DEF IsList
  <2> QED BY <1>33, <2>1, <2>2
<1>2. c.total # 0
  <2>1. c.depth \in [Luns -> Nat]
    BY <1>1 DEF QueueRecords
  <2>2. c.total = IF Luns = {0} THEN c.depth[0] ELSE c.depth[0] + c.depth[1]
    BY DEF HasLists
  <2> QED BY <1>1, <2>1, <2>2, AnyQueued
<1>3. PICK u : u = Unlink(c, r)
  OBVIOUS
<1>4. /\ u.next = NextWithout(c, r) /\ u.prev = PrevWithout(c, r)
      /\ u.first = [c.first EXCEPT ![l] = IF c.prev[r] = NULL THEN c.next[r] ELSE @]
      /\ u.last = [c.last EXCEPT ![l] = IF c.next[r] = NULL THEN c.prev[r] ELSE @]
      /\ u.depth = [c.depth EXCEPT ![l] = @ - 1]
      /\ u.total = c.total - 1 /\ u.wait = c.wait /\ u.ttl = c.ttl /\ u.state = c.state
      /\ u \in QueueRecords
  BY <1>30, <1>1, <1>2, <1>3, UnlinkIs
<1>5. PICK m : m = NextLun(u.depth, c.wait, l)
  OBVIOUS
<1>6. m \in Luns /\ \A k \in Luns : u.depth[k] # 0 => u.depth[m] # 0
  <2>1. u.depth \in [Luns -> Nat] /\ c.wait \in [Luns -> Nat]
    BY <1>1, <1>4 DEF QueueRecords
  <2> QED BY <1>1, <1>5, <2>1, NextLunIs
<1>7. PICK d : d = Promote(u, m, r)
  OBVIOUS
<1>8. RemoveRequest(c, r) = d
  BY <1>1, <1>30, <1>3, <1>5, <1>7 DEF RemoveRequest
<1>9. /\ d.cur = u.first[m] /\ d.cdev = m /\ d.wait = Waited(u.depth, u.wait, m)
      /\ d.state = [c.state EXCEPT ![r] = "NONE"]
      /\ d.next = u.next /\ d.prev = u.prev /\ d.first = u.first /\ d.last = u.last
      /\ d.depth = u.depth /\ d.total = u.total /\ d.ttl = c.ttl
      /\ d \in QueueRecords
  <2>1. /\ d.cur = u.first[m] /\ d.cdev = m /\ d.wait = Waited(u.depth, u.wait, m)
        /\ d.state = [u.state EXCEPT ![r] = "NONE"]
        /\ d.next = u.next /\ d.prev = u.prev /\ d.first = u.first /\ d.last = u.last
        /\ d.depth = u.depth /\ d.total = u.total /\ d.ttl = u.ttl
        /\ d \in QueueRecords
    <3>1. PICK wa : wa = Waited(u.depth, u.wait, m)
      OBVIOUS
    <3>2. PICK st : st = [u.state EXCEPT ![r] = "NONE"]
      OBVIOUS
    <3>3. u \in QueueRecords /\ m \in Luns
      BY <1>4, <1>6
    <3>4. d = [u EXCEPT !.cur = u.first[m], !.cdev = m, !.wait = wa, !.state = st]
      BY <1>7, <3>1, <3>2, <3>3 DEF Promote, Waited, QueueRecords
    <3>5. wa \in [Luns -> Nat] /\ st \in [Reqs -> ReqStates] /\ u.first[m] \in Reqs \cup {NULL}
      BY SMTT(30), <3>1, <3>2, <3>3 DEF QueueRecords, ReqStates, Waited
    <3>6. /\ d \in QueueRecords
          /\ d.cur = u.first[m] /\ d.cdev = m /\ d.wait = wa /\ d.state = st
          /\ d.next = u.next /\ d.prev = u.prev /\ d.first = u.first /\ d.last = u.last
          /\ d.depth = u.depth /\ d.total = u.total /\ d.ttl = u.ttl
      BY <3>3, <3>4, <3>5 DEF QueueRecords
    <3> QED BY <3>1, <3>2, <3>6
  <2> QED BY <1>4, <2>1
<1>10. /\ c.first \in [Luns -> Reqs \cup {NULL}] /\ c.last \in [Luns -> Reqs \cup {NULL}]
       /\ c.depth \in [Luns -> Nat] /\ c.next \in Links /\ c.prev \in Links
       /\ c.total \in Nat /\ d.depth \in [Luns -> Nat]
  BY <1>1, <1>9 DEF QueueRecords
<1>11. /\ d.depth[l] = c.depth[l] - 1
       /\ d.first[l] = IF c.prev[r] = NULL THEN c.next[r] ELSE c.first[l]
       /\ d.last[l] = IF c.next[r] = NULL THEN c.prev[r] ELSE c.last[l]
  BY <1>1, <1>4, <1>9, <1>10
<1>12. IsList(d, l, Removed(s, p))
  <2>1. d.next = NextWithout(c, r) /\ d.prev = PrevWithout(c, r)
    BY <1>4, <1>9
  <2> QED BY ZenonT(30), <1>1, <1>32, <1>33, <1>10, <1>11, <2>1, RemovedList
<1>13. OnlyList(c, d, l)
  <2>1. /\ c.next[r] \in Reqs => Lun(c.next[r]) = l
        /\ c.prev[r] \in Reqs => Lun(c.prev[r]) = l
    <3>1. /\ c.next[r] = NULL \/ (p + 1 \in 1..n /\ c.next[r] = s[p + 1])
          /\ c.prev[r] = NULL \/ (p - 1 \in 1..n /\ c.prev[r] = s[p - 1])
      BY <1>1, <1>32, <1>33 DEF IsList
    <3>2. NULL \notin Reqs
      BY DEF QueueConstants, QueueAssumption
    <3>3. \A i \in 1..n : Lun(s[i]) = l
      BY <1>1, <1>32 DEF IsList
    <3> QED BY <3>1, <3>2, <3>3
  <2>2. \A x \in Reqs : Lun(x) # l => d.next[x] = c.next[x] /\ d.prev[x] = c.prev[x]
    BY <1>4, <1>9, <2>1 DEF NextWithout, PrevWithout
  <2>3. \A k \in Luns : k # l => d.first[k] = c.first[k] /\ d.last[k] = c.last[k]
                                 /\ d.depth[k] = c.depth[k]
    BY <1>1, <1>4, <1>9, <1>10
  <2> QED BY <2>2, <2>3 DEF OnlyList
<1>14. PICK t : t = Removed(s, p)
  OBVIOUS
<1>15. PICK M : M = [L EXCEPT ![l] = t]
  OBVIOUS
<1>16. M \in [Luns -> Seq(Reqs)] /\ \A k \in Luns : IsList(d, k, M[k])
  BY <1>1, <1>12, <1>13, <1>14, <1>15, OneList
<1>17. d.total = IF Luns = {0} THEN d.depth[0] ELSE d.depth[0] + d.depth[1]
  <2>1. d.total = c.total - 1
    BY <1>4, <1>9
  <2>2. d.depth[l] \in Int /\ d.total \in Int /\ d.total - c.total = d.depth[l] - c.depth[l]
    BY <1>1, <1>10, <1>11, <2>1
  <2> QED BY <1>1, <1>13, <2>2, TotalIs
<1>18. IsList(d, m, M[m])
  BY <1>6, <1>16
<1>19. d.total = 0 <=> d.cur = NULL
  <2>1. d.total # 0 <=> \E k \in Luns : d.depth[k] # 0
    BY <1>10, <1>17, AnyQueued
  <2>2. d.depth[m] = 0 <=> d.first[m] = NULL
    BY <1>18, FirstIs
  <2>3. d.cur = d.first[m] /\ d.depth = u.depth
    BY <1>9
  <2> QED BY <1>6, <2>1, <2>2, <2>3
<1>20. d.cur # NULL => d.cur = d.first[Lun(d.cur)]
  <2>1. d.cur = d.first[m] /\ (d.first[m] # NULL => Lun(d.first[m]) = m)
    BY <1>9, <1>18, FirstIs
  <2> QED BY <2>1
<1>21. HasLists(d, M)
  BY <1>9, <1>16, <1>17, <1>19, <1>20 DEF HasLists
<1>22. d.wait = Waited(d.depth, c.wait, m)
  BY <1>4, <1>9
<1>23. m = NextLun(d.depth, c.wait, l) /\ d.cur = d.first[m]
       /\ d.depth = [c.depth EXCEPT ![l] = @ - 1]
  BY <1>4, <1>5, <1>9
<1>24. M = [L EXCEPT ![Lun(r)] = Removed(L[Lun(r)], p)]
  BY <1>30, <1>31, <1>14, <1>15
<1>25. IsRemoved(c, L, r, p, d, m)
  BY <1>30, <1>6, <1>8, <1>9, <1>21, <1>22, <1>23, <1>24 DEF IsRemoved
<1> QED BY <1>25
-----------------------------------------------------------------------------
(* The lists are a matter of the links, the ends and the counts. *)
LEMMA SameLists ==
  ASSUME NEW c, NEW L, HasLists(c, L), NEW d \in QueueRecords,
         d.first = c.first, d.last = c.last, d.depth = c.depth,
         d.next = c.next, d.prev = c.prev, d.total = c.total, d.cur = c.cur
  PROVE  HasLists(d, L)
PROOF
<1>1. \A l \in Luns : IsList(d, l, L[l])
  BY DEF IsList, HasLists
<1> QED BY <1>1 DEF HasLists

(* What was left in a request that is in no list can be cleared.           *)
Cleared(c, r) == [c EXCEPT !.next[r] = NULL, !.prev[r] = NULL, !.ttl[r] = 0]

(* Clearing the links of a request outside the lists changes none of them. *)
LEMMA ClearedLists ==
  ASSUME QueueConstants, NEW c, NEW L, HasLists(c, L),
         NEW r \in Reqs, r \notin Elements(L[Lun(r)])
  PROVE  /\ HasLists(Cleared(c, r), L)
         /\ Cleared(c, r).ttl = [c.ttl EXCEPT ![r] = 0]
         /\ Cleared(c, r).state = c.state /\ Cleared(c, r).wait = c.wait
         /\ Cleared(c, r).depth = c.depth /\ Cleared(c, r).cur = c.cur
         /\ Cleared(c, r).total = c.total /\ Cleared(c, r).first = c.first
PROOF
<1>1. PICK d : d = Cleared(c, r)
  OBVIOUS
<1>2. c \in QueueRecords /\ L \in [Luns -> Seq(Reqs)]
  BY DEF HasLists
<1>3. PICK ne, pr, tt : /\ ne = [c.next EXCEPT ![r] = NULL]
                        /\ pr = [c.prev EXCEPT ![r] = NULL]
                        /\ tt = [c.ttl EXCEPT ![r] = 0]
  OBVIOUS
<1>4. ne \in Links /\ pr \in Links /\ tt \in [Reqs -> 0..TtlMod - 1]
  <2>1. 0 \in 0..TtlMod - 1
    BY DEF QueueConstants, QueueAssumption
  <2> QED BY <1>2, <1>3, <2>1 DEF QueueRecords, Links
<1>5. d = [c EXCEPT !.next = ne, !.prev = pr, !.ttl = tt]
  BY <1>1, <1>3 DEF Cleared
<1>6. /\ d \in QueueRecords /\ d.next = ne /\ d.prev = pr /\ d.ttl = tt
      /\ d.first = c.first /\ d.last = c.last /\ d.depth = c.depth /\ d.wait = c.wait
      /\ d.state = c.state /\ d.total = c.total /\ d.cur = c.cur
  BY <1>2, <1>4, <1>5 DEF QueueRecords
<1>7. \A x \in Reqs : x # r => d.next[x] = c.next[x] /\ d.prev[x] = c.prev[x]
  BY <1>2, <1>3, <1>6 DEF QueueRecords, Links
<1>8. ASSUME NEW k \in Luns
      PROVE  IsList(d, k, L[k])
  <2>1. IsList(c, k, L[k]) /\ L[k] \in Seq(Reqs)
    BY DEF HasLists
  <2>2. ASSUME NEW i \in 1..Len(L[k])
        PROVE  d.next[L[k][i]] = c.next[L[k][i]] /\ d.prev[L[k][i]] = c.prev[L[k][i]]
    <3>1. L[k][i] \in Reqs
      BY <2>1
    <3>2. Lun(L[k][i]) = k
      BY <2>1 DEF IsList
    <3>3. L[k][i] # r
      BY <3>2 DEF Elements
    <3> QED BY <1>7, <3>1, <3>3
  <2> QED BY <1>6, <2>1, <2>2, OtherList
<1>9. HasLists(d, L)
  BY <1>6, <1>8 DEF HasLists
<1> QED BY <1>1, <1>3, <1>6, <1>9

(* Insertion and removal, told by the elements of the lists. *)
LEMMA InsertedElements ==
  ASSUME NEW s \in Seq(Reqs), NEW n \in Nat, n = Len(s),
         NEW p \in Nat, p <= n, NEW r \in Reqs
  PROVE  Elements(Inserted(s, p, r)) = Elements(s) \cup {r}
PROOF
<1>1. PICK t : t = Inserted(s, p, r)
  OBVIOUS
<1>2. /\ Len(t) = n + 1
      /\ \A i \in 1..n + 1 : t[i] = IF i <= p THEN s[i] ELSE IF i = p + 1 THEN r ELSE s[i - 1]
  BY <1>1, InsertedIs
<1>3. ASSUME NEW x \in Elements(t) PROVE x \in Elements(s) \cup {r}
  <2>1. PICK i \in 1..n + 1 : x = t[i]
    BY <1>2 DEF Elements
  <2>2. i <= p => i \in 1..n
    OBVIOUS
  <2>3. i > p /\ i # p + 1 => i - 1 \in 1..n
    OBVIOUS
  <2> QED BY <1>2, <2>1, <2>2, <2>3 DEF Elements
<1>4. ASSUME NEW x \in Elements(s) PROVE x \in Elements(t)
  <2>1. PICK i \in 1..n : x = s[i]
    BY DEF Elements
  <2>2. CASE i <= p
    <3>1. i \in 1..n + 1 /\ t[i] = s[i]
      BY <1>2, <2>2
    <3> QED BY <1>2, <2>1, <3>1 DEF Elements
  <2>3. CASE i > p
    <3>1. i + 1 \in 1..n + 1 /\ ~(i + 1 <= p) /\ i + 1 # p + 1 /\ (i + 1) - 1 = i
      BY <2>3
    <3>2. t[i + 1] = s[i]
      BY <1>2, <3>1
    <3> QED BY <1>2, <2>1, <3>1, <3>2 DEF Elements
  <2> QED BY <2>2, <2>3
<1>5. r \in Elements(t)
  <2>1. p + 1 \in 1..n + 1 /\ ~(p + 1 <= p)
    OBVIOUS
  <2> QED BY <1>2, <2>1 DEF Elements
<1> QED BY <1>1, <1>3, <1>4, <1>5

(* A removal takes one element away. *)
LEMMA RemovedElements ==
  ASSUME NEW s \in Seq(Reqs), NEW n \in Nat, n = Len(s), NEW p \in Nat, p \in 1..n,
         \A i, j \in 1..n : s[i] = s[j] => i = j
  PROVE  Elements(Removed(s, p)) = Elements(s) \ {s[p]}
PROOF
<1>1. PICK t : t = Removed(s, p)
  OBVIOUS
<1>2. /\ Len(t) = n - 1
      /\ \A i \in 1..n - 1 : t[i] = IF i < p THEN s[i] ELSE s[i + 1]
  BY ZenonT(60), <1>1, RemovedIs
<1>3. ASSUME NEW x \in Elements(t) PROVE x \in Elements(s) /\ x # s[p]
  <2>1. PICK i \in 1..n - 1 : x = t[i]
    BY <1>2 DEF Elements
  <2>2. PICK k \in 1..n : k = IF i < p THEN i ELSE i + 1
    OBVIOUS
  <2>3. x = s[k] /\ k # p
    BY <1>2, <2>1, <2>2
  <2> QED BY <2>3 DEF Elements
<1>4. ASSUME NEW x \in Elements(s), x # s[p] PROVE x \in Elements(t)
  <2>1. PICK i \in 1..n : x = s[i]
    BY DEF Elements
  <2>2. i # p
    BY <1>4, <2>1
  <2>3. CASE i < p
    <3>1. i \in 1..n - 1 /\ t[i] = s[i]
      BY <1>2, <2>3
    <3> QED BY <1>2, <2>1, <3>1 DEF Elements
  <2>4. CASE i > p
    <3>1. i - 1 \in 1..n - 1 /\ ~(i - 1 < p) /\ (i - 1) + 1 = i
      BY <2>4
    <3>2. t[i - 1] = s[i]
      BY <1>2, <3>1
    <3> QED BY <1>2, <2>1, <3>1, <3>2 DEF Elements
  <2> QED BY <2>2, <2>3, <2>4
<1> QED BY <1>1, <1>3, <1>4

(* The empty queue has empty lists. *)
LEMMA EmptyLists ==
  ASSUME QueueConstants
  PROVE  HasLists(EmptyQueue, [l \in Luns |-> << >>])
PROOF
<1>1. PICK c : c = EmptyQueue
  OBVIOUS
<1>2. c \in QueueRecords
  <2>1. 0 \in 0..TtlMod - 1 /\ 0 \in Luns
    BY DEF QueueConstants, QueueAssumption
  <2> QED BY <1>1, <2>1 DEF EmptyQueue, QueueRecords, Links, ReqStates
<1>3. /\ c.first = [l \in Luns |-> NULL] /\ c.last = [l \in Luns |-> NULL]
      /\ c.depth = [l \in Luns |-> 0] /\ c.total = 0 /\ c.cur = NULL
  BY <1>1 DEF EmptyQueue
<1>4. \A l \in Luns : IsList(c, l, << >>)
  BY <1>3 DEF IsList
<1>5. c.total = IF Luns = {0} THEN c.depth[0] ELSE c.depth[0] + c.depth[1]
  <2>1. Luns = {0} \/ Luns = {0, 1}
    BY DEF QueueConstants, QueueAssumption
  <2> QED BY <1>3, <2>1
<1> QED BY <1>1, <1>2, <1>3, <1>4, <1>5 DEF HasLists
-----------------------------------------------------------------------------
(* ReqQueue: the lists under the calls of the users. *)

(* The lists of queue c are L, and the requests in them the pending ones.  *)
Listing(c, L) ==
  /\ HasLists(c, L)
  /\ \A l \in Luns, r \in Reqs :
       r \in Elements(L[l]) <=> c.state[r] # "NONE" /\ Lun(r) = l

(* Of the two devices one has just been chosen, and the other was passed   *)
(* over for a queue that was longer than its product.                      *)
WaitInv == /\ \A l \in Luns : chan.depth[l] <= MaxDepth /\ chan.wait[l] <= MaxDepth
           /\ \E l \in Luns : chan.wait[l] = 0

QueueIInv == (\E L : Listing(chan, L)) /\ WaitInv

(* What is assumed of the constants. *)
LEMMA ConstantsAre == QueueConstants
PROOF
  BY CmdAssumption, QueueAssumption DEF QueueConstants, QueueAssumption

-----------------------------------------------------------------------------
(* What the actions do to the lists. *)

(* Posting marks the request as queued. *)
Marked(c, r) == [c EXCEPT !.state[r] = "QUEUED"]

(* Setting the state changes no list. *)
LEMMA MarkedLists ==
  ASSUME NEW c, NEW L, HasLists(c, L), NEW r \in Reqs
  PROVE  /\ HasLists(Marked(c, r), L)
         /\ Marked(c, r).state = [c.state EXCEPT ![r] = "QUEUED"]
         /\ Marked(c, r).ttl = c.ttl /\ Marked(c, r).wait = c.wait
         /\ Marked(c, r).depth = c.depth
PROOF
<1>0. PICK d : d = Marked(c, r)
  OBVIOUS
<1>1. c \in QueueRecords
  BY DEF HasLists
<1>2. PICK st : st = [c.state EXCEPT ![r] = "QUEUED"]
  OBVIOUS
<1>3. st \in [Reqs -> ReqStates]
  BY <1>1, <1>2 DEF QueueRecords, ReqStates
<1>4. d = [c EXCEPT !.state = st]
  BY <1>0, <1>2 DEF Marked
<1>5. /\ d \in QueueRecords /\ d.state = st
      /\ d.first = c.first /\ d.last = c.last /\ d.depth = c.depth /\ d.wait = c.wait
      /\ d.next = c.next /\ d.prev = c.prev /\ d.ttl = c.ttl
      /\ d.total = c.total /\ d.cur = c.cur
  BY <1>1, <1>3, <1>4 DEF QueueRecords
<1>6. HasLists(d, L)
  BY <1>5, SameLists
<1> QED BY <1>0, <1>2, <1>5, <1>6

(* A request for an idle device. *)
PostedFirst(L, r) ==
  /\ L[Lun(r)] = << >>
  /\ HasLists(chan', [L EXCEPT ![Lun(r)] = <<r>>])
  /\ chan'.ttl = [chan.ttl EXCEPT ![r] = 0]
  /\ chan'.state = [chan.state EXCEPT ![r] = "QUEUED"]
  /\ chan'.wait = chan.wait
  /\ chan'.depth = [chan.depth EXCEPT ![Lun(r)] = 1]

(* A request for a device without requests. *)
LEMMA PostFirst ==
  ASSUME NEW L, Listing(chan, L), NEW r \in Reqs, PostReq(r), chan.depth[Lun(r)] = 0
  PROVE  PostedFirst(L, r)
PROOF
<1>1. HasLists(chan, L) /\ QueueConstants
  BY ConstantsAre DEF Listing
<1>2. PICK d : d = QueueRequest(chan, r)
  OBVIOUS
<1>3. PICK M : M = [L EXCEPT ![Lun(r)] = <<r>>]
  OBVIOUS
<1>4. /\ L[Lun(r)] = << >> /\ HasLists(d, M)
      /\ d.ttl = [chan.ttl EXCEPT ![r] = 0] /\ d.state = chan.state
      /\ d.wait = chan.wait /\ d.depth = [chan.depth EXCEPT ![Lun(r)] = 1]
  <2>1. /\ L[Lun(r)] = << >>
        /\ HasLists(QueueRequest(chan, r), [L EXCEPT ![Lun(r)] = <<r>>])
        /\ QueueRequest(chan, r).ttl = [chan.ttl EXCEPT ![r] = 0]
        /\ QueueRequest(chan, r).state = chan.state
        /\ QueueRequest(chan, r).wait = chan.wait
        /\ QueueRequest(chan, r).depth = [chan.depth EXCEPT ![Lun(r)] = 1]
    BY <1>1, QueueFirstLists
  <2> QED BY <1>2, <1>3, <2>1
<1>5. chan' = Marked(d, r)
  BY <1>2 DEF PostReq, Marked
<1>6. /\ HasLists(chan', M) /\ chan'.state = [d.state EXCEPT ![r] = "QUEUED"]
      /\ chan'.ttl = d.ttl /\ chan'.wait = d.wait /\ chan'.depth = d.depth
  <2>1. /\ HasLists(Marked(d, r), M) /\ Marked(d, r).state = [d.state EXCEPT ![r] = "QUEUED"]
        /\ Marked(d, r).ttl = d.ttl /\ Marked(d, r).wait = d.wait
        /\ Marked(d, r).depth = d.depth
    BY <1>4, MarkedLists
  <2> QED BY <1>5, <2>1
<1> QED BY <1>3, <1>4, <1>6 DEF PostedFirst

(* A request for a busy one: it goes behind the p-th of n requests. *)
PostedBehind(L, r, n, p) ==
  /\ n = Len(L[Lun(r)]) /\ p \in 1..n
  /\ MayBeBehind(Entered(chan, r), r, L[Lun(r)], p)
  /\ HasLists(chan', [L EXCEPT ![Lun(r)] = Inserted(L[Lun(r)], p, r)])
  /\ chan'.ttl = AgedTtl(chan, L[Lun(r)], n, p, r)
  /\ chan'.state = [chan.state EXCEPT ![r] = "QUEUED"]
  /\ chan'.wait = chan.wait
  /\ chan'.depth = [chan.depth EXCEPT ![Lun(r)] = n + 1]

(* A request for a device that has some is put behind one of them. *)
LEMMA PostBehind ==
  ASSUME NEW L, Listing(chan, L), NEW r \in Reqs, PostReq(r), chan.depth[Lun(r)] # 0
  PROVE  \E n \in Nat, p \in Nat : PostedBehind(L, r, n, p)
PROOF
<1>1. HasLists(chan, L) /\ QueueConstants
  BY ConstantsAre DEF Listing
<1>2. PICK l \in Luns : l = Lun(r)
  BY <1>1, LunType
<1>3. PICK s \in Seq(Reqs) : s = L[l]
  BY <1>1 DEF HasLists
<1>4. PICK n \in Nat : n = Len(s)
  BY LenProperties
<1>5. r \notin Elements(s)
  BY <1>2, <1>3 DEF PostReq, Listing
<1>6. PICK d : d = QueueRequest(chan, r)
  OBVIOUS
<1>7. PICK p \in Nat :
        /\ p \in 1..n
        /\ MayBeBehind(Entered(chan, r), r, s, p)
        /\ HasLists(QueueRequest(chan, r), [L EXCEPT ![l] = Inserted(s, p, r)])
        /\ QueueRequest(chan, r).ttl = AgedTtl(chan, s, n, p, r)
        /\ QueueRequest(chan, r).state = chan.state
        /\ QueueRequest(chan, r).wait = chan.wait
        /\ QueueRequest(chan, r).depth = [chan.depth EXCEPT ![l] = n + 1]
  BY <1>1, <1>2, <1>3, <1>4, <1>5, QueueBehindLists
<1>8. PICK M : M = [L EXCEPT ![l] = Inserted(s, p, r)]
  OBVIOUS
<1>9. chan' = Marked(d, r)
  BY <1>6 DEF PostReq, Marked
<1>10. HasLists(d, M)
  BY <1>6, <1>7, <1>8
<1>11. /\ HasLists(chan', M) /\ chan'.state = [d.state EXCEPT ![r] = "QUEUED"]
       /\ chan'.ttl = d.ttl /\ chan'.wait = d.wait /\ chan'.depth = d.depth
  <2>1. /\ HasLists(Marked(d, r), M) /\ Marked(d, r).state = [d.state EXCEPT ![r] = "QUEUED"]
        /\ Marked(d, r).ttl = d.ttl /\ Marked(d, r).wait = d.wait
        /\ Marked(d, r).depth = d.depth
    BY <1>10, MarkedLists
  <2> QED BY <1>9, <2>1
<1>12. PostedBehind(L, r, n, p)
  BY <1>2, <1>3, <1>4, <1>6, <1>7, <1>8, <1>11 DEF PostedBehind
<1> QED BY <1>12

(* A request leaves: it was the p-th of its list, and m is the device      *)
(* whose turn it is then.                                                  *)
Left(L, r, p, m) ==
  /\ p \in 1..Len(L[Lun(r)]) /\ L[Lun(r)][p] = r
  /\ HasLists(chan', [L EXCEPT ![Lun(r)] = Removed(L[Lun(r)], p)])
  /\ chan'.ttl = [chan.ttl EXCEPT ![r] = 0]
  /\ chan'.state = [chan.state EXCEPT ![r] = "NONE"]
  /\ chan'.depth = [chan.depth EXCEPT ![Lun(r)] = @ - 1]
  /\ m = NextLun(chan'.depth, chan.wait, Lun(r)) /\ m \in Luns
  /\ chan'.wait = Waited(chan'.depth, chan.wait, m)

(* A request leaves its list. *)
LEMMA LeaveLists ==
  ASSUME NEW L, Listing(chan, L), NEW r \in Reqs, chan.state[r] # "NONE",
         chan' = Leave(chan, r)
  PROVE  \E p, m : p \in Nat /\ Left(L, r, p, m)
PROOF
<1>1. HasLists(chan, L) /\ QueueConstants
  BY ConstantsAre DEF Listing
<1>2. PICK l \in Luns : l = Lun(r)
  BY <1>1, LunType
<1>3. PICK s \in Seq(Reqs) : s = L[l]
  BY <1>1 DEF HasLists
<1>4. PICK n \in Nat : n = Len(s)
  BY LenProperties
<1>5. r \in Elements(s)
  BY <1>2, <1>3 DEF Listing
<1>6. PICK p \in Nat : p \in 1..n /\ s[p] = r
  BY <1>4, <1>5 DEF Elements
<1>7. p \in 1..Len(L[Lun(r)]) /\ L[Lun(r)][p] = r
  BY <1>2, <1>3, <1>4, <1>6
<1>8. PICK d, m : IsRemoved(chan, L, r, p, d, m)
  BY <1>1, <1>7, RemoveLists
<1>9. PICK M : M = [L EXCEPT ![l] = Removed(s, p)]
  OBVIOUS
<1>10. HasLists(d, M) /\ d = RemoveRequest(chan, r)
  BY <1>2, <1>3, <1>8, <1>9 DEF IsRemoved
<1>11. r \notin Elements(M[Lun(r)])
  <2>1. M[l] = Removed(s, p)
    BY <1>1, <1>9 DEF HasLists
  <2>2. \A i, j \in 1..n : s[i] = s[j] => i = j
    BY <1>1, <1>3, <1>4 DEF HasLists, IsList
  <2>3. Elements(Removed(s, p)) = Elements(s) \ {s[p]}
    BY <1>4, <1>6, <2>2, RemovedElements
  <2> QED BY <1>2, <1>6, <2>1, <2>3
<1>12. chan' = Cleared(d, r)
  BY <1>10 DEF Leave, Cleared
<1>13. /\ HasLists(chan', M) /\ chan'.ttl = [d.ttl EXCEPT ![r] = 0]
       /\ chan'.state = d.state /\ chan'.wait = d.wait /\ chan'.depth = d.depth
  <2>1. /\ HasLists(Cleared(d, r), M) /\ Cleared(d, r).ttl = [d.ttl EXCEPT ![r] = 0]
        /\ Cleared(d, r).state = d.state /\ Cleared(d, r).wait = d.wait
        /\ Cleared(d, r).depth = d.depth
    BY ZenonT(30), <1>1, <1>10, <1>11, ClearedLists
  <2> QED BY <1>12, <2>1
<1>14. Left(L, r, p, m)
  BY <1>2, <1>3, <1>7, <1>8, <1>9, <1>13 DEF Left, IsRemoved
<1> QED BY <1>14
-----------------------------------------------------------------------------
(* The invariant. *)

(* The lists are empty at the start. *)
LEMMA InitQueueIInv == InitQueue => QueueIInv
PROOF
<1> SUFFICES ASSUME InitQueue PROVE QueueIInv
  OBVIOUS
<1>1. HasLists(chan, [l \in Luns |-> << >>])
  BY ConstantsAre, EmptyLists DEF InitQueue
<1>2. chan.state = [r \in Reqs |-> "NONE"] /\ chan.depth = [l \in Luns |-> 0]
      /\ chan.wait = [l \in Luns |-> 0]
  BY DEF InitQueue, EmptyQueue
<1>3. \A l \in Luns : Elements([k \in Luns |-> << >>][l]) = {}
  <2>1. Elements(<< >>) = {}
    BY DEF Elements
  <2> QED BY <2>1
<1>4. Listing(chan, [l \in Luns |-> << >>])
  <2> DEFINE L == [l \in Luns |-> << >>]
  <2>1. \A l \in Luns, r \in Reqs :
          r \in Elements(L[l]) <=> chan.state[r] # "NONE" /\ Lun(r) = l
    BY <1>2, <1>3
  <2> HIDE DEF L
  <2>2. HasLists(chan, L) => Listing(chan, L)
    BY <2>1 DEF Listing
  <2> QED BY <1>1, <2>2 DEF L
<1>5. WaitInv
  <2>1. 0 \in Luns /\ MaxDepth \in Nat
    BY DepthAssumption, QueueAssumption
  <2> QED BY <1>2, <2>1 DEF WaitInv
<1> QED BY <1>4, <1>5 DEF QueueIInv

(* The counts are as long as the lists. *)
LEMMA DepthType ==
  ASSUME NEW c, NEW L, Listing(c, L)
  PROVE  /\ c.depth \in [Luns -> Nat] /\ c.wait \in [Luns -> Nat]
         /\ c.state \in [Reqs -> ReqStates]
PROOF
  BY DEF Listing, HasLists, QueueRecords

(* A device waits for as long as the other one's queue is the longer.      *)
LEMMA WaitedBounded ==
  ASSUME QueueConstants, NEW depth \in [Luns -> 0..MaxDepth], NEW wait \in [Luns -> 0..MaxDepth],
         \E l \in Luns : wait[l] = 0, NEW l \in Luns,
         NEW m \in Luns, m = NextLun(depth, wait, l)
  PROVE  /\ \A k \in Luns : Waited(depth, wait, m)[k] <= MaxDepth
         /\ Waited(depth, wait, m)[m] = 0
PROOF
<1>1. Waited(depth, wait, m)[m] = 0
  BY DEF Waited
<1>2. MaxDepth \in Nat
  BY DepthAssumption
<1>3. ASSUME NEW k \in Luns, k # m, depth[k] # 0
      PROVE  wait[k] + 1 <= MaxDepth
  <2>1. Luns = {0, 1} /\ Luns # {0}
    <3>1. Luns # {0}
      BY <1>3
    <3> QED BY <3>1 DEF QueueConstants, QueueAssumption
  <2>2. PICK a \in 0..MaxDepth, b \in 0..MaxDepth, v \in 0..MaxDepth, w \in 0..MaxDepth :
          a = depth[m] /\ b = depth[k] /\ v = wait[m] /\ w = wait[k]
    OBVIOUS
  <2>3. a * (v + 1) >= b * (w + 1)
    <3>1. m = IF depth[0] * (wait[0] + 1) > depth[1] * (wait[1] + 1) THEN 0 ELSE 1
      BY <2>1 DEF NextLun
    <3>2. CASE m = 0
      <4>1. k = 1
        BY <1>3, <2>1, <3>2
      <4>2. depth[0] * (wait[0] + 1) > depth[1] * (wait[1] + 1)
        BY <3>1, <3>2
      <4>3. a * (v + 1) > b * (w + 1)
        BY <2>2, <3>2, <4>1, <4>2
      <4>4. a * (v + 1) \in Int /\ b * (w + 1) \in Int
        BY <1>2
      <4> QED BY <4>3, <4>4
    <3>3. CASE m = 1
      <4>1. k = 0
        BY <1>3, <2>1, <3>3
      <4>2. ~(depth[0] * (wait[0] + 1) > depth[1] * (wait[1] + 1))
        BY <3>1, <3>3
      <4>3. ~(b * (w + 1) > a * (v + 1))
        BY <2>2, <3>3, <4>1, <4>2
      <4>4. a * (v + 1) \in Int /\ b * (w + 1) \in Int
        BY <1>2
      <4> QED BY <4>3, <4>4
    <3> QED BY <2>1, <3>2, <3>3
  <2>4. CASE v = 0
    <3>1. a >= b * (w + 1)
      BY <1>2, <2>3, <2>4
    <3>2. b >= 1
      BY <1>2, <1>3, <2>2
    <3>3. b * (w + 1) >= w + 1
      BY <1>2, <3>2
    <3> QED BY <1>2, <2>2, <3>1, <3>3
  <2>5. CASE v # 0
    <3>1. w = 0
      BY <1>3, <2>1, <2>2, <2>5
    <3>2. b >= 1 /\ b <= MaxDepth
      BY <1>2, <1>3, <2>2
    <3> QED BY <1>2, <2>2, <3>1, <3>2
  <2> QED BY <2>4, <2>5
<1>4. ASSUME NEW k \in Luns
      PROVE  Waited(depth, wait, m)[k] <= MaxDepth
  BY <1>2, <1>3 DEF Waited
<1> QED BY <1>1, <1>4

(* Queueing a request keeps the invariant. *)
LEMMA PostKeeps ==
  ASSUME QueueIInv, NEW r \in Reqs, PostReq(r)
  PROVE  QueueIInv'
PROOF
<1>1. PICK L : Listing(chan, L)
  BY DEF QueueIInv
<1>2. PICK l \in Luns : l = Lun(r)
  BY ConstantsAre, LunType
<1>3. PICK s \in Seq(Reqs) : s = L[l]
  BY <1>1 DEF Listing, HasLists
<1>4. PICK n \in Nat : n = Len(s)
  BY LenProperties
<1>5. chan.depth[l] = n /\ n < MaxDepth /\ MaxDepth \in Nat
  <2>1. IsList(chan, l, L[l])
    BY <1>1 DEF Listing, HasLists
  <2>2. chan.depth[l] = n
    BY <1>3, <1>4, <2>1 DEF IsList
  <2> QED BY <1>2, <2>2, DepthAssumption DEF PostReq
<1>6. L \in [Luns -> Seq(Reqs)] /\ chan.depth \in [Luns -> Nat]
      /\ chan.state \in [Reqs -> ReqStates]
  BY <1>1, DepthType DEF Listing, HasLists
<1>7. \E t : /\ HasLists(chan', [L EXCEPT ![l] = t])
             /\ Elements(t) = Elements(s) \cup {r}
             /\ chan'.state = [chan.state EXCEPT ![r] = "QUEUED"]
             /\ chan'.wait = chan.wait
             /\ chan'.depth = [chan.depth EXCEPT ![l] = n + 1]
  <2>1. CASE n = 0
    <3>1. PostedFirst(L, r)
      BY <1>1, <1>2, <1>5, <2>1, PostFirst
    <3>2. Elements(s) = {} /\ Elements(<<r>>) = {r}
      <4>1. Elements(s) = {}
        BY <1>4, <2>1 DEF Elements
      <4>2. Len(<<r>>) = 1 /\ <<r>>[1] = r
        OBVIOUS
      <4>3. \A i \in 1..1 : i = 1
        OBVIOUS
      <4>4. Elements(<<r>>) = {r}
        BY <4>2, <4>3 DEF Elements
      <4> QED BY <4>1, <4>4
    <3>3. n + 1 = 1
      BY <2>1
    <3>4. /\ HasLists(chan', [L EXCEPT ![l] = <<r>>])
          /\ chan'.state = [chan.state EXCEPT ![r] = "QUEUED"]
          /\ chan'.wait = chan.wait
          /\ chan'.depth = [chan.depth EXCEPT ![l] = n + 1]
      BY <1>2, <3>1, <3>3, Zenon DEF PostedFirst
    <3>5. Elements(<<r>>) = Elements(s) \cup {r}
      BY <3>2
    <3> QED BY <3>4, <3>5
  <2>2. CASE n # 0
    <3>1. PICK k \in Nat, p \in Nat : PostedBehind(L, r, k, p)
      BY <1>1, <1>2, <1>5, <2>2, PostBehind
    <3>2. k = n /\ p \in 1..n
      BY <1>2, <1>3, <1>4, <3>1 DEF PostedBehind
    <3>3. Elements(Inserted(s, p, r)) = Elements(s) \cup {r}
      <4>1. p <= n
        BY <3>2
      <4> QED BY <1>4, <4>1, InsertedElements
    <3>4. /\ HasLists(chan', [L EXCEPT ![l] = Inserted(s, p, r)])
          /\ chan'.state = [chan.state EXCEPT ![r] = "QUEUED"]
          /\ chan'.wait = chan.wait
          /\ chan'.depth = [chan.depth EXCEPT ![l] = n + 1]
      BY <1>2, <1>3, <3>1, <3>2 DEF PostedBehind
    <3> QED BY <3>3, <3>4
  <2> QED BY <2>1, <2>2
<1>8. PICK t : /\ HasLists(chan', [L EXCEPT ![l] = t])
               /\ Elements(t) = Elements(s) \cup {r}
               /\ chan'.state = [chan.state EXCEPT ![r] = "QUEUED"]
               /\ chan'.wait = chan.wait
               /\ chan'.depth = [chan.depth EXCEPT ![l] = n + 1]
  BY <1>7
<1>9. PICK M : M = [L EXCEPT ![l] = t]
  OBVIOUS
<1>10. M[l] = t /\ \A k \in Luns : k # l => M[k] = L[k]
  BY <1>6, <1>9
<1>11. ASSUME NEW k \in Luns, NEW x \in Reqs
       PROVE  x \in Elements(M[k]) <=> chan'.state[x] # "NONE" /\ Lun(x) = k
  <2>1. x \in Elements(L[k]) <=> chan.state[x] # "NONE" /\ Lun(x) = k
    BY <1>1 DEF Listing
  <2>2. chan'.state[x] = IF x = r THEN "QUEUED" ELSE chan.state[x]
    BY <1>6, <1>8
  <2>3. CASE k = l
    <3>1. x \in Elements(M[k]) <=> x \in Elements(L[k]) \/ x = r
      BY <1>3, <1>8, <1>10, <2>3
    <3> QED BY <1>2, <2>1, <2>2, <2>3, <3>1
  <2>4. CASE k # l
    BY <1>2, <1>10, <2>1, <2>2, <2>4
  <2> QED BY <2>3, <2>4
<1>12. Listing(chan', M)
  BY <1>8, <1>9, <1>11 DEF Listing
<1>13. WaitInv'
  BY <1>5, <1>6, <1>8 DEF QueueIInv, WaitInv
<1> QED BY <1>12, <1>13 DEF QueueIInv

(* A removal does. *)
LEMMA LeaveKeeps ==
  ASSUME QueueIInv, NEW r \in Reqs, chan.state[r] # "NONE", chan' = Leave(chan, r)
  PROVE  QueueIInv'
PROOF
<1>1. PICK L : Listing(chan, L)
  BY DEF QueueIInv
<1>2. PICK l \in Luns : l = Lun(r)
  BY ConstantsAre, LunType
<1>3. PICK s \in Seq(Reqs) : s = L[l]
  BY <1>1 DEF Listing, HasLists
<1>4. PICK n \in Nat : n = Len(s)
  BY LenProperties
<1>5. chan.depth[l] = n /\ MaxDepth \in Nat /\ \A i, j \in 1..n : s[i] = s[j] => i = j
  <2>1. IsList(chan, l, s)
    BY <1>1, <1>3 DEF Listing, HasLists
  <2> QED BY <1>4, <2>1, DepthAssumption DEF IsList
<1>6. L \in [Luns -> Seq(Reqs)] /\ chan.depth \in [Luns -> Nat]
      /\ chan.state \in [Reqs -> ReqStates] /\ chan.wait \in [Luns -> Nat]
  BY <1>1, DepthType DEF Listing, HasLists
<1>7. PICK p, m : p \in Nat /\ Left(L, r, p, m)
  BY <1>1, LeaveLists
<1>8. p \in Nat /\ p \in 1..n /\ s[p] = r
  BY <1>2, <1>3, <1>4, <1>7 DEF Left
<1>9. PICK t : t = Removed(s, p)
  OBVIOUS
<1>10. PICK M : M = [L EXCEPT ![l] = t]
  OBVIOUS
<1>11. HasLists(chan', M)
  BY <1>2, <1>3, <1>7, <1>9, <1>10 DEF Left
<1>12. M[l] = t /\ (\A k \in Luns : k # l => M[k] = L[k]) /\ Elements(t) = Elements(s) \ {r}
  BY <1>4, <1>5, <1>6, <1>8, <1>9, <1>10, RemovedElements
<1>13. ASSUME NEW k \in Luns, NEW x \in Reqs
       PROVE  x \in Elements(M[k]) <=> chan'.state[x] # "NONE" /\ Lun(x) = k
  <2>1. x \in Elements(L[k]) <=> chan.state[x] # "NONE" /\ Lun(x) = k
    BY <1>1 DEF Listing
  <2>2. chan'.state[x] = IF x = r THEN "NONE" ELSE chan.state[x]
    BY <1>6, <1>7 DEF Left
  <2>3. CASE k = l
    <3>1. x \in Elements(M[k]) <=> x \in Elements(L[k]) /\ x # r
      BY <1>3, <1>12, <2>3
    <3> QED BY <2>1, <2>2, <3>1
  <2>4. CASE k # l
    BY <1>2, <1>12, <2>1, <2>2, <2>4
  <2> QED BY <2>3, <2>4
<1>14. Listing(chan', M)
  BY <1>11, <1>13 DEF Listing
<1>15. WaitInv'
  <2>1. chan'.depth \in [Luns -> 0..MaxDepth] /\ chan.wait \in [Luns -> 0..MaxDepth]
    <3>1. chan.depth \in [Luns -> 0..MaxDepth] /\ chan.wait \in [Luns -> 0..MaxDepth]
      BY <1>5, <1>6 DEF QueueIInv, WaitInv
    <3>2. chan.depth[l] - 1 \in 0..MaxDepth
      BY <1>5, <1>8, <3>1
    <3>3. chan'.depth = [chan.depth EXCEPT ![l] = @ - 1]
      BY <1>2, <1>7 DEF Left
    <3> QED BY <3>1, <3>2, <3>3
  <2>2. \E k \in Luns : chan.wait[k] = 0
    BY DEF QueueIInv, WaitInv
  <2>3. m \in Luns /\ m = NextLun(chan'.depth, chan.wait, l)
        /\ chan'.wait = Waited(chan'.depth, chan.wait, m)
    BY <1>2, <1>7 DEF Left
  <2>4. /\ \A k \in Luns : Waited(chan'.depth, chan.wait, m)[k] <= MaxDepth
        /\ Waited(chan'.depth, chan.wait, m)[m] = 0
    <3>1. PICK de, wa : de = chan'.depth /\ wa = chan.wait
      OBVIOUS
    <3> QED BY <2>1, <2>2, <2>3, <3>1, WaitedBounded, ConstantsAre
  <2> QED BY <1>5, <2>1, <2>3, <2>4 DEF WaitInv
<1> QED BY <1>14, <1>15 DEF QueueIInv

(* The current request is in its list, so it is pending. *)
LEMMA CurPending ==
  ASSUME QueueIInv, chan.cur # NULL
  PROVE  chan.cur \in Reqs /\ chan.state[chan.cur] # "NONE"
PROOF
<1>1. PICK L : Listing(chan, L)
  BY DEF QueueIInv
<1>2. PICK r \in Reqs : r = chan.cur
  BY <1>1 DEF Listing, HasLists, QueueRecords
<1>3. PICK l \in Luns : l = Lun(r)
  BY ConstantsAre, LunType
<1>4. r = chan.first[l] /\ IsList(chan, l, L[l]) /\ L[l] \in Seq(Reqs)
  BY <1>1, <1>2, <1>3 DEF Listing, HasLists
<1>5. r \in Elements(L[l])
  <2>1. r # NULL
    BY <1>2
  <2>2. Len(L[l]) # 0 /\ r = L[l][1]
    BY <1>4, <2>1 DEF IsList
  <2>3. 1 \in 1..Len(L[l])
    BY <1>4, <2>2
  <2> QED BY <2>2, <2>3 DEF Elements
<1> QED BY <1>1, <1>2, <1>3, <1>5 DEF Listing

(* Every step does. *)
LEMMA NextQueueIInv == QueueIInv /\ [NextQueue]_chan => QueueIInv'
PROOF
<1> SUFFICES ASSUME QueueIInv, [NextQueue]_chan PROVE QueueIInv'
  OBVIOUS
<1>1. CASE CompleteCur
  BY <1>1, CurPending, LeaveKeeps DEF CompleteCur
<1>2. ASSUME NEW r \in Reqs, PostReq(r) PROVE QueueIInv'
  BY <1>2, PostKeeps
<1>3. ASSUME NEW r \in Reqs, AbortReq(r) PROVE QueueIInv'
  BY <1>3, LeaveKeeps DEF AbortReq
<1>4. CASE UNCHANGED chan
  BY <1>4 DEF QueueIInv, WaitInv
<1> QED BY <1>1, <1>2, <1>3, <1>4 DEF NextQueue

(* The invariant holds always: the links make lists, and a request has     *)
(* been passed no more often than its ttl was lowered.                     *)
THEOREM QueueInvariant == SpecQueue => []QueueIInv
PROOF
  BY InitQueueIInv, NextQueueIInv, PTL DEF SpecQueue

(* The two directions of each list agree, and it holds the pending         *)
(* requests of its device, each once: what UniataQueueRequest and          *)
(* UniataRemoveRequest do to the links keeps them together.                *)
THEOREM LinksAgree == SpecQueue => []ListsAgree
PROOF
<1>1. QueueIInv => ListsAgree
  <2> SUFFICES ASSUME QueueIInv, NEW l \in Luns
               PROVE  /\ List(chan, l) = Reverse(Chain(chan.prev, chan.last[l]))
                      /\ chan.depth[l] = Len(List(chan, l))
                      /\ IsInjective(List(chan, l))
                      /\ ToSet(List(chan, l)) = Pending \cap OfLun(l)
    BY DEF ListsAgree
  <2>1. PICK L : Listing(chan, L)
    BY DEF QueueIInv
  <2>2. PICK s \in Seq(Reqs) : s = L[l]
    BY <2>1 DEF Listing, HasLists
  <2>3. PICK n \in Nat : n = Len(s) /\ DOMAIN s = 1..n
    BY LenProperties
  <2>4. List(chan, l) = s /\ Chain(chan.prev, chan.last[l]) = Backwards(s)
    BY <2>1, <2>2, ConstantsAre, ListIs DEF Listing
  <2>5. IsList(chan, l, s)
    BY <2>1, <2>2 DEF Listing, HasLists
  <2>6. s = Reverse(Backwards(s))
    <3>1. PICK b \in Seq(Reqs) : b = Backwards(s) /\ Len(b) = n
                                /\ \A i \in 1..n : b[i] = s[n - i + 1]
      <4>1. Backwards(s) = [i \in 1..n |-> s[n - i + 1]]
        BY <2>3 DEF Backwards
      <4>2. \A i \in 1..n : s[n - i + 1] \in Reqs
        BY <2>3
      <4>3. Backwards(s) \in Seq(Reqs) /\ Len(Backwards(s)) = n
        BY <4>1, <4>2
      <4> QED BY <4>1, <4>3
    <3>2. Reverse(b) = [i \in 1..n |-> b[n - i + 1]]
      BY <3>1 DEF Reverse
    <3>3. \A i \in 1..n : b[n - i + 1] = s[i]
      <4>1. ASSUME NEW i \in 1..n PROVE b[n - i + 1] = s[i]
        <5>1. n - i + 1 \in 1..n /\ n - (n - i + 1) + 1 = i
          OBVIOUS
        <5> QED BY <3>1, <5>1
      <4> QED BY <4>1
    <3>4. s = [i \in 1..n |-> s[i]]
      BY <2>3
    <3> QED BY <3>1, <3>2, <3>3, <3>4
  <2>7. chan.depth[l] = Len(s) /\ IsInjective(s)
    BY <2>3, <2>5 DEF IsList, IsInjective
  <2>8. ToSet(s) = Pending \cap OfLun(l)
    <3>1. ToSet(s) = Elements(s)
      BY <2>3 DEF ToSet, Elements
    <3>2. \A x \in Elements(s) : x \in Reqs
      BY <2>3 DEF Elements
    <3>3. \A x \in Reqs : x \in Elements(s) <=> chan.state[x] # "NONE" /\ Lun(x) = l
      BY <2>1, <2>2 DEF Listing
    <3> QED BY <3>1, <3>2, <3>3 DEF Pending, OfLun
  <2> QED BY <2>4, <2>6, <2>7, <2>8
<1> QED BY <1>1, QueueInvariant, PTL

(* Neither device starves the other one: the turns a device is passed over *)
(* stay below the requests the port driver may send to a device.           *)
THEOREM NobodyStarves == SpecQueue => []WaitBounded
PROOF
<1>1. QueueIInv => WaitBounded
  BY DEF QueueIInv, WaitInv, WaitBounded
<1> QED BY <1>1, QueueInvariant, PTL
-----------------------------------------------------------------------------
(* The refinement: what ReqPlaces sees of the queue. *)
Queues == [l \in Luns |-> List(chan, l)]
Ttls == [r \in Reqs |-> IF r \in Pending THEN chan.ttl[r] ELSE 0]

(* The sequences of the abstract queue are the lists. *)
LEMMA QueuesAre ==
  ASSUME NEW L, Listing(chan, L)
  PROVE  Queues = L
PROOF
<1>1. \A l \in Luns : List(chan, l) = L[l]
  BY ConstantsAre, ListIs DEF Listing
<1>2. L = [l \in Luns |-> L[l]]
  BY DEF Listing, HasLists
<1> QED BY <1>1, <1>2 DEF Queues

(* The step that puts a request into an empty queue, written out. *)
LEMMA PlaceFirstIs ==
  ASSUME NEW r \in Reqs, Queues[Lun(r)] = << >>,
         Queues' = [Queues EXCEPT ![Lun(r)] = <<r>>],
         Ttls' = [Ttls EXCEPT ![r] = 0]
  PROVE  Placing!PlaceFirst(r)
PROOF
<1>1. Placing!Lun(r) = Lun(r)
  BY DEF Placing!Lun, Lun
<1>2. Placing!PlaceFirst(r) <=> /\ Queues[Placing!Lun(r)] = << >>
                                /\ Queues' = [Queues EXCEPT ![Placing!Lun(r)] = <<r>>]
                                /\ Ttls' = [Ttls EXCEPT ![r] = 0]
  BY DEF Placing!PlaceFirst, Queues, Ttls
<1> QED BY <1>1, <1>2

(* The overtakings left when r has gone behind the p-th request of q.      *)
TtlsBehind(q, p, r, t) ==
  [s \in Reqs |-> IF s = r THEN Placing!FirstTtl(Len(q))
                  ELSE IF s \in {q[i] : i \in p+1..Len(q)} THEN Placing!Older(t[s]) ELSE t[s]]

(* The step that puts a request behind another, written out. *)
LEMMA PlaceBehindIs ==
  ASSUME NEW r \in Reqs, NEW p
  PROVE  Placing!PlaceBehind(r, p) <=>
           /\ r \notin Placing!Members(Queues[Lun(r)]) /\ Len(Queues[Lun(r)]) < MaxDepth
           /\ Queues' = [Queues EXCEPT ![Lun(r)] = Placing!PutBehind(Queues[Lun(r)], p, r)]
           /\ Ttls' = TtlsBehind(Queues[Lun(r)], p, r, Ttls)
PROOF
<1>1. Placing!Lun(r) = Lun(r)
  BY DEF Placing!Lun, Lun
<1>2. Placing!PlaceBehind(r, p) <=>
        /\ r \notin Placing!Members(Queues[Placing!Lun(r)])
        /\ Len(Queues[Placing!Lun(r)]) < MaxDepth
        /\ Queues' = [Queues EXCEPT ![Placing!Lun(r)] =
                        Placing!PutBehind(Queues[Placing!Lun(r)], p, r)]
        /\ Ttls' = TtlsBehind(Queues[Placing!Lun(r)], p, r, Ttls)
  BY Zenon DEF Placing!PlaceBehind, Queues, Ttls, TtlsBehind
<1> QED BY <1>1, <1>2

(* The step that takes a request out, written out. *)
LEMMA TakeAwayIs ==
  ASSUME NEW r \in Reqs, NEW p \in 1..Len(Queues[Lun(r)]), Queues[Lun(r)][p] = r,
         Queues' = [Queues EXCEPT ![Lun(r)] = Placing!TakeOut(@, p)],
         Ttls' = [Ttls EXCEPT ![r] = 0]
  PROVE  Placing!TakeAway(r)
PROOF
<1>1. Placing!Lun(r) = Lun(r)
  BY DEF Placing!Lun, Lun
<1>2. Placing!TakeAway(r) <=>
        /\ \E k \in 1..Len(Queues[Placing!Lun(r)]) :
             /\ Queues[Placing!Lun(r)][k] = r
             /\ Queues' = [Queues EXCEPT ![Placing!Lun(r)] = Placing!TakeOut(@, k)]
        /\ Ttls' = [Ttls EXCEPT ![r] = 0]
  BY Zenon DEF Placing!TakeAway, Queues, Ttls
<1> QED BY <1>1, <1>2, Zenon

(* The same after a step. *)
LEMMA QueuesThen ==
  ASSUME NEW L, HasLists(chan', L)
  PROVE  Queues' = L
PROOF
<1>1. \A l \in Luns : List(chan', l) = L[l]
  BY ConstantsAre, ListIs
<1>2. L = [l \in Luns |-> L[l]]
  BY DEF HasLists
<1> QED BY <1>1, <1>2 DEF Queues

(* A request whose cost allows it may be passed: it has overtakings left,  *)
(* both can be reordered and they do not conflict.                         *)
LEMMA CheapMayBePassed ==
  ASSUME NEW c, NEW r \in Reqs, NEW x \in Reqs, c.ttl[x] \in Nat,
         GetCost(c, r, x) <= CostReselect
  PROVE  c.ttl[x] > 0 /\ BothReorderable(r, x) /\ ~Conflict(r, x)
PROOF
<1>1. CostMax \in Nat /\ CostMax > 4
  BY QueueAssumption
<1>2. /\ ~(CostTtl <= CostReselect) /\ ~(CostDenied <= CostReselect)
      /\ ~(CostIntersect <= CostReselect)
  BY <1>1 DEF CostTtl, CostDenied, CostIntersect, CostReselect
<1>3. c.ttl[x] # 0
  <2>1. c.ttl[x] = 0 => GetCost(c, r, x) = CostTtl
    BY DEF GetCost
  <2> QED BY <1>2, <2>1
<1>4. BothReorderable(r, x)
  <2>1. ~BothReorderable(r, x) => GetCost(c, r, x) = CostDenied
    BY <1>3 DEF GetCost
  <2> QED BY <1>2, <2>1
<1>5. ~Conflict(r, x)
  <2>1. Conflict(r, x) => GetCost(c, r, x) = CostIntersect
    BY <1>3, <1>4 DEF GetCost
  <2> QED BY <1>2, <2>1
<1> QED BY <1>3, <1>4, <1>5

(* The places chosen by cost are places of ReqPlaces.                      *)
LEMMA PlaceIsOne ==
  ASSUME NEW L, Listing(chan, L), NEW r \in Reqs, chan.state[r] = "NONE",
         NEW s \in Seq(Reqs), s = L[Lun(r)], NEW n \in Nat, n = Len(s),
         NEW p \in Nat, p \in 1..n, MayBeBehind(Entered(chan, r), r, s, p)
  PROVE  p \in Placing!Places(r, s)
PROOF
<1>1. /\ chan.ttl \in [Reqs -> 0..TtlMod - 1] /\ chan.state \in [Reqs -> ReqStates]
      /\ chan \in QueueRecords
  BY DEF Listing, HasLists, QueueRecords
<1>2. ASSUME NEW i \in 1..n, GetCost(Entered(chan, r), r, s[i]) <= CostReselect
      PROVE  Placing!MayPass(r, s[i])
  <2>1. PICK x \in Reqs : x = s[i]
    OBVIOUS
  <2>2. x \in Elements(s)
    BY <2>1 DEF Elements
  <2>3. chan.state[x] # "NONE" /\ x # r
    BY <2>2, LunType, ConstantsAre DEF Listing
  <2>4. Entered(chan, r).ttl[x] = chan.ttl[x] /\ chan.ttl[x] \in Nat
    <3>1. Entered(chan, r).ttl = [chan.ttl EXCEPT ![r] = FirstTtl(chan.depth[Lun(r)])]
      BY <1>1 DEF Entered, QueueRecords
    <3> QED BY <1>1, <2>3, <3>1
  <2>5. chan.ttl[x] > 0 /\ BothReorderable(r, x) /\ ~Conflict(r, x)
    <3>1. PICK e : e = Entered(chan, r)
      OBVIOUS
    <3>2. GetCost(e, r, x) <= CostReselect /\ e.ttl[x] \in Nat
      BY <1>2, <2>1, <2>4, <3>1
    <3> QED BY <2>4, <3>1, <3>2, CheapMayBePassed
  <2>6. Ttls[x] > 0
    BY <2>3, <2>5 DEF Ttls, Pending
  <2>7. Placing!MayPass(r, x) <=> Ttls[x] > 0 /\ BothReorderable(r, x) /\ ~Conflict(r, x)
    BY DEF Placing!MayPass, Ttls, Placing!BothReorderable, BothReorderable,
           Placing!Conflict, Conflict, Placing!Overlap, Overlap, Placing!Meet, Meet
  <2> QED BY <2>1, <2>5, <2>6, <2>7
<1>3. \/ p = n
      \/ Placing!Roams(r) /\ \A i \in p + 1..n : Placing!MayPass(r, s[i])
      \/ Placing!Jumps(r) /\ p = 1
  <2>1. CASE p = n
    BY <2>1
  <2>2. CASE /\ Reorder /\ Cmd[r].tag # "ordered"
             /\ \A i \in p + 1..n : GetCost(Entered(chan, r), r, s[i]) <= CostReselect
    <3>1. ASSUME NEW i \in p + 1..n PROVE Placing!MayPass(r, s[i])
      <4>1. i \in 1..n
        OBVIOUS
      <4> QED BY <1>2, <2>2, <4>1
    <3> QED BY <2>2, <3>1 DEF Placing!Roams
  <2>3. CASE Reorder /\ Cmd[r].tag = "head" /\ p = 1
    BY <2>3 DEF Placing!Jumps
  <2> QED BY <2>1, <2>2, <2>3 DEF MayBeBehind
<1> QED BY <1>3 DEF Placing!Places

(* A request for an idle device is placed first. *)
LEMMA PostFirstPlaces ==
  ASSUME QueueIInv, QueueIInv', NEW L, Listing(chan, L), NEW r \in Reqs, PostReq(r), chan.depth[Lun(r)] = 0
  PROVE  Placing!PlaceFirst(r)
PROOF
<1>1. PICK l \in Luns : l = Lun(r)
  BY ConstantsAre, LunType
<1>2. PostedFirst(L, r)
  BY PostFirst
<1>3. PICK M : M = [L EXCEPT ![l] = <<r>>]
  OBVIOUS
<1>4. /\ L[l] = << >> /\ HasLists(chan', M)
      /\ chan'.ttl = [chan.ttl EXCEPT ![r] = 0]
      /\ chan'.state = [chan.state EXCEPT ![r] = "QUEUED"]
  BY <1>1, <1>2, <1>3 DEF PostedFirst
<1>5. Queues = L /\ Queues' = M
  BY <1>4, QueuesAre, QueuesThen
<1>6. chan.ttl \in [Reqs -> 0..TtlMod - 1] /\ chan.state \in [Reqs -> ReqStates]
  BY DEF Listing, HasLists, QueueRecords
<1>7. Ttls' = [Ttls EXCEPT ![r] = 0]
  <2>1. \A x \in Reqs : Ttls'[x] = IF x = r THEN 0 ELSE Ttls[x]
    BY <1>4, <1>6 DEF Ttls, Pending
  <2>2. Ttls' \in [Reqs -> Nat] /\ Ttls \in [Reqs -> Nat]
    BY <1>4, <1>6 DEF Ttls, Pending
  <2> QED BY <2>1, <2>2
<1> QED BY <1>1, <1>3, <1>4, <1>5, <1>7, PlaceFirstIs

(* The turn of a byte that is counted down. *)
LEMMA OlderIs ==
  ASSUME NEW t \in 0..TtlMod - 1
  PROVE  (t + TtlMod - 1) % TtlMod = Placing!Older(t)
PROOF
<1>1. PICK m \in Nat \ {0} : m = TtlMod
  BY QueueAssumption
<1>2. t \in 0..m - 1
  BY <1>1
<1>3. (t + m - 1) % m = IF t = 0 THEN m - 1 ELSE t - 1
  BY <1>2
<1> QED BY <1>1, <1>3 DEF Placing!Older

(* A request for a busy device is placed behind the head or further back.  *)
LEMMA PostBehindPlaces ==
  ASSUME QueueIInv, NEW L, Listing(chan, L), NEW r \in Reqs, PostReq(r), chan.depth[Lun(r)] # 0
  PROVE  \E p \in Placing!Places(r, Queues[Lun(r)]) : Placing!PlaceBehind(r, p)
PROOF
<1>1. PICK l \in Luns : l = Lun(r)
  BY ConstantsAre, LunType
<1>2. PICK s \in Seq(Reqs) : s = L[l]
  BY DEF Listing, HasLists
<1>3. PICK n \in Nat : n = Len(s)
  BY LenProperties
<1>4. PICK k \in Nat, p \in Nat : PostedBehind(L, r, k, p)
  BY PostBehind
<1>5. /\ k = n /\ p \in 1..n /\ MayBeBehind(Entered(chan, r), r, s, p)
      /\ chan'.ttl = AgedTtl(chan, s, n, p, r)
      /\ chan'.state = [chan.state EXCEPT ![r] = "QUEUED"]
  BY <1>1, <1>2, <1>3, <1>4 DEF PostedBehind
<1>6. PICK t : t = Inserted(s, p, r)
  OBVIOUS
<1>7. PICK M : M = [L EXCEPT ![l] = t]
  OBVIOUS
<1>8. HasLists(chan', M)
  BY <1>1, <1>2, <1>4, <1>6, <1>7 DEF PostedBehind
<1>9. Queues = L /\ Queues' = M
  BY <1>8, QueuesAre, QueuesThen
<1>10. p \in Placing!Places(r, s)
  BY <1>1, <1>2, <1>3, <1>5, PlaceIsOne DEF PostReq
<1>11. t = Placing!PutBehind(s, p, r)
  BY <1>6 DEF Inserted, Placing!PutBehind
<1>12. chan.ttl \in [Reqs -> 0..TtlMod - 1] /\ chan.state \in [Reqs -> ReqStates]
       /\ chan.depth[l] = n /\ n < MaxDepth
  <2>1. chan.ttl \in [Reqs -> 0..TtlMod - 1] /\ chan.state \in [Reqs -> ReqStates]
        /\ IsList(chan, l, s)
    BY <1>1, <1>2 DEF Listing, HasLists, QueueRecords
  <2>2. chan.depth[l] = n
    BY <1>3, <2>1 DEF IsList
  <2>3. n < MaxDepth
    BY <1>1, <2>2 DEF PostReq
  <2> QED BY <2>1, <2>2, <2>3
<1>13. r \notin Placing!Members(s)
  <2>1. r \notin Elements(s)
    BY <1>1, <1>2 DEF Listing, PostReq
  <2> QED BY <2>1 DEF Elements, Placing!Members
<1>14. \A x \in Behind(s, p, n) : x \in Reqs /\ chan.state[x] # "NONE" /\ x # r
  <2>1. ASSUME NEW x \in Behind(s, p, n)
        PROVE  x \in Reqs /\ chan.state[x] # "NONE" /\ x # r
    <3>1. PICK i \in p + 1..n : x = s[i]
      BY DEF Behind
    <3>2. i \in 1..n
      BY <1>5
    <3>3. x \in Reqs /\ x \in Elements(s)
      BY <1>3, <3>1, <3>2 DEF Elements
    <3>4. chan.state[x] # "NONE"
      BY <1>1, <1>2, <3>3 DEF Listing
    <3> QED BY <3>3, <3>4 DEF PostReq
  <2> QED BY <2>1
<1>15. ASSUME NEW x \in Reqs
       PROVE  Ttls'[x] = IF x = r THEN FirstTtl(n)
                         ELSE IF x \in Behind(s, p, n) THEN Placing!Older(Ttls[x]) ELSE Ttls[x]
  <2>1. x \in Pending' <=> x \in Pending \/ x = r
    BY <1>5, <1>12 DEF Pending
  <2>2. chan'.ttl[x] = IF x = r THEN FirstTtl(n)
                       ELSE IF x \in Behind(s, p, n) THEN (chan.ttl[x] + TtlMod - 1) % TtlMod
                       ELSE chan.ttl[x]
    BY <1>5 DEF AgedTtl, Aged
  <2>3. (chan.ttl[x] + TtlMod - 1) % TtlMod = Placing!Older(chan.ttl[x])
    <3>1. PICK v \in 0..TtlMod - 1 : v = chan.ttl[x]
      BY <1>12
    <3>2. (v + TtlMod - 1) % TtlMod = Placing!Older(v)
      BY OlderIs
    <3> QED BY <3>1, <3>2
  <2>4. Ttls[x] = (IF x \in Pending THEN chan.ttl[x] ELSE 0)
        /\ Ttls'[x] = IF x \in Pending' THEN chan'.ttl[x] ELSE 0
    BY DEF Ttls
  <2>5. x \in Behind(s, p, n) => x \in Pending /\ x # r
    BY <1>14 DEF Pending
  <2> QED BY <2>1, <2>2, <2>3, <2>4, <2>5
<1>16. Ttls' = [x \in Reqs |-> IF x = r THEN Placing!FirstTtl(Len(s))
                               ELSE IF x \in {s[i] : i \in p+1..Len(s)} THEN Placing!Older(Ttls[x])
                               ELSE Ttls[x]]
  <2>1. Behind(s, p, n) = {s[i] : i \in p+1..Len(s)}
    BY <1>3 DEF Behind
  <2>2. FirstTtl(n) = Placing!FirstTtl(Len(s))
    BY <1>3 DEF FirstTtl, Placing!FirstTtl
  <2>3. Ttls' = [x \in Reqs |-> Ttls'[x]]
    BY DEF Ttls
  <2>4. Ttls' = [x \in Reqs |-> IF x = r THEN Placing!FirstTtl(Len(s))
                               ELSE IF x \in Behind(s, p, n) THEN Placing!Older(Ttls[x])
                               ELSE Ttls[x]]
    BY <1>15, <2>2, <2>3
  <2> QED BY <2>1, <2>4, Zenon
<1>17. Queues[Lun(r)] = s /\ Queues' = [Queues EXCEPT ![Lun(r)] = Placing!PutBehind(s, p, r)]
  BY <1>1, <1>2, <1>7, <1>9, <1>11
<1>18. Placing!PlaceBehind(r, p)
  <2>1. Ttls' = TtlsBehind(s, p, r, Ttls)
    BY <1>16, Zenon DEF TtlsBehind
  <2>2. Queues[Lun(r)] = s /\ Len(s) < MaxDepth
    BY <1>3, <1>12, <1>17
  <2> QED BY <1>13, <1>17, <2>1, <2>2, PlaceBehindIs
<1> QED BY <1>10, <1>17, <1>18

(* A completed or aborted request is taken away. *)
LEMMA LeavePlaces ==
  ASSUME QueueIInv, NEW L, Listing(chan, L), NEW r \in Reqs, chan.state[r] # "NONE",
         chan' = Leave(chan, r)
  PROVE  Placing!TakeAway(r)
PROOF
<1>1. PICK l \in Luns : l = Lun(r)
  BY ConstantsAre, LunType
<1>2. PICK s \in Seq(Reqs) : s = L[l]
  BY DEF Listing, HasLists
<1>3. PICK n \in Nat : n = Len(s)
  BY LenProperties
<1>4. PICK p, m : p \in Nat /\ Left(L, r, p, m)
  BY LeaveLists
<1>5. PICK t : t = Removed(s, p)
  OBVIOUS
<1>6. PICK M : M = [L EXCEPT ![l] = t]
  OBVIOUS
<1>7. /\ p \in 1..n /\ s[p] = r /\ HasLists(chan', M)
      /\ chan'.ttl = [chan.ttl EXCEPT ![r] = 0]
      /\ chan'.state = [chan.state EXCEPT ![r] = "NONE"]
  BY <1>1, <1>2, <1>3, <1>4, <1>5, <1>6 DEF Left
<1>8. Queues = L /\ Queues' = M
  BY <1>7, QueuesAre, QueuesThen
<1>9. t = Placing!TakeOut(s, p)
  BY <1>5 DEF Removed, Placing!TakeOut
<1>10. chan.ttl \in [Reqs -> 0..TtlMod - 1] /\ chan.state \in [Reqs -> ReqStates]
  BY DEF Listing, HasLists, QueueRecords
<1>11. Ttls' = [Ttls EXCEPT ![r] = 0]
  <2>1. \A x \in Reqs : Ttls'[x] = IF x = r THEN 0 ELSE Ttls[x]
    BY <1>7, <1>10 DEF Ttls, Pending
  <2>2. Ttls' = [x \in Reqs |-> Ttls'[x]] /\ Ttls = [x \in Reqs |-> Ttls[x]]
    BY DEF Ttls
  <2> QED BY <2>1, <2>2
<1>12. Queues[Lun(r)] = s
  BY <1>1, <1>2, <1>8
<1>13. Queues' = [Queues EXCEPT ![Lun(r)] = Placing!TakeOut(@, p)]
  BY <1>1, <1>2, <1>6, <1>8, <1>9
<1>14. p \in 1..Len(Queues[Lun(r)]) /\ Queues[Lun(r)][p] = r
  BY <1>3, <1>7, <1>12
<1> QED BY <1>11, <1>13, <1>14, TakeAwayIs

(* The queue starts as ReqPlaces does, and each of its steps is one of     *)
(* ReqPlaces.                                                              *)
LEMMA InitPlaced == InitQueue => Placing!InitPlaces
PROOF
<1> SUFFICES ASSUME InitQueue PROVE Placing!InitPlaces
  OBVIOUS
<1>1. HasLists(chan, [l \in Luns |-> << >>])
  BY ConstantsAre, EmptyLists DEF InitQueue
<1>2. Queues = [l \in Luns |-> << >>]
  <2>1. PICK L : L = [l \in Luns |-> << >>]
    OBVIOUS
  <2>2. \A l \in Luns : List(chan, l) = L[l]
    BY <1>1, <2>1, ConstantsAre, ListIs
  <2> QED BY <2>1, <2>2 DEF Queues
<1>3. Ttls = [r \in Reqs |-> 0]
  <2>1. chan.state = [r \in Reqs |-> "NONE"]
    BY DEF InitQueue, EmptyQueue
  <2> QED BY <2>1 DEF Ttls, Pending
<1> QED BY <1>2, <1>3 DEF Placing!InitPlaces, Queues, Ttls

(* Every step of the driver's queue is a step of the abstract one. *)
LEMMA StepPlaced ==
  ASSUME QueueIInv, [NextQueue]_chan
  PROVE  [Placing!NextPlaces]_<<Queues, Ttls>>
PROOF
<1>1. PICK L : Listing(chan, L)
  BY DEF QueueIInv
<1>2. CASE UNCHANGED chan
  BY <1>2 DEF Queues, Ttls, Pending
<1>3. ASSUME NEW r \in Reqs, PostReq(r)
      PROVE  Placing!PlaceFirst(r)
             \/ \E p \in Placing!Places(r, Queues[Lun(r)]) : Placing!PlaceBehind(r, p)
  <2>1. QueueIInv'
    BY <1>3, PostKeeps
  <2> QED BY <1>1, <1>3, <2>1, PostFirstPlaces, PostBehindPlaces
<1>4. ASSUME NEW r \in Reqs, AbortReq(r)
      PROVE  Placing!TakeAway(r)
  BY <1>1, <1>4, LeavePlaces DEF AbortReq
<1>5. ASSUME CompleteCur
      PROVE  \E r \in Reqs : Placing!TakeAway(r)
  BY <1>1, <1>5, CurPending, LeavePlaces DEF CompleteCur
<1>6. ASSUME NEW r \in Reqs,
             \/ Placing!PlaceFirst(r)
             \/ \E p \in Placing!Places(r, Queues[Lun(r)]) : Placing!PlaceBehind(r, p)
             \/ Placing!TakeAway(r)
      PROVE  Placing!NextPlaces
  BY <1>6 DEF Placing!NextPlaces, Queues, Placing!Lun, Lun
<1> QED BY <1>2, <1>3, <1>4, <1>5, <1>6 DEF NextQueue

(* The lists, costs and ttls of id_queue.cpp put requests only where       *)
(* ReqPlaces allows: nothing that conflicts with a request, or has been    *)
(* overtaken often enough, is overtaken, and the head never is.            *)
THEOREM QueuePlaces == SpecQueue => ImplementsPlaces
PROOF
<1>1. Placing!SpecPlaces <=> Placing!InitPlaces /\ [][Placing!NextPlaces]_<<Queues, Ttls>>
  BY DEF Placing!SpecPlaces, Queues, Ttls
<1> QED BY <1>1, InitPlaced, StepPlaced, QueueInvariant, PTL DEF SpecQueue, ImplementsPlaces
=============================================================================
