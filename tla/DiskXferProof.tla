--------------------------- MODULE DiskXferProof ---------------------------
(***************************************************************************)
(* Proofs about DiskXfer, for any controllers and drives, any buffers and  *)
(* any requests.                                                           *)
(***************************************************************************)
EXTENDS DiskXfer, SequenceTheorems, WellFoundedInduction, TLAPS

(* Every set of natural numbers that is not empty has a least element: the *)
(* form of induction recursive definitions are proved by.                  *)
LEMMA LeastNat ==
  ASSUME NEW S \in SUBSET Nat, S # {}
  PROVE  \E m \in S : \A k \in S : m <= k
PROOF
<1>1. \E m \in S : \A k \in S : ~(<<k, m>> \in OpToRel(<, Nat))
  BY NatLessThanWellFounded, WFMin
<1>2. ASSUME NEW m \in S, NEW k \in S, ~(<<k, m>> \in OpToRel(<, Nat))
      PROVE  m <= k
  BY <1>2 DEF OpToRel
<1> QED BY <1>1, <1>2

-----------------------------------------------------------------------------
(* The ladders of XferModes: the numbers of the modes are used as such. *)
USE DEF PIO, PIO0, DMA, WDMA0, WDMA2, UDMA0, UDMA6, SA150, Snoop, Beyond, Foreign

Timings == Foreign .. SA150

(* What a rung of a ladder for controller x is: a mode and a timing for it *)
(* that suits a drive in that mode; DMA modes are there only when there is *)
(* a DMA mode to choose.                                                   *)
SuitedRungs(x, any) ==
  {r \in [mode : PIO .. UDMA6, chip : Timings] :
     r.mode >= DMA => /\ any
                      /\ Fits(r.chip, r.mode) \/ Misprogrammed(x, r.mode)}

SuitedLadders(x, any) ==
  [rungs : Seq(SuitedRungs(x, any)), pio : PIO .. PIO0 + 5, chip : Timings,
   end : {"generic", "stop", "always", "accepted"}]

(* The families whose tables have no entry for UDMA6 do not get it. *)
Reachable(x, u) == x.family \in {"aliold", "viabar", "serverworks"} => u <= 5

(* Rungs is a sequence of what its rungs are. *)
LEMMA RungsAre ==
  ASSUME NEW S, NEW base \in Nat, NEW n \in -8 .. 6, NEW c,
         \A i \in 0 .. n : Rung(base + i, c[i]) \in S
  PROVE  [k \in 1 .. n + 1 |-> Rung(base + n + 1 - k, c[n + 1 - k])] \in Seq(S)
PROOF
<1> DEFINE m == IF n + 1 >= 0 THEN n + 1 ELSE 0
           s == [k \in 1 .. m |-> Rung(base + n + 1 - k, c[n + 1 - k])]
<1>1. m \in Nat /\ 1 .. n + 1 = 1 .. m
  OBVIOUS
<1>2. ASSUME NEW k \in 1 .. m
      PROVE  Rung(base + n + 1 - k, c[n + 1 - k]) \in S
  <2>1. n + 1 - k \in 0 .. n /\ base + n + 1 - k = base + (n + 1 - k)
    OBVIOUS
  <2> QED BY <2>1
<1> HIDE DEF m
<1>3. s \in [1 .. m -> S]
  BY <1>2
<1>4. s \in Seq(S)
  BY <1>1, <1>3
<1> QED BY <1>1, <1>4

(* Each kind of rungs that is on a ladder. *)

(* The timing of the UDMA mode itself. *)
LEMMA OwnURungs ==
  ASSUME NEW x \in Controllers, NEW any \in BOOLEAN, NEW u \in -1 .. 6, u >= 0 => any
  PROVE  Rungs(UDMA0, u, OwnU) \in Seq(SuitedRungs(x, any))
PROOF
<1> DEFINE c == [i \in 0 .. u |-> OwnU(i)]
<1>1. \A i \in 0 .. u : Rung(UDMA0 + i, c[i]) \in SuitedRungs(x, any)
  BY DEF SuitedRungs, Rung, Timings, Fits, ModeClass, OwnU
<1>2. Rungs(UDMA0, u, OwnU) =
        [k \in 1 .. u + 1 |-> Rung(UDMA0 + u + 1 - k, c[u + 1 - k])]
  BY DEF Rungs
<1> HIDE DEF c
<1>3. UDMA0 \in Nat /\ u \in -8 .. 6
  OBVIOUS
<1>4. [k \in 1 .. u + 1 |-> Rung(UDMA0 + u + 1 - k, c[u + 1 - k])]
        \in Seq(SuitedRungs(x, any))
  BY <1>1, <1>3, RungsAre
<1> QED BY <1>2, <1>4

(* The timing of the WDMA mode itself. *)
LEMMA OwnWRungs ==
  ASSUME NEW x \in Controllers, NEW any \in BOOLEAN, NEW w \in -1 .. 2, w >= 0 => any
  PROVE  Rungs(WDMA0, w, OwnW) \in Seq(SuitedRungs(x, any))
PROOF
<1> DEFINE c == [i \in 0 .. w |-> OwnW(i)]
<1>1. \A i \in 0 .. w : Rung(WDMA0 + i, c[i]) \in SuitedRungs(x, any)
  BY DEF SuitedRungs, Rung, Timings, Fits, ModeClass, OwnW
<1>2. Rungs(WDMA0, w, OwnW) =
        [k \in 1 .. w + 1 |-> Rung(WDMA0 + w + 1 - k, c[w + 1 - k])]
  BY DEF Rungs
<1> HIDE DEF c
<1>3. WDMA0 \in Nat /\ w \in -8 .. 6
  OBVIOUS
<1>4. [k \in 1 .. w + 1 |-> Rung(WDMA0 + w + 1 - k, c[w + 1 - k])]
        \in Seq(SuitedRungs(x, any))
  BY <1>1, <1>3, RungsAre
<1> QED BY <1>2, <1>4

(* The timing of the PIO mode itself. *)
LEMMA OwnPRungs ==
  ASSUME NEW x \in Controllers, NEW any \in BOOLEAN, NEW p \in -8 .. 5
  PROVE  Rungs(PIO0, p, OwnP) \in Seq(SuitedRungs(x, any))
PROOF
<1> DEFINE c == [i \in 0 .. p |-> OwnP(i)]
<1>1. \A i \in 0 .. p : Rung(PIO0 + i, c[i]) \in SuitedRungs(x, any)
  BY DEF SuitedRungs, Rung, Timings, Fits, ModeClass, OwnP
<1>2. Rungs(PIO0, p, OwnP) =
        [k \in 1 .. p + 1 |-> Rung(PIO0 + p + 1 - k, c[p + 1 - k])]
  BY DEF Rungs
<1> HIDE DEF c
<1>3. PIO0 \in Nat /\ p \in -8 .. 6
  OBVIOUS
<1>4. [k \in 1 .. p + 1 |-> Rung(PIO0 + p + 1 - k, c[p + 1 - k])]
        \in Seq(SuitedRungs(x, any))
  BY <1>1, <1>3, RungsAre
<1> QED BY <1>2, <1>4

(* No timing for a UDMA mode. *)
LEMMA QuietURungs ==
  ASSUME NEW x \in Controllers, NEW any \in BOOLEAN, NEW u \in -1 .. 6, u >= 0 => any
  PROVE  Rungs(UDMA0, u, Quiet) \in Seq(SuitedRungs(x, any))
PROOF
<1> DEFINE c == [i \in 0 .. u |-> Quiet(i)]
<1>1. \A i \in 0 .. u : Rung(UDMA0 + i, c[i]) \in SuitedRungs(x, any)
  BY DEF SuitedRungs, Rung, Timings, Fits, ModeClass, Quiet
<1>2. Rungs(UDMA0, u, Quiet) =
        [k \in 1 .. u + 1 |-> Rung(UDMA0 + u + 1 - k, c[u + 1 - k])]
  BY DEF Rungs
<1> HIDE DEF c
<1>3. UDMA0 \in Nat /\ u \in -8 .. 6
  OBVIOUS
<1>4. [k \in 1 .. u + 1 |-> Rung(UDMA0 + u + 1 - k, c[u + 1 - k])]
        \in Seq(SuitedRungs(x, any))
  BY <1>1, <1>3, RungsAre
<1> QED BY <1>2, <1>4

(* No timing for a WDMA mode. *)
LEMMA QuietWRungs ==
  ASSUME NEW x \in Controllers, NEW any \in BOOLEAN, NEW w \in -1 .. 2, w >= 0 => any
  PROVE  Rungs(WDMA0, w, Quiet) \in Seq(SuitedRungs(x, any))
PROOF
<1> DEFINE c == [i \in 0 .. w |-> Quiet(i)]
<1>1. \A i \in 0 .. w : Rung(WDMA0 + i, c[i]) \in SuitedRungs(x, any)
  BY DEF SuitedRungs, Rung, Timings, Fits, ModeClass, Quiet
<1>2. Rungs(WDMA0, w, Quiet) =
        [k \in 1 .. w + 1 |-> Rung(WDMA0 + w + 1 - k, c[w + 1 - k])]
  BY DEF Rungs
<1> HIDE DEF c
<1>3. WDMA0 \in Nat /\ w \in -8 .. 6
  OBVIOUS
<1>4. [k \in 1 .. w + 1 |-> Rung(WDMA0 + w + 1 - k, c[w + 1 - k])]
        \in Seq(SuitedRungs(x, any))
  BY <1>1, <1>3, RungsAre
<1> QED BY <1>2, <1>4

(* ALi: a table of six UDMA modes. *)
LEMMA AliRungs ==
  ASSUME NEW x \in Controllers, NEW any \in BOOLEAN, NEW u \in -1 .. 6, u >= 0 => any,
         x.family \in {"aliold", "alinew"}, Reachable(x, u)
  PROVE  Rungs(UDMA0, u, LAMBDA i : Entry(OwnU(i), i, 6)) \in Seq(SuitedRungs(x, any))
PROOF
<1> DEFINE c == [i \in 0 .. u |-> Entry(OwnU(i), i, 6)]
<1>1. \A i \in 0 .. u : Rung(UDMA0 + i, c[i]) \in SuitedRungs(x, any)
  BY DEF SuitedRungs, Rung, Timings, Fits, ModeClass, OwnU, Entry, Misprogrammed, Reachable
<1>2. Rungs(UDMA0, u, LAMBDA i : Entry(OwnU(i), i, 6)) =
        [k \in 1 .. u + 1 |-> Rung(UDMA0 + u + 1 - k, c[u + 1 - k])]
  BY DEF Rungs
<1> HIDE DEF c
<1>3. UDMA0 \in Nat /\ u \in -8 .. 6
  OBVIOUS
<1>4. [k \in 1 .. u + 1 |-> Rung(UDMA0 + u + 1 - k, c[u + 1 - k])]
        \in Seq(SuitedRungs(x, any))
  BY <1>1, <1>3, RungsAre
<1> QED BY <1>2, <1>4

(* VIA, ServerWorks and ATI: the UDMA modes are entries 8 to 13 of a table. *)
LEMMA ViaRungs ==
  ASSUME NEW x \in Controllers, NEW any \in BOOLEAN, NEW u \in -1 .. 6, u >= 0 => any,
         x.family \in {"amd", "viabar", "serverworks", "ati"}, Reachable(x, u)
  PROVE  Rungs(UDMA0, u, LAMBDA i : Entry(OwnU(i), 8 + i, 14)) \in Seq(SuitedRungs(x, any))
PROOF
<1> DEFINE c == [i \in 0 .. u |-> Entry(OwnU(i), 8 + i, 14)]
<1>1. \A i \in 0 .. u : Rung(UDMA0 + i, c[i]) \in SuitedRungs(x, any)
  BY DEF SuitedRungs, Rung, Timings, Fits, ModeClass, OwnU, Entry, Misprogrammed, Reachable
<1>2. Rungs(UDMA0, u, LAMBDA i : Entry(OwnU(i), 8 + i, 14)) =
        [k \in 1 .. u + 1 |-> Rung(UDMA0 + u + 1 - k, c[u + 1 - k])]
  BY DEF Rungs
<1> HIDE DEF c
<1>3. UDMA0 \in Nat /\ u \in -8 .. 6
  OBVIOUS
<1>4. [k \in 1 .. u + 1 |-> Rung(UDMA0 + u + 1 - k, c[u + 1 - k])]
        \in Seq(SuitedRungs(x, any))
  BY <1>1, <1>3, RungsAre
<1> QED BY <1>2, <1>4

(* Cyrix: the timing of the best UDMA mode. *)
LEMMA CyrixURungs ==
  ASSUME NEW x \in Controllers, NEW any \in BOOLEAN, NEW u \in -1 .. 6, u >= 0 => any,
         x.family = "cyrix3x"
  PROVE  Rungs(UDMA0, u, LAMBDA i : CyrixTiming(OwnU(u))) \in Seq(SuitedRungs(x, any))
PROOF
<1> DEFINE c == [i \in 0 .. u |-> CyrixTiming(OwnU(u))]
<1>1. \A i \in 0 .. u : Rung(UDMA0 + i, c[i]) \in SuitedRungs(x, any)
  BY DEF SuitedRungs, Rung, Timings, Fits, ModeClass, OwnU, CyrixTiming, Misprogrammed
<1>2. Rungs(UDMA0, u, LAMBDA i : CyrixTiming(OwnU(u))) =
        [k \in 1 .. u + 1 |-> Rung(UDMA0 + u + 1 - k, c[u + 1 - k])]
  BY DEF Rungs
<1> HIDE DEF c
<1>3. UDMA0 \in Nat /\ u \in -8 .. 6
  OBVIOUS
<1>4. [k \in 1 .. u + 1 |-> Rung(UDMA0 + u + 1 - k, c[u + 1 - k])]
        \in Seq(SuitedRungs(x, any))
  BY <1>1, <1>3, RungsAre
<1> QED BY <1>2, <1>4

(* Cyrix: the timing of the best WDMA mode. *)
LEMMA CyrixWRungs ==
  ASSUME NEW x \in Controllers, NEW any \in BOOLEAN, NEW w \in -1 .. 2, w >= 0 => any,
         x.family = "cyrix3x"
  PROVE  Rungs(WDMA0, w, LAMBDA i : CyrixTiming(OwnW(w))) \in Seq(SuitedRungs(x, any))
PROOF
<1> DEFINE c == [i \in 0 .. w |-> CyrixTiming(OwnW(w))]
<1>1. \A i \in 0 .. w : Rung(WDMA0 + i, c[i]) \in SuitedRungs(x, any)
  BY DEF SuitedRungs, Rung, Timings, Fits, ModeClass, OwnW, CyrixTiming, Misprogrammed
<1>2. Rungs(WDMA0, w, LAMBDA i : CyrixTiming(OwnW(w))) =
        [k \in 1 .. w + 1 |-> Rung(WDMA0 + w + 1 - k, c[w + 1 - k])]
  BY DEF Rungs
<1> HIDE DEF c
<1>3. WDMA0 \in Nat /\ w \in -8 .. 6
  OBVIOUS
<1>4. [k \in 1 .. w + 1 |-> Rung(WDMA0 + w + 1 - k, c[w + 1 - k])]
        \in Seq(SuitedRungs(x, any))
  BY <1>1, <1>3, RungsAre
<1> QED BY <1>2, <1>4

(* HighPoint: UDMA. *)
LEMMA HptURungs ==
  ASSUME NEW x \in Controllers, NEW any \in BOOLEAN, NEW u \in -1 .. 6, u >= 0 => any
  PROVE  Rungs(UDMA0, u, LAMBDA i : HptTiming(x, OwnU(i))) \in Seq(SuitedRungs(x, any))
PROOF
<1> DEFINE c == [i \in 0 .. u |-> HptTiming(x, OwnU(i))]
<1>1. \A i \in 0 .. u : Rung(UDMA0 + i, c[i]) \in SuitedRungs(x, any)
  BY DEF SuitedRungs, Rung, Timings, Fits, ModeClass, OwnU, HptTiming, Misprogrammed
<1>2. Rungs(UDMA0, u, LAMBDA i : HptTiming(x, OwnU(i))) =
        [k \in 1 .. u + 1 |-> Rung(UDMA0 + u + 1 - k, c[u + 1 - k])]
  BY DEF Rungs
<1> HIDE DEF c
<1>3. UDMA0 \in Nat /\ u \in -8 .. 6
  OBVIOUS
<1>4. [k \in 1 .. u + 1 |-> Rung(UDMA0 + u + 1 - k, c[u + 1 - k])]
        \in Seq(SuitedRungs(x, any))
  BY <1>1, <1>3, RungsAre
<1> QED BY <1>2, <1>4

(* HighPoint: WDMA. *)
LEMMA HptWRungs ==
  ASSUME NEW x \in Controllers, NEW any \in BOOLEAN, NEW w \in -1 .. 2, w >= 0 => any
  PROVE  Rungs(WDMA0, w, LAMBDA i : HptTiming(x, OwnW(i))) \in Seq(SuitedRungs(x, any))
PROOF
<1> DEFINE c == [i \in 0 .. w |-> HptTiming(x, OwnW(i))]
<1>1. \A i \in 0 .. w : Rung(WDMA0 + i, c[i]) \in SuitedRungs(x, any)
  BY DEF SuitedRungs, Rung, Timings, Fits, ModeClass, OwnW, HptTiming, Misprogrammed
<1>2. Rungs(WDMA0, w, LAMBDA i : HptTiming(x, OwnW(i))) =
        [k \in 1 .. w + 1 |-> Rung(WDMA0 + w + 1 - k, c[w + 1 - k])]
  BY DEF Rungs
<1> HIDE DEF c
<1>3. WDMA0 \in Nat /\ w \in -8 .. 6
  OBVIOUS
<1>4. [k \in 1 .. w + 1 |-> Rung(WDMA0 + w + 1 - k, c[w + 1 - k])]
        \in Seq(SuitedRungs(x, any))
  BY <1>1, <1>3, RungsAre
<1> QED BY <1>2, <1>4

(* Intel: UDMA. *)
LEMMA IntelRungs ==
  ASSUME NEW x \in Controllers, NEW any \in BOOLEAN, NEW u \in -1 .. 6, u >= 0 => any
  PROVE  Rungs(UDMA0, u, LAMBDA i : IntelTiming(x, i)) \in Seq(SuitedRungs(x, any))
PROOF
<1> DEFINE c == [i \in 0 .. u |-> IntelTiming(x, i)]
<1>1. \A i \in 0 .. u : Rung(UDMA0 + i, c[i]) \in SuitedRungs(x, any)
  BY DEF SuitedRungs, Rung, Timings, Fits, ModeClass, OwnU, IntelTiming, Misprogrammed
<1>2. Rungs(UDMA0, u, LAMBDA i : IntelTiming(x, i)) =
        [k \in 1 .. u + 1 |-> Rung(UDMA0 + u + 1 - k, c[u + 1 - k])]
  BY DEF Rungs
<1> HIDE DEF c
<1>3. UDMA0 \in Nat /\ u \in -8 .. 6
  OBVIOUS
<1>4. [k \in 1 .. u + 1 |-> Rung(UDMA0 + u + 1 - k, c[u + 1 - k])]
        \in Seq(SuitedRungs(x, any))
  BY <1>1, <1>3, RungsAre
<1> QED BY <1>2, <1>4

(* ServerWorks and ATI: the timing of the best WDMA mode. *)
LEMMA BestWRungs ==
  ASSUME NEW x \in Controllers, NEW any \in BOOLEAN, NEW w \in -1 .. 2, w >= 0 => any,
         x.family \in {"serverworks", "ati"}
  PROVE  Rungs(WDMA0, w, LAMBDA i : OwnW(w)) \in Seq(SuitedRungs(x, any))
PROOF
<1> DEFINE c == [i \in 0 .. w |-> OwnW(w)]
<1>1. \A i \in 0 .. w : Rung(WDMA0 + i, c[i]) \in SuitedRungs(x, any)
  BY DEF SuitedRungs, Rung, Timings, Fits, ModeClass, OwnW, Misprogrammed
<1>2. Rungs(WDMA0, w, LAMBDA i : OwnW(w)) =
        [k \in 1 .. w + 1 |-> Rung(WDMA0 + w + 1 - k, c[w + 1 - k])]
  BY DEF Rungs
<1> HIDE DEF c
<1>3. WDMA0 \in Nat /\ w \in -8 .. 6
  OBVIOUS
<1>4. [k \in 1 .. w + 1 |-> Rung(WDMA0 + w + 1 - k, c[w + 1 - k])]
        \in Seq(SuitedRungs(x, any))
  BY <1>1, <1>3, RungsAre
<1> QED BY <1>2, <1>4

(* ITE: UDMA. *)
LEMMA IteRungs ==
  ASSUME NEW x \in Controllers, NEW any \in BOOLEAN, NEW u \in -1 .. 6, u >= 0 => any,
         x.family \in {"ite33", "ite133", "ite133new"}
  PROVE  Rungs(UDMA0, u, LAMBDA i : IteTiming(x, i)) \in Seq(SuitedRungs(x, any))
PROOF
<1> DEFINE c == [i \in 0 .. u |-> IteTiming(x, i)]
<1>1. \A i \in 0 .. u : Rung(UDMA0 + i, c[i]) \in SuitedRungs(x, any)
  BY DEF SuitedRungs, Rung, Timings, Fits, ModeClass, OwnU, IteTiming, Lower
<1>2. Rungs(UDMA0, u, LAMBDA i : IteTiming(x, i)) =
        [k \in 1 .. u + 1 |-> Rung(UDMA0 + u + 1 - k, c[u + 1 - k])]
  BY DEF Rungs
<1> HIDE DEF c
<1>3. UDMA0 \in Nat /\ u \in -8 .. 6
  OBVIOUS
<1>4. [k \in 1 .. u + 1 |-> Rung(UDMA0 + u + 1 - k, c[u + 1 - k])]
        \in Seq(SuitedRungs(x, any))
  BY <1>1, <1>3, RungsAre
<1> QED BY <1>2, <1>4

(* Sequences of rungs one after the other. *)
LEMMA JoinedRungs ==
  ASSUME NEW S, NEW s \in Seq(S), NEW t \in Seq(S)
  PROVE  s \o t \in Seq(S)
PROOF
  OBVIOUS

(* WDMA2 alone. *)
LEMMA Wdma2RungIs ==
  ASSUME NEW x \in Controllers, NEW any \in BOOLEAN, NEW p \in -8 .. 5,
         NEW w \in -1 .. 2, w >= 0 => any, NEW c \in {WDMA2, Snoop}
  PROVE  Wdma2Rung(p, w, c) \in Seq(SuitedRungs(x, any))
PROOF
<1>1. w >= 2 => Rung(WDMA2, c) \in SuitedRungs(x, any)
  BY DEF SuitedRungs, Rung, Timings, Fits, ModeClass
<1> QED BY <1>1 DEF Wdma2Rung

(* A DMA mode that is not known. *)
LEMMA AnyDmaIs ==
  ASSUME NEW x \in Controllers, NEW any \in BOOLEAN, NEW p \in -8 .. 5,
         NEW w \in -1 .. 2, w >= 0 => any, NEW c \in Timings,
         c = Snoop \/ x.family \in {"hpt", "hpt370"}
  PROVE  AnyDma(p, w, c) \in Seq(SuitedRungs(x, any))
PROOF
<1>1. w >= 0 => Rung(DMA, c) \in SuitedRungs(x, any)
  BY DEF SuitedRungs, Rung, Timings, Fits, ModeClass, Misprogrammed
<1> QED BY <1>1 DEF AnyDma

(* A ladder is what its parts are. *)
LEMMA LadderIs ==
  ASSUME NEW x, NEW any, NEW rungs \in Seq(SuitedRungs(x, any)), NEW p \in -8 .. 5,
         NEW end \in {"generic", "stop", "always", "accepted"}, NEW c \in Timings
  PROVE  Ladder(rungs, p, end, c) \in SuitedLadders(x, any)
PROOF
<1>1. PIO0 + p \in PIO .. PIO0 + 5
  OBVIOUS
<1> QED BY <1>1 DEF Ladder, SuitedLadders

(* ACARD and ALi. *)
LEMMA AcardAliLadder ==
  ASSUME NEW x \in Controllers, NEW d \in Drives, NEW l, l.chip \in Timings,
         NEW p \in -8 .. 5, NEW w \in -1 .. 2, NEW u \in -1 .. 6,
         Reachable(x, u), x.family \in {"acard", "aliold", "alinew"}
  PROVE  LadderAcardAli(x, l, p, w, u) \in SuitedLadders(x, w >= 0 \/ u >= 0)
PROOF
<1> DEFINE any == w >= 0 \/ u >= 0
           S == Seq(SuitedRungs(x, any))
<1>1. any \in BOOLEAN /\ (w >= 0 => any) /\ (u >= 0 => any)
  OBVIOUS
<1> HIDE DEF any
<1>2. << >> \in S
  OBVIOUS
<1>3. CASE x.family = "acard"
  <2>1. Rungs(UDMA0, u, OwnU) \in S
    BY <1>1, <1>3, OwnURungs
  <2>2. Wdma2Rung(p, w, WDMA2) \in S
    BY <1>1, <1>3, Wdma2RungIs
  <2>3. 0 \in Timings
    BY DEF Timings, Lower
  <2>4. LadderAcardAli(x, l, p, w, u) \in SuitedLadders(x, any)
    BY <1>2, <1>3, <2>1, <2>2, <2>3, JoinedRungs, LadderIs DEF LadderAcardAli
  <2> QED BY <2>4 DEF any
<1>4. CASE x.family \in {"aliold", "alinew"}
  <2>1. Rungs(UDMA0, u, LAMBDA i : Entry(OwnU(i), i, 6)) \in S
    BY <1>1, <1>4, AliRungs
  <2>2. Wdma2Rung(p, w, WDMA2) \in S
    BY <1>1, <1>4, Wdma2RungIs
  <2>3. Rungs(PIO0, p, OwnP) \in S
    BY <1>1, <1>4, OwnPRungs
  <2>4. 0 \in Timings
    BY DEF Timings, Lower
  <2>5. LadderAcardAli(x, l, p, w, u) \in SuitedLadders(x, any)
    BY <1>2, <1>4, <2>1, <2>2, <2>3, <2>4, JoinedRungs, LadderIs DEF LadderAcardAli
  <2> QED BY <2>5 DEF any
<1> QED BY <1>3, <1>4

(* AMD, nVidia and VIA. *)
LEMMA ViaLadder ==
  ASSUME NEW x \in Controllers, NEW d \in Drives, NEW l, l.chip \in Timings,
         NEW p \in -8 .. 5, NEW w \in -1 .. 2, NEW u \in -1 .. 6,
         Reachable(x, u), x.family \in {"amd", "viabar"}
  PROVE  LadderVia(x, l, p, w, u) \in SuitedLadders(x, w >= 0 \/ u >= 0)
PROOF
<1> DEFINE any == w >= 0 \/ u >= 0
           S == Seq(SuitedRungs(x, any))
<1>1. any \in BOOLEAN /\ (w >= 0 => any) /\ (u >= 0 => any)
  OBVIOUS
<1> HIDE DEF any
<1>2. << >> \in S
  OBVIOUS
<1>3. Rungs(UDMA0, u, LAMBDA i : Entry(OwnU(i), 8 + i, 14)) \in S
  BY <1>1, ViaRungs
<1>4. Rungs(WDMA0, w, OwnW) \in S
  BY <1>1, OwnWRungs
<1>5. OwnP(p) \in Timings
  BY DEF Timings, Lower, OwnP
<1>6. LadderVia(x, l, p, w, u) \in SuitedLadders(x, any)
  BY <1>2, <1>3, <1>4, <1>5, JoinedRungs, LadderIs DEF LadderVia
<1> QED BY <1>6 DEF any

(* Cyrix. *)
LEMMA CyrixLadder ==
  ASSUME NEW x \in Controllers, NEW d \in Drives, NEW l, l.chip \in Timings,
         NEW p \in -8 .. 5, NEW w \in -1 .. 2, NEW u \in -1 .. 6,
         Reachable(x, u), x.family \in {"cyrix3x", "cyrixold", "cyrix35"}
  PROVE  LadderCyrix(x, l, p, w, u) \in SuitedLadders(x, w >= 0 \/ u >= 0)
PROOF
<1> DEFINE any == w >= 0 \/ u >= 0
           S == Seq(SuitedRungs(x, any))
<1>1. any \in BOOLEAN /\ (w >= 0 => any) /\ (u >= 0 => any)
  OBVIOUS
<1> HIDE DEF any
<1>2. << >> \in S
  OBVIOUS
<1>3. CASE x.family = "cyrix3x"
  <2>1. Rungs(UDMA0, u, LAMBDA i : CyrixTiming(OwnU(u))) \in S
    BY <1>1, <1>3, CyrixURungs
  <2>2. Rungs(WDMA0, w, LAMBDA i : CyrixTiming(OwnW(w))) \in S
    BY <1>1, <1>3, CyrixWRungs
  <2>3. Lower(p, 4) \in -8 .. 5 /\ OwnP(Lower(p, 4)) \in Timings
    BY DEF Timings, Lower, OwnP
  <2>4. LadderCyrix(x, l, p, w, u) \in SuitedLadders(x, any)
    BY <1>2, <1>3, <2>1, <2>2, <2>3, JoinedRungs, LadderIs DEF LadderCyrix
  <2> QED BY <2>4 DEF any
<1>4. CASE x.family = "cyrixold"
  <2>1. Rungs(WDMA0, w, Quiet) \in S
    BY <1>1, <1>4, QuietWRungs
  <2>2. Lower(p, 4) \in -8 .. 5 /\ Beyond \in Timings
    BY DEF Timings, Lower
  <2>3. LadderCyrix(x, l, p, w, u) \in SuitedLadders(x, any)
    BY <1>2, <1>4, <2>1, <2>2, JoinedRungs, LadderIs DEF LadderCyrix
  <2> QED BY <2>3 DEF any
<1>5. CASE x.family = "cyrix35"
  <2>1. Rungs(UDMA0, u, Quiet) \in S
    BY <1>1, <1>5, QuietURungs
  <2>2. Rungs(WDMA0, w, Quiet) \in S
    BY <1>1, <1>5, QuietWRungs
  <2>3. Lower(p, 4) \in -8 .. 5 /\ Snoop \in Timings
    BY DEF Timings, Lower
  <2>4. LadderCyrix(x, l, p, w, u) \in SuitedLadders(x, any)
    BY <1>2, <1>5, <2>1, <2>2, <2>3, JoinedRungs, LadderIs DEF LadderCyrix
  <2> QED BY <2>4 DEF any
<1> QED BY <1>3, <1>4, <1>5

(* National, Cypress, NetCell and Marvell. *)
LEMMA SmallLadder ==
  ASSUME NEW x \in Controllers, NEW d \in Drives, NEW l, l.chip \in Timings,
         NEW p \in -8 .. 5, NEW w \in -1 .. 2, NEW u \in -1 .. 6,
         Reachable(x, u), x.family \in {"national", "cypress", "netcell", "marvell"}
  PROVE  LadderSmall(x, l, p, w, u) \in SuitedLadders(x, w >= 0 \/ u >= 0)
PROOF
<1> DEFINE any == w >= 0 \/ u >= 0
           S == Seq(SuitedRungs(x, any))
<1>1. any \in BOOLEAN /\ (w >= 0 => any) /\ (u >= 0 => any)
  OBVIOUS
<1> HIDE DEF any
<1>2. << >> \in S
  OBVIOUS
<1>3. CASE x.family = "national"
  <2>1. Rungs(UDMA0, u, OwnU) \in S
    BY <1>1, <1>3, OwnURungs
  <2>2. Rungs(WDMA0, w, OwnW) \in S
    BY <1>1, <1>3, OwnWRungs
  <2>3. <<Rung(PIO0 + Lower(p, 4), OwnP(Lower(p, 4)))>> \in S
    <3>1. Rung(PIO0 + Lower(p, 4), OwnP(Lower(p, 4))) \in SuitedRungs(x, any)
      BY <1>1 DEF SuitedRungs, Rung, OwnP, Lower, Timings
    <3> QED BY <3>1
  <2>4. Lower(p, 4) \in -8 .. 5 /\ 0 \in Timings
    BY DEF Timings, Lower
  <2>5. LadderSmall(x, l, p, w, u) \in SuitedLadders(x, any)
    BY <1>2, <1>3, <2>1, <2>2, <2>3, <2>4, JoinedRungs, LadderIs DEF LadderSmall
  <2> QED BY <2>5 DEF any
<1>4. CASE x.family = "cypress"
  <2>1. Wdma2Rung(p, w, WDMA2) \in S
    BY <1>1, <1>4, Wdma2RungIs
  <2>2. 0 \in Timings
    BY DEF Timings, Lower
  <2>3. LadderSmall(x, l, p, w, u) \in SuitedLadders(x, any)
    BY <1>2, <1>4, <2>1, <2>2, JoinedRungs, LadderIs DEF LadderSmall
  <2> QED BY <2>3 DEF any
<1>5. CASE x.family = "netcell"
  <2>1. Wdma2Rung(p, w, Snoop) \in S
    BY <1>1, <1>5, Wdma2RungIs
  <2>2. 0 \in Timings
    BY DEF Timings, Lower
  <2>3. LadderSmall(x, l, p, w, u) \in SuitedLadders(x, any)
    BY <1>2, <1>5, <2>1, <2>2, JoinedRungs, LadderIs DEF LadderSmall
  <2> QED BY <2>3 DEF any
<1>6. CASE x.family = "marvell"
  <2>1. Rungs(UDMA0, u, Quiet) \in S
    BY <1>1, <1>6, QuietURungs
  <2>2. Rungs(WDMA0, w, Quiet) \in S
    BY <1>1, <1>6, QuietWRungs
  <2>3. AnyDma(p, w, Snoop) \in S
    <3>1. Snoop \in Timings
      BY DEF Timings
    <3> QED BY <1>1, <3>1, AnyDmaIs
  <2>4. Snoop \in Timings
    BY DEF Timings, Lower
  <2>5. LadderSmall(x, l, p, w, u) \in SuitedLadders(x, any)
    BY <1>2, <1>6, <2>1, <2>2, <2>3, <2>4, JoinedRungs, LadderIs DEF LadderSmall
  <2> QED BY <2>5 DEF any
<1> QED BY <1>3, <1>4, <1>5, <1>6

(* HighPoint. *)
LEMMA HptLadder ==
  ASSUME NEW x \in Controllers, NEW d \in Drives, NEW l, l.chip \in Timings,
         NEW p \in -8 .. 5, NEW w \in -1 .. 2, NEW u \in -1 .. 6,
         Reachable(x, u), x.family \in {"hpt", "hpt370"}
  PROVE  LadderHpt(x, l, p, w, u) \in SuitedLadders(x, w >= 0 \/ u >= 0)
PROOF
<1> DEFINE any == w >= 0 \/ u >= 0
           S == Seq(SuitedRungs(x, any))
<1>1. any \in BOOLEAN /\ (w >= 0 => any) /\ (u >= 0 => any)
  OBVIOUS
<1> HIDE DEF any
<1>2. << >> \in S
  OBVIOUS
<1>3. Rungs(UDMA0, u, LAMBDA i : HptTiming(x, OwnU(i))) \in S
  BY <1>1, HptURungs
<1>4. Rungs(WDMA0, w, LAMBDA i : HptTiming(x, OwnW(i))) \in S
  BY <1>1, HptWRungs
<1>5. AnyDma(p, w, Kept(l)) \in S
  BY <1>1, AnyDmaIs DEF Kept
<1>6. HptTiming(x, OwnP(Lower(p, 4))) \in Timings
  BY DEF Timings, Lower, OwnP, HptTiming
<1>7. LadderHpt(x, l, p, w, u) \in SuitedLadders(x, any)
  BY <1>2, <1>3, <1>4, <1>5, <1>6, JoinedRungs, LadderIs DEF LadderHpt
<1> QED BY <1>7 DEF any

(* Intel. *)
LEMMA IntelLadder ==
  ASSUME NEW x \in Controllers, NEW d \in Drives, NEW l, l.chip \in Timings,
         NEW p \in -8 .. 5, NEW w \in -1 .. 2, NEW u \in -1 .. 6,
         Reachable(x, u), x.family \in {"piix", "piix4e", "isch", "ich"}
  PROVE  LadderIntel(x, l, p, w, u) \in SuitedLadders(x, w >= 0 \/ u >= 0)
PROOF
<1> DEFINE any == w >= 0 \/ u >= 0
           S == Seq(SuitedRungs(x, any))
<1>1. any \in BOOLEAN /\ (w >= 0 => any) /\ (u >= 0 => any)
  OBVIOUS
<1> HIDE DEF any
<1>2. << >> \in S
  OBVIOUS
<1>3. Rungs(UDMA0, u, LAMBDA i : IntelTiming(x, i)) \in S
  BY <1>1, IntelRungs
<1>4. Rungs(WDMA0, w, OwnW) \in S
  BY <1>1, OwnWRungs
<1>5. OwnP(p) \in Timings
  BY DEF Timings, Lower, OwnP
<1>6. LadderIntel(x, l, p, w, u) \in SuitedLadders(x, any)
  BY <1>2, <1>3, <1>4, <1>5, JoinedRungs, LadderIs DEF LadderIntel
<1> QED BY <1>6 DEF any

(* Promise. *)
LEMMA PromiseLadder ==
  ASSUME NEW x \in Controllers, NEW d \in Drives, NEW l, l.chip \in Timings,
         NEW p \in -8 .. 5, NEW w \in -1 .. 2, NEW u \in -1 .. 6,
         Reachable(x, u), x.family \in {"promiseold", "promisetx"}
  PROVE  LadderPromise(x, d, l, p, w, u) \in SuitedLadders(x, w >= 0 \/ u >= 0)
PROOF
<1> DEFINE any == w >= 0 \/ u >= 0
           S == Seq(SuitedRungs(x, any))
<1>1. any \in BOOLEAN /\ (w >= 0 => any) /\ (u >= 0 => any)
  OBVIOUS
<1> HIDE DEF any
<1>2. << >> \in S
  OBVIOUS
<1>3. Rungs(UDMA0, u, LAMBDA i : PromiseTiming(l, OwnU(i))) \in S
  <2> DEFINE c == [i \in 0 .. u |-> PromiseTiming(l, OwnU(i))]
  <2>1. \A i \in 0 .. u : Rung(UDMA0 + i, c[i]) \in SuitedRungs(x, any)
    BY <1>1 DEF SuitedRungs, Rung, Timings, Fits, ModeClass, OwnU, PromiseTiming, Kept, Misprogrammed
  <2>2. Rungs(UDMA0, u, LAMBDA i : PromiseTiming(l, OwnU(i))) =
          [k \in 1 .. u + 1 |-> Rung(UDMA0 + u + 1 - k, c[u + 1 - k])]
    BY DEF Rungs
  <2> HIDE DEF c
  <2>3. UDMA0 \in Nat /\ u \in -8 .. 6
    OBVIOUS
  <2>4. [k \in 1 .. u + 1 |-> Rung(UDMA0 + u + 1 - k, c[u + 1 - k])] \in S
    BY <2>1, <2>3, RungsAre
  <2> QED BY <2>2, <2>4
<1>4. Rungs(WDMA0, w, LAMBDA i : PromiseTiming(l, OwnW(i))) \in S
  <2> DEFINE c == [i \in 0 .. w |-> PromiseTiming(l, OwnW(i))]
  <2>1. \A i \in 0 .. w : Rung(WDMA0 + i, c[i]) \in SuitedRungs(x, any)
    BY <1>1 DEF SuitedRungs, Rung, Timings, Fits, ModeClass, OwnW, PromiseTiming, Kept, Misprogrammed
  <2>2. Rungs(WDMA0, w, LAMBDA i : PromiseTiming(l, OwnW(i))) =
          [k \in 1 .. w + 1 |-> Rung(WDMA0 + w + 1 - k, c[w + 1 - k])]
    BY DEF Rungs
  <2> HIDE DEF c
  <2>3. WDMA0 \in Nat /\ w \in -8 .. 6
    OBVIOUS
  <2>4. [k \in 1 .. w + 1 |-> Rung(WDMA0 + w + 1 - k, c[w + 1 - k])] \in S
    BY <2>1, <2>3, RungsAre
  <2> QED BY <2>2, <2>4
<1>5. OwnP(Lower(p, 4)) \in Timings
  BY DEF Timings, Lower, OwnP
<1>6. LadderPromise(x, d, l, p, w, u) \in SuitedLadders(x, any)
  BY <1>2, <1>3, <1>4, <1>5, JoinedRungs, LadderIs DEF LadderPromise
<1> QED BY <1>6 DEF any

(* ATI and ServerWorks. *)
LEMMA ServerWorksLadder ==
  ASSUME NEW x \in Controllers, NEW d \in Drives, NEW l, l.chip \in Timings,
         NEW p \in -8 .. 5, NEW w \in -1 .. 2, NEW u \in -1 .. 6,
         Reachable(x, u), x.family \in {"serverworks", "ati"}
  PROVE  LadderServerWorks(x, l, p, w, u) \in SuitedLadders(x, w >= 0 \/ u >= 0)
PROOF
<1> DEFINE any == w >= 0 \/ u >= 0
           S == Seq(SuitedRungs(x, any))
<1>1. any \in BOOLEAN /\ (w >= 0 => any) /\ (u >= 0 => any)
  OBVIOUS
<1> HIDE DEF any
<1>2. << >> \in S
  OBVIOUS
<1>3. Rungs(UDMA0, u, LAMBDA i : Entry(OwnU(i), 8 + i, 14)) \in S
  BY <1>1, ViaRungs
<1>4. Rungs(WDMA0, w, LAMBDA i : OwnW(w)) \in S
  BY <1>1, BestWRungs
<1>5. OwnP(p) \in Timings
  BY DEF Timings, Lower, OwnP
<1>6. LadderServerWorks(x, l, p, w, u) \in SuitedLadders(x, any)
  BY <1>2, <1>3, <1>4, <1>5, JoinedRungs, LadderIs DEF LadderServerWorks
<1> QED BY <1>6 DEF any

(* Silicon Image. *)
LEMMA SiliconLadder ==
  ASSUME NEW x \in Controllers, NEW d \in Drives, NEW l, l.chip \in Timings,
         NEW p \in -8 .. 5, NEW w \in -1 .. 2, NEW u \in -1 .. 6,
         Reachable(x, u), x.family \in {"siimio", "cmd"}
  PROVE  LadderSilicon(x, l, p, w, u) \in SuitedLadders(x, w >= 0 \/ u >= 0)
PROOF
<1> DEFINE any == w >= 0 \/ u >= 0
           S == Seq(SuitedRungs(x, any))
<1>1. any \in BOOLEAN /\ (w >= 0 => any) /\ (u >= 0 => any)
  OBVIOUS
<1> HIDE DEF any
<1>2. << >> \in S
  OBVIOUS
<1>3. CASE x.family = "siimio"
  <2>1. Rungs(UDMA0, u, OwnU) \in S
    BY <1>1, <1>3, OwnURungs
  <2>2. Rungs(WDMA0, w, OwnW) \in S
    BY <1>1, <1>3, OwnWRungs
  <2>3. OwnP(p) \in Timings
    BY DEF Timings, Lower, OwnP
  <2>4. LadderSilicon(x, l, p, w, u) \in SuitedLadders(x, any)
    BY <1>2, <1>3, <2>1, <2>2, <2>3, JoinedRungs, LadderIs DEF LadderSilicon
  <2> QED BY <2>4 DEF any
<1>4. CASE x.family = "cmd"
  <2>1. Rungs(UDMA0, Lower(u, 5), OwnU) \in S
    BY <1>1, <1>4, OwnURungs, SMTT(20) DEF Lower
  <2>2. Rungs(WDMA0, w, OwnW) \in S
    BY <1>1, <1>4, OwnWRungs
  <2>3. Entry(OwnP(p), p, 5) \in Timings
    BY DEF Timings, Lower, OwnP, Entry
  <2>4. LadderSilicon(x, l, p, w, u) \in SuitedLadders(x, any)
    BY <1>2, <1>4, <2>1, <2>2, <2>3, JoinedRungs, LadderIs DEF LadderSilicon
  <2> QED BY <2>4 DEF any
<1> QED BY <1>3, <1>4

(* SiS. *)
LEMMA SisLadder ==
  ASSUME NEW x \in Controllers, NEW d \in Drives, NEW l, l.chip \in Timings,
         NEW p \in -8 .. 5, NEW w \in -1 .. 2, NEW u \in -1 .. 6,
         Reachable(x, u), x.family \in {"sis"}
  PROVE  LadderSis(x, l, p, w, u) \in SuitedLadders(x, w >= 0 \/ u >= 0)
PROOF
<1> DEFINE any == w >= 0 \/ u >= 0
           S == Seq(SuitedRungs(x, any))
<1>1. any \in BOOLEAN /\ (w >= 0 => any) /\ (u >= 0 => any)
  OBVIOUS
<1> HIDE DEF any
<1>2. << >> \in S
  OBVIOUS
<1>3. Rungs(UDMA0, u, OwnU) \in S
  BY <1>1, OwnURungs
<1>4. Rungs(WDMA0, w, OwnW) \in S
  BY <1>1, OwnWRungs
<1>5. OwnP(p) \in Timings
  BY DEF Timings, Lower, OwnP
<1>6. LadderSis(x, l, p, w, u) \in SuitedLadders(x, any)
  BY <1>2, <1>3, <1>4, <1>5, JoinedRungs, LadderIs DEF LadderSis
<1> QED BY <1>6 DEF any

(* ITE. *)
LEMMA IteLadder ==
  ASSUME NEW x \in Controllers, NEW d \in Drives, NEW l, l.chip \in Timings,
         NEW p \in -8 .. 5, NEW w \in -1 .. 2, NEW u \in -1 .. 6,
         Reachable(x, u), x.family \in {"ite33", "ite133", "ite133new"}
  PROVE  LadderIte(x, l, p, w, u) \in SuitedLadders(x, w >= 0 \/ u >= 0)
PROOF
<1> DEFINE any == w >= 0 \/ u >= 0
           S == Seq(SuitedRungs(x, any))
<1>1. any \in BOOLEAN /\ (w >= 0 => any) /\ (u >= 0 => any)
  OBVIOUS
<1> HIDE DEF any
<1>2. << >> \in S
  OBVIOUS
<1>3. CASE x.family = "ite133new" /\ ~x.eighty
  <2>1. Rungs(UDMA0, Lower(u, 2), LAMBDA i : IteTiming(x, i)) \in S
    <3>1. PICK v \in -1 .. 6 : v = Lower(u, 2) /\ (v >= 0 => u >= 0)
      BY DEF Lower
    <3>2. (v >= 0 => any) /\ Reachable(x, v)
      BY <1>1, <1>3, <3>1 DEF Reachable
    <3>3. Rungs(UDMA0, v, LAMBDA i : IteTiming(x, i)) \in S
      BY <1>1, <1>3, <3>2, IteRungs
    <3> QED BY <3>1, <3>3
  <2>2. Rungs(WDMA0, w, OwnW) \in S
    BY <1>1, <1>3, OwnWRungs
  <2>3. OwnP(p) \in Timings
    BY DEF Timings, Lower, OwnP
  <2>4. LadderIte(x, l, p, w, u) \in SuitedLadders(x, any)
    BY <1>2, <1>3, <2>1, <2>2, <2>3, JoinedRungs, LadderIs DEF LadderIte
  <2> QED BY <2>4 DEF any
<1>4. CASE ~(x.family = "ite133new" /\ ~x.eighty)
  <2>1. Rungs(UDMA0, u, LAMBDA i : IteTiming(x, i)) \in S
    BY <1>1, <1>4, IteRungs
  <2>2. Rungs(WDMA0, w, OwnW) \in S
    BY <1>1, <1>4, OwnWRungs
  <2>3. OwnP(p) \in Timings
    BY DEF Timings, Lower, OwnP
  <2>4. LadderIte(x, l, p, w, u) \in SuitedLadders(x, any)
    BY <1>2, <1>4, <2>1, <2>2, <2>3, JoinedRungs, LadderIs DEF LadderIte
  <2> QED BY <2>4 DEF any
<1> QED BY <1>3, <1>4

(* JMicron. *)
LEMMA JmicronLadder ==
  ASSUME NEW x \in Controllers, NEW d \in Drives, NEW l, l.chip \in Timings,
         NEW p \in -8 .. 5, NEW w \in -1 .. 2, NEW u \in -1 .. 6,
         Reachable(x, u), x.family \in {"jmicron"}
  PROVE  LadderJmicron(x, l, p, w, u) \in SuitedLadders(x, w >= 0 \/ u >= 0)
PROOF
<1> DEFINE any == w >= 0 \/ u >= 0
           S == Seq(SuitedRungs(x, any))
<1>1. any \in BOOLEAN /\ (w >= 0 => any) /\ (u >= 0 => any)
  OBVIOUS
<1> HIDE DEF any
<1>2. << >> \in S
  OBVIOUS
<1>3. Rungs(UDMA0, u, Quiet) \in S
  BY <1>1, QuietURungs
<1>4. Rungs(WDMA0, w, Quiet) \in S
  BY <1>1, QuietWRungs
<1>5. Lower(p, 4) \in -8 .. 5 /\ Snoop \in Timings
  BY DEF Timings, Lower
<1>6. LadderJmicron(x, l, p, w, u) \in SuitedLadders(x, any)
  BY <1>2, <1>3, <1>4, <1>5, JoinedRungs, LadderIs DEF LadderJmicron
<1> QED BY <1>6 DEF any

(* One mode, or none. *)
LEMMA SingleLadder ==
  ASSUME NEW x \in Controllers, NEW l, NEW p \in -8 .. 5, NEW w \in -1 .. 2, NEW u \in -1 .. 6,
         NEW m, m = WDMA0 + w \/ m = DMA
  PROVE  LadderSingle(x, l, p, w, m) \in SuitedLadders(x, w >= 0 \/ u >= 0)
PROOF
<1> DEFINE any == w >= 0 \/ u >= 0
<1>1. << >> \in Seq(SuitedRungs(x, any)) /\ 0 \in Timings /\ Snoop \in Timings
  BY DEF Timings
<1>2. w >= 0 => <<Rung(m, Snoop)>> \in Seq(SuitedRungs(x, any))
  BY DEF SuitedRungs, Rung, Timings, Fits
<1> HIDE DEF any
<1>3. LadderSingle(x, l, p, w, m) \in SuitedLadders(x, any)
  BY <1>1, <1>2, LadderIs DEF LadderSingle
<1> QED BY <1>3 DEF any

(* Every ladder of AtapiDmaInit. *)
LEMMA LaddersSuit ==
  ASSUME NEW x \in Controllers, NEW d \in Drives, NEW l, l.chip \in Timings,
         NEW p \in -8 .. 5, NEW w \in -1 .. 2, NEW u \in -1 .. 6, Reachable(x, u)
  PROVE  LadderOf(x, d, l, p, w, u) \in SuitedLadders(x, w >= 0 \/ u >= 0)
PROOF
<1> DEFINE Good == SuitedLadders(x, w >= 0 \/ u >= 0)
<1>1. Ladder(<<>>, p, "generic", 0) \in Good
  <2>1. << >> \in Seq(SuitedRungs(x, w >= 0 \/ u >= 0)) /\ 0 \in Timings
    BY DEF Timings
  <2> QED BY <2>1, LadderIs
<1>2. CASE x.family \in {"acard", "aliold", "alinew"}
  BY <1>2, AcardAliLadder DEF LadderOf
<1>3. CASE x.family \in {"amd", "viabar"}
  BY <1>3, ViaLadder DEF LadderOf
<1>4. CASE x.family \in {"cyrix3x", "cyrixold", "cyrix35"}
  BY <1>4, CyrixLadder DEF LadderOf
<1>5. CASE x.family \in {"national", "cypress", "netcell", "marvell"}
  BY <1>5, SmallLadder DEF LadderOf
<1>6. CASE x.family \in {"hpt", "hpt370"}
  BY <1>6, HptLadder DEF LadderOf
<1>7. CASE x.family \in {"piix", "piix4e", "isch", "ich"}
  BY <1>7, IntelLadder DEF LadderOf
<1>8. CASE x.family \in {"promiseold", "promisetx"}
  BY <1>8, PromiseLadder DEF LadderOf
<1>9. CASE x.family \in {"serverworks", "ati"}
  BY <1>9, ServerWorksLadder DEF LadderOf
<1>10. CASE x.family \in {"siimio", "cmd"}
  BY <1>10, SiliconLadder DEF LadderOf
<1>11. CASE x.family \in {"sis"}
  BY <1>11, SisLadder DEF LadderOf
<1>12. CASE x.family \in {"cenatek", "hint"}
  BY <1>12, SingleLadder DEF LadderOf
<1>13. CASE x.family \in {"ite33", "ite133", "ite133new"}
  BY <1>13, IteLadder DEF LadderOf
<1>14. CASE x.family \in {"jmicron"}
  BY <1>14, JmicronLadder DEF LadderOf
<1>15. CASE x.family \in {"sata", "unknown"}
  BY <1>1, <1>15 DEF LadderOf
<1>16. x.family \in Families
  BY DEF Controllers
<1> QED BY <1>2, <1>3, <1>4, <1>5, <1>6, <1>7, <1>8, <1>9, <1>10, <1>11, <1>12, <1>13, <1>14, <1>15, <1>16 DEF Families

-----------------------------------------------------------------------------
(* What AtapiDmaInit returns. *)

Settings == [mode : PIO .. SA150, limit : PIO .. SA150, top : PIO .. SA150,
             drive : PIO .. SA150, chip : Timings, reinit : BOOLEAN]

(* From settings l the mode was chosen anew, a DMA mode only when there is *)
(* any to choose, and the timing is one for the mode the drive is in.      *)
Chosen(x, any, l, r) ==
  /\ r \in Settings /\ r.limit = l.limit /\ r.reinit = FALSE
  /\ r.top \in {l.top, Lower(l.top, PIO0 + 4)}
  /\ r.mode >= DMA => any /\ r.drive >= DMA /\ Suited(x, r)

(* The mode is what was asked for, or a PIO mode. *)
LEMMA SetModeIs ==
  ASSUME NEW d \in Drives, NEW l \in Settings, NEW m \in PIO .. SA150, l.mode < DMA
  PROVE  LET r == SetMode(d, l, m)
         IN  /\ r \in Settings
             /\ r.limit = l.limit /\ r.top = l.top /\ r.chip = l.chip /\ r.reinit = l.reinit
             /\ ~SetsMode(d, m) => r = l
             /\ r.mode >= DMA => /\ SetsMode(d, m) /\ r.mode = m
                                 /\ r.drive = IF m > UDMA6 THEN UDMA0 + Lower(d.udma, 6) ELSE m
PROOF
<1> DEFINE r == SetMode(d, l, m)
           Good(q) == /\ q \in Settings
                      /\ q.limit = l.limit /\ q.top = l.top /\ q.chip = l.chip /\ q.reinit = l.reinit
                      /\ ~SetsMode(d, m) => q = l
                      /\ q.mode >= DMA => /\ SetsMode(d, m) /\ q.mode = m
                                          /\ q.drive = IF m > UDMA6 THEN UDMA0 + Lower(d.udma, 6) ELSE m
<1>1. d.pio \in 0 .. 5 /\ d.wdma \in -1 .. 2 /\ d.udma \in -1 .. 6 /\ d.chs \in BOOLEAN
  BY DEF Drives
<1> SUFFICES Good(r)
  OBVIOUS
<1>2. Lower(d.udma, 6) \in -1 .. 6
  BY <1>1 DEF Lower
<1>3. CASE Accepts(d, m)
  <2>1. r = [l EXCEPT !.mode = m,
                      !.drive = IF d.chs THEN @
                                ELSE IF m > UDMA6 THEN UDMA0 + Lower(d.udma, 6) ELSE m]
    BY <1>3 DEF SetMode
  <2>2. d.chs => m < DMA
    BY <1>3 DEF Accepts
  <2>3. SetsMode(d, m)
    BY <1>3 DEF SetsMode
  <2> HIDE DEF r
  <2>4. d.chs => r = [l EXCEPT !.mode = m]
    BY <2>1 DEF Settings
  <2>5. ~d.chs => r = [l EXCEPT !.mode = m,
                                !.drive = IF m > UDMA6 THEN UDMA0 + Lower(d.udma, 6) ELSE m]
    BY <2>1
  <2>6. CASE d.chs
    BY <2>2, <2>3, <2>4, <2>6 DEF Settings
  <2>7. CASE ~d.chs
    <3> DEFINE v == IF m > UDMA6 THEN UDMA0 + Lower(d.udma, 6) ELSE m
    <3>1. v \in PIO .. SA150
      BY <1>2
    <3>2. r = [l EXCEPT !.mode = m, !.drive = v]
      BY <2>5, <2>7
    <3> HIDE DEF v
    <3>3. /\ r \in Settings /\ r.drive = v /\ r.mode = m
          /\ r.limit = l.limit /\ r.top = l.top /\ r.chip = l.chip /\ r.reinit = l.reinit
      BY <3>1, <3>2 DEF Settings
    <3> QED BY <2>3, <3>3 DEF v
  <2> QED BY <1>1, <2>6, <2>7
<1>4. CASE ~Accepts(d, m) /\ MayRefuse(d, m)
  <2>1. r = [l EXCEPT !.mode = PIO0 + d.pio]
    BY <1>4 DEF SetMode
  <2>2. SetsMode(d, m)
    BY <1>4 DEF SetsMode
  <2> HIDE DEF r
  <2> QED BY <1>1, <2>1, <2>2 DEF Settings
<1>5. CASE ~Accepts(d, m) /\ ~MayRefuse(d, m)
  <2>1. r = l
    BY <1>5 DEF SetMode
  <2> HIDE DEF r
  <2> QED BY <2>1 DEF Settings
<1> QED BY <1>3, <1>4, <1>5

(* A timing is written after the mode was set. *)
LEMMA WriteTiming ==
  ASSUME NEW x, NEW any, NEW d \in Drives, NEW l \in Settings, NEW m \in PIO .. SA150,
         NEW c \in Timings, l.mode < DMA, l.reinit = FALSE,
         SetsMode(d, m) /\ m >= DMA =>
           /\ any
           /\ \/ c = Snoop
              \/ m <= UDMA6 /\ (Fits(c, m) \/ Misprogrammed(x, m))
  PROVE  Chosen(x, any, l, [SetMode(d, l, m) EXCEPT !.chip = c])
PROOF
<1> DEFINE r == SetMode(d, l, m)
           q == [r EXCEPT !.chip = c]
<1>1. /\ r \in Settings
      /\ r.limit = l.limit /\ r.top = l.top /\ r.chip = l.chip /\ r.reinit = l.reinit
      /\ ~SetsMode(d, m) => r = l
      /\ r.mode >= DMA => /\ SetsMode(d, m) /\ r.mode = m
                          /\ r.drive = IF m > UDMA6 THEN UDMA0 + Lower(d.udma, 6) ELSE m
  BY SetModeIs
<1>2. d.udma \in -1 .. 6
  BY DEF Drives
<1> HIDE DEF r
<1>3. /\ q \in Settings /\ q.limit = l.limit /\ q.reinit = FALSE /\ q.top = l.top
      /\ q.mode = r.mode /\ q.drive = r.drive /\ q.chip = c
  BY <1>1 DEF Settings
<1> HIDE DEF q
<1>4. ASSUME q.mode >= DMA
      PROVE  any /\ q.drive >= DMA /\ Suited(x, q)
  <2>1. SetsMode(d, m) /\ m >= DMA
    BY <1>1, <1>3, <1>4 DEF Settings
  <2>2. q.drive >= DMA
    BY <1>1, <1>2, <1>3, <1>4, <2>1 DEF Lower
  <2>3. c = Snoop \/ (Fits(c, q.drive) \/ Misprogrammed(x, q.drive))
    BY <1>1, <1>3, <1>4, <2>1
  <2>4. c = Snoop => Fits(c, q.drive)
    BY DEF Fits
  <2> QED BY <1>3, <2>1, <2>2, <2>3, <2>4 DEF Suited
<1>5. Chosen(x, any, l, q)
  BY <1>3, <1>4 DEF Chosen
<1> QED BY <1>5 DEF q, r

(* No mode is set. *)
LEMMA NoneSet ==
  ASSUME NEW x, NEW any, NEW l \in Settings, l.mode < DMA, l.reinit = FALSE
  PROVE  Chosen(x, any, l, l) /\ Chosen(x, any, l, [l EXCEPT !.mode = PIO])
PROOF
  BY DEF Chosen, Settings

(* The policy for controllers that are not known. *)
LEMMA GenericIs ==
  ASSUME NEW x \in Controllers, NEW d \in Drives, NEW l \in Settings, l.mode < DMA, l.reinit = FALSE,
         NEW p \in -8 .. 5, NEW w \in -1 .. 2, NEW u \in -1 .. 6
  PROVE  Chosen(x, w >= 0 \/ u >= 0, l, Generic(x, d, l, p, w, u))
PROOF
<1> DEFINE any == w >= 0 \/ u >= 0
<1>1. Snoop \in Timings /\ DMA \in PIO .. SA150 /\ PIO0 + p \in PIO .. SA150 /\ ~(PIO0 + p >= DMA)
  BY DEF Timings
<1> SUFFICES Chosen(x, any, l, Generic(x, d, l, p, w, u))
  OBVIOUS
<1>2. CASE ~d.atapi /\ (u >= 0 \/ w >= 0) /\ x.bm /\ x.capable /\ SetsMode(d, DMA)
  <2>1. Generic(x, d, l, p, w, u) = [SetMode(d, l, DMA) EXCEPT !.chip = Snoop]
    BY <1>2 DEF Generic
  <2>2. any
    BY <1>2
  <2> HIDE DEF any
  <2>3. Chosen(x, any, l, [SetMode(d, l, DMA) EXCEPT !.chip = Snoop])
    BY <1>1, <2>2, WriteTiming
  <2> QED BY <2>1, <2>3
<1>3. CASE ~(~d.atapi /\ (u >= 0 \/ w >= 0) /\ x.bm /\ x.capable /\ SetsMode(d, DMA))
  <2>1. CASE SetsMode(d, PIO0 + p)
    <3>1. Generic(x, d, l, p, w, u) = [SetMode(d, l, PIO0 + p) EXCEPT !.chip = Snoop]
      BY <1>3, <2>1 DEF Generic
    <3> HIDE DEF any
    <3>2. Chosen(x, any, l, [SetMode(d, l, PIO0 + p) EXCEPT !.chip = Snoop])
      BY <1>1, WriteTiming
    <3> QED BY <3>1, <3>2
  <2>2. CASE ~SetsMode(d, PIO0 + p)
    <3>1. Generic(x, d, l, p, w, u) = [l EXCEPT !.mode = PIO]
      BY <1>3, <2>2 DEF Generic
    <3> HIDE DEF any
    <3>2. Chosen(x, any, l, [l EXCEPT !.mode = PIO])
      BY NoneSet
    <3> QED BY <3>1, <3>2
  <2> QED BY <2>1, <2>2
<1> QED BY <1>2, <1>3

(* Going down a ladder of suited rungs. *)
LEMMA GoDownIs ==
  ASSUME NEW x \in Controllers, NEW d \in Drives, NEW l \in Settings, l.mode < DMA, l.reinit = FALSE,
         NEW p \in -8 .. 5, NEW w \in -1 .. 2, NEW u \in -1 .. 6, Reachable(x, u)
  PROVE  Chosen(x, w >= 0 \/ u >= 0, l, GoDown(x, d, l, p, w, u))
PROOF
<1> DEFINE any == w >= 0 \/ u >= 0
           ladder == LadderOf(x, d, l, p, w, u)
           I == {i \in 1 .. Len(ladder.rungs) : SetsMode(d, ladder.rungs[i].mode)}
           k == SelectInSeq(ladder.rungs, LAMBDA r : SetsMode(d, r.mode))
<1>1. l.chip \in Timings
  BY DEF Settings
<1>2. ladder \in SuitedLadders(x, any)
  BY <1>1, LaddersSuit
<1>3. k = 0 \/ k \in 1 .. Len(ladder.rungs)
  <2>1. k = IF I # {} THEN Min(I) ELSE 0
    BY DEF SelectInSeq
  <2>2. ASSUME I # {} PROVE Min(I) \in I
    <3>1. I \in SUBSET Nat
      OBVIOUS
    <3> HIDE DEF I
    <3>2. \E m \in I : \A i \in I : m <= i
      BY <2>2, <3>1, LeastNat
    <3> QED BY <3>2 DEF Min
  <2> QED BY <2>1, <2>2
<1> HIDE DEF k, ladder, any
<1>4. GoDown(x, d, l, p, w, u) =
        IF k # 0
        THEN [SetMode(d, l, ladder.rungs[k].mode) EXCEPT !.chip = ladder.rungs[k].chip]
        ELSE CASE ladder.end = "generic" -> Generic(x, d, l, p, w, u)
               [] ladder.end = "stop" -> l
               [] ladder.end = "always" -> [SetMode(d, l, ladder.pio) EXCEPT !.chip = ladder.chip]
               [] ladder.end = "accepted" ->
                    IF SetsMode(d, ladder.pio)
                    THEN [SetMode(d, l, ladder.pio) EXCEPT !.chip = ladder.chip]
                    ELSE l
  BY DEF GoDown, k, ladder
<1>5. CASE k # 0
  <2>1. ladder.rungs \in Seq(SuitedRungs(x, any))
    BY <1>2 DEF SuitedLadders
  <2>2. ladder.rungs[k] \in SuitedRungs(x, any)
    BY <1>3, <1>5, <2>1
  <2> DEFINE g == ladder.rungs[k]
  <2>3. /\ g.mode \in PIO .. SA150 /\ g.chip \in Timings /\ g.mode <= UDMA6
        /\ g.mode >= DMA => any /\ (Fits(g.chip, g.mode) \/ Misprogrammed(x, g.mode))
    BY <2>2 DEF SuitedRungs
  <2> HIDE DEF g
  <2>4. Chosen(x, any, l, [SetMode(d, l, g.mode) EXCEPT !.chip = g.chip])
    BY <2>3, WriteTiming
  <2> QED BY <1>4, <1>5, <2>4 DEF any, g
<1>6. CASE k = 0
  <2>1. /\ ladder.pio \in PIO .. SA150 /\ ~(ladder.pio >= DMA) /\ ladder.chip \in Timings
        /\ ladder.end \in {"generic", "stop", "always", "accepted"}
    BY <1>2 DEF SuitedLadders
  <2>2. Chosen(x, any, l, [SetMode(d, l, ladder.pio) EXCEPT !.chip = ladder.chip])
    BY <2>1, WriteTiming
  <2>3. Chosen(x, any, l, l)
    BY NoneSet
  <2>4. Chosen(x, any, l, Generic(x, d, l, p, w, u))
    BY GenericIs DEF any
  <2>5. GoDown(x, d, l, p, w, u) \in
          {l, Generic(x, d, l, p, w, u), [SetMode(d, l, ladder.pio) EXCEPT !.chip = ladder.chip]}
    BY <1>4, <1>6, <2>1
  <2> QED BY <2>2, <2>3, <2>4, <2>5 DEF any
<1> QED BY <1>5, <1>6

(* SATA: an interface without timings. *)
LEMMA SataInitIs ==
  ASSUME NEW x \in Controllers, NEW d \in Drives, NEW l \in Settings, l.mode < DMA, l.reinit = FALSE,
         NEW p \in -8 .. 5, NEW w \in -1 .. 2, NEW u \in -1 .. 6
  PROVE  Chosen(x, w >= 0 \/ u >= 0, l, SataInit(x, d, l, p, w, u))
PROOF
<1> DEFINE any == w >= 0 \/ u >= 0
           fast == u >= 5 \/ (u >= 0 /\ l.top >= SA150)
           best == Lower(l.limit, d.orig)
           slow == fast /\ ~d.sata /\ u > 2 /\ x.cable40
           v == IF slow THEN 2 ELSE Lower(u, 6)
           q == IF slow THEN Lower(p, l.limit - PIO0) ELSE p
           m == IF v >= 0 THEN UDMA0 + v ELSE IF w >= 0 THEN WDMA0 + w ELSE PIO0 + q
<1>1. l.limit \in PIO .. SA150 /\ d.orig \in PIO .. SA150 /\ Snoop \in Timings
  BY DEF Settings, Drives, Timings
<1>2. best \in PIO .. SA150
  BY <1>1 DEF Lower
<1>3. v \in -1 .. 6 /\ (v >= 0 => u >= 0)
  <2>1. Lower(u, 6) \in -1 .. 6 /\ (Lower(u, 6) >= 0 => u >= 0)
    BY DEF Lower
  <2> QED BY <2>1
<1>4. q \in -8 .. 5
  BY <1>1 DEF Lower
<1>5. m \in PIO .. SA150 /\ (m >= DMA => any)
  BY <1>3, <1>4
<1>6. fast => any
  OBVIOUS
<1>7. SataInit(x, d, l, p, w, u) = IF fast /\ d.sata /\ SetsMode(d, best)
                                   THEN [SetMode(d, l, best) EXCEPT !.chip = Snoop]
                                   ELSE [SetMode(d, l, m) EXCEPT !.chip = Snoop]
  BY DEF SataInit
<1> SUFFICES Chosen(x, any, l, SataInit(x, d, l, p, w, u))
  OBVIOUS
<1> HIDE DEF any, fast, best, m
<1>8. fast => Chosen(x, any, l, [SetMode(d, l, best) EXCEPT !.chip = Snoop])
  BY <1>1, <1>2, <1>6, WriteTiming
<1>9. Chosen(x, any, l, [SetMode(d, l, m) EXCEPT !.chip = Snoop])
  BY <1>1, <1>5, WriteTiming
<1> QED BY <1>7, <1>8, <1>9

(* The best modes that are within a limit. *)
Bests == [p : -8 .. 5, w : -1 .. 2, u : -1 .. 6]

(* A limit keeps what is within it and raises no mode.                     *)
LEMMA CapIs ==
  ASSUME NEW t \in Bests, NEW m \in PIO .. SA150
  PROVE  /\ Cap(t, m) \in Bests
         /\ Cap(t, m).w <= t.w /\ Cap(t, m).u <= t.u
         /\ m < DMA => Cap(t, m).w = -1 /\ Cap(t, m).u = -1
         /\ m < UDMA6 => Cap(t, m).u <= 5
PROOF
<1>1. CASE m >= UDMA0
  <2>1. Cap(t, m) = [t EXCEPT !.u = Lower(t.u, m - UDMA0)]
    BY <1>1 DEF Cap
  <2> QED BY <1>1, <2>1 DEF Bests, Lower
<1>2. CASE m >= WDMA0 /\ m < UDMA0
  <2> DEFINE a == [t EXCEPT !.u = -1]
  <2>1. Cap(t, m) = [a EXCEPT !.w = Lower(t.w, m - WDMA0)]
    BY <1>2 DEF Cap
  <2>3. a \in Bests /\ a.w = t.w /\ a.u = -1
    BY DEF Bests
  <2> HIDE DEF a
  <2>2. Lower(t.w, m - WDMA0) \in -1 .. 2 /\ Lower(t.w, m - WDMA0) <= t.w
    BY <1>2 DEF Bests, Lower
  <2> QED BY <1>2, <2>1, <2>2, <2>3 DEF Bests
<1>3. CASE m >= PIO0 /\ m < WDMA0
  <2> DEFINE a == [t EXCEPT !.u = -1]
             b == [a EXCEPT !.w = -1]
  <2>1. Cap(t, m) = [b EXCEPT !.p = Lower(t.p, m - PIO0)]
    BY <1>3 DEF Cap
  <2>3. a \in Bests /\ a.u = -1
    BY DEF Bests
  <2> HIDE DEF a
  <2>4. b \in Bests /\ b.u = -1 /\ b.w = -1
    BY <2>3 DEF Bests
  <2> HIDE DEF b
  <2>2. Lower(t.p, m - PIO0) \in -8 .. 5
    BY <1>3 DEF Bests, Lower
  <2> QED BY <1>3, <2>1, <2>2, <2>4 DEF Bests
<1>4. CASE m < PIO0
  <2>1. Cap(t, m) = [p |-> 0, w |-> -1, u |-> -1]
    BY <1>4 DEF Cap
  <2> QED BY <1>4, <2>1 DEF Bests
<1> QED BY <1>1, <1>2, <1>3, <1>4

(* AtapiDmaInit: the settings stay within what the driver knows, a DMA     *)
(* mode is set only if one was asked for and allowed, and its timing suits *)
(* the drive.                                                              *)
LEMMA DmaInitIs ==
  ASSUME NEW x \in Controllers, NEW d \in Drives, NEW l \in Settings,
         NEW p0 \in -8 .. 5, NEW w0 \in -1 .. 2, NEW u0 \in -1 .. 6, NEW idle \in BOOLEAN,
         x.family \in {"aliold", "viabar", "serverworks"} => l.top # UDMA6
  PROVE  Chosen(x, (w0 >= 0 \/ u0 >= 0) /\ l.top >= DMA /\ l.limit >= DMA, l,
                DmaInit(x, d, l, p0, w0, u0, idle))
PROOF
<1> DEFINE asked == [p |-> p0, w |-> IF x.bm THEN w0 ELSE -1, u |-> IF x.bm THEN u0 ELSE -1]
           t1 == Cap(asked, l.top)
           t == Cap(t1, l.limit)
           now == [l EXCEPT !.mode = PIO, !.reinit = FALSE]
           cut == t.u > 2 /\ x.cable40 /\ ~d.sata
           u == IF cut THEN 2 ELSE t.u
           p == IF cut THEN Lower(t.p, now.limit - PIO) ELSE t.p
           both == x.family = "aliold" /\ (u >= 0 \/ t.w >= 0) /\ x.twoAtapi
           lowered == [now EXCEPT !.top = Lower(@, PIO0 + 4)]
           any == (w0 >= 0 \/ u0 >= 0) /\ l.top >= DMA /\ l.limit >= DMA
           r == DmaInit(x, d, l, p0, w0, u0, idle)
<1>1. asked \in Bests /\ asked.w <= w0 /\ asked.u <= u0
  BY DEF Bests
<1>2. l.top \in PIO .. SA150 /\ l.limit \in PIO .. SA150
  BY DEF Settings
<1>3. /\ now \in Settings /\ now.mode < DMA /\ now.reinit = FALSE
      /\ now.limit = l.limit /\ now.top = l.top
  <2> DEFINE a == [l EXCEPT !.mode = PIO]
  <2>1. a \in Settings /\ a.mode = PIO /\ a.limit = l.limit /\ a.top = l.top
    BY DEF Settings
  <2>2. now = [a EXCEPT !.reinit = FALSE]
    OBVIOUS
  <2> HIDE DEF a, now
  <2>3. now \in Settings
    <3> DEFINE off == FALSE
    <3>1. off \in BOOLEAN /\ now = [a EXCEPT !.reinit = off]
      BY <2>2
    <3> HIDE DEF off
    <3> QED BY <2>1, <3>1 DEF Settings
  <2>4. now.mode = a.mode /\ now.limit = a.limit /\ now.top = a.top
    BY <2>1, <2>2 DEF Settings
  <2>5. now.reinit = FALSE
    BY <2>1, <2>2 DEF Settings
  <2> QED BY <2>1, <2>3, <2>4, <2>5
<1>4. /\ lowered \in Settings /\ lowered.mode < DMA /\ lowered.reinit = FALSE
      /\ lowered.limit = l.limit /\ lowered.top = Lower(l.top, PIO0 + 4)
      /\ lowered.top < DMA
  <2>1. Lower(l.top, PIO0 + 4) \in PIO .. PIO0 + 4
    BY <1>2 DEF Lower
  <2> DEFINE v == Lower(l.top, PIO0 + 4)
  <2>2. lowered = [now EXCEPT !.top = v] /\ v \in PIO .. SA150 /\ v < DMA
    BY <1>3, <2>1
  <2> HIDE DEF now, v
  <2>3. lowered \in Settings
    BY <1>3, <2>2 DEF Settings
  <2>4. lowered.mode = now.mode /\ lowered.reinit = now.reinit /\ lowered.limit = now.limit
        /\ lowered.top = v
    BY <1>3, <2>2 DEF Settings
  <2> QED BY <1>3, <2>2, <2>3, <2>4 DEF v
<1>5. r = IF ~idle THEN now
          ELSE IF x.family = "sata" \/ now.top >= SA150
               THEN SataInit(x, d, now, t.p, t.w, t.u)
          ELSE IF x.family = "unknown" THEN Generic(x, d, now, t.p, t.w, t.u)
          ELSE IF both THEN Generic(x, d, lowered, p, -1, -1)
          ELSE GoDown(x, d, now, p, t.w, u)
  BY DEF DmaInit
<1> HIDE DEF asked
<1>6. /\ t1 \in Bests /\ t1.w <= asked.w /\ t1.u <= asked.u
      /\ l.top < DMA => t1.w = -1 /\ t1.u = -1
      /\ l.top < UDMA6 => t1.u <= 5
  BY <1>1, <1>2, CapIs
<1> HIDE DEF t1
<1>7. /\ t \in Bests /\ t.w <= t1.w /\ t.u <= t1.u
      /\ l.limit < DMA => t.w = -1 /\ t.u = -1
  BY <1>2, <1>6, CapIs
<1> HIDE DEF t
<1>8. t.p \in -8 .. 5 /\ t.w \in -1 .. 2 /\ t.u \in -1 .. 6
  BY <1>7 DEF Bests
<1>9. /\ t.w >= 0 \/ t.u >= 0 => any
      /\ l.top < UDMA6 => t.u <= 5
  BY <1>1, <1>2, <1>6, <1>7, <1>8 DEF Bests
<1>10. u \in -1 .. 6 /\ u <= t.u /\ (u >= 0 => t.u >= 0)
  BY <1>8
<1>11. p \in -8 .. 5
  BY <1>2, <1>3, <1>8 DEF Lower
<1>12. ASSUME NEW b \in BOOLEAN, b => any, NEW n \in {now, lowered}, NEW q, Chosen(x, b, n, q)
       PROVE  Chosen(x, any, l, q)
  <2>1. /\ n.limit = l.limit /\ n.top \in {l.top, Lower(l.top, PIO0 + 4)}
        /\ Lower(n.top, PIO0 + 4) = Lower(l.top, PIO0 + 4)
    BY <1>2, <1>3, <1>4, <1>12 DEF Lower
  <2> HIDE DEF any
  <2> QED BY <1>12, <2>1 DEF Chosen
<1> HIDE DEF now, lowered, both, p, u, r
<1>13. CASE ~idle
  <2>1. Chosen(x, FALSE, now, now)
    BY <1>3, NoneSet
  <2>2. Chosen(x, any, l, now)
    BY <1>12, <2>1
  <2> QED BY <1>5, <1>13, <2>2 DEF r
<1>14. CASE idle /\ (x.family = "sata" \/ now.top >= SA150)
  <2>1. Chosen(x, t.w >= 0 \/ t.u >= 0, now, SataInit(x, d, now, t.p, t.w, t.u))
    BY <1>3, <1>8, SataInitIs
  <2>2. Chosen(x, any, l, SataInit(x, d, now, t.p, t.w, t.u))
    BY <1>9, <1>12, <2>1
  <2> QED BY <1>5, <1>14, <2>2 DEF r
<1>15. CASE idle /\ ~(x.family = "sata" \/ now.top >= SA150) /\ x.family = "unknown"
  <2>1. Chosen(x, t.w >= 0 \/ t.u >= 0, now, Generic(x, d, now, t.p, t.w, t.u))
    BY <1>3, <1>8, GenericIs
  <2>2. Chosen(x, any, l, Generic(x, d, now, t.p, t.w, t.u))
    BY <1>9, <1>12, <2>1
  <2> QED BY <1>5, <1>15, <2>2 DEF r
<1>16. CASE idle /\ ~(x.family = "sata" \/ now.top >= SA150) /\ x.family # "unknown" /\ both
  <2>1. PICK e \in -1 .. 2 : e = -1
    OBVIOUS
  <2> DEFINE b == e >= 0 \/ e >= 0
  <2>2. Chosen(x, b, lowered, Generic(x, d, lowered, p, e, e))
    <3>1. e \in -1 .. 6
      OBVIOUS
    <3> QED BY <1>4, <1>11, <3>1, GenericIs
  <2>4. b \in BOOLEAN /\ ~b
    BY <2>1
  <2> HIDE DEF b
  <2>3. Chosen(x, any, l, Generic(x, d, lowered, p, e, e))
    BY <1>12, <2>4, <2>2
  <2> QED BY <1>5, <1>16, <2>1, <2>3 DEF r
<1>17. CASE idle /\ ~(x.family = "sata" \/ now.top >= SA150) /\ x.family # "unknown" /\ ~both
  <2>1. Reachable(x, u)
    BY <1>2, <1>3, <1>8, <1>9, <1>10, <1>17 DEF Reachable
  <2>2. Chosen(x, t.w >= 0 \/ u >= 0, now, GoDown(x, d, now, p, t.w, u))
    BY <1>3, <1>8, <1>10, <1>11, <2>1, GoDownIs
  <2>3. Chosen(x, any, l, GoDown(x, d, now, p, t.w, u))
    BY <1>9, <1>10, <1>12, <2>2
  <2> QED BY <1>5, <1>17, <2>3 DEF r
<1> QED BY <1>13, <1>14, <1>15, <1>16, <1>17

-----------------------------------------------------------------------------
(* The DMA table. *)

Segments == [hi : Nat, lo : Nat, len : Nat \ {0}]

PageFrames == [hi : Nat, no : Nat]

(* The first n units of a table are recorded in u.                         *)
UnitsUpTo(t, m, u) ==
  u = [n \in 0 .. m |-> IF n = 0 THEN <<>> ELSE u[n - 1] \o UnitsOf(t[n])]

(* ... which can be done for every table. *)
LEMMA UnitsExist ==
  ASSUME NEW t, NEW m \in Nat
  PROVE  \E u : UnitsUpTo(t, m, u)
PROOF
<1> DEFINE Bad == {n \in Nat : ~ \E u : UnitsUpTo(t, n, u)}
<1> SUFFICES ASSUME Bad # {} PROVE FALSE
  OBVIOUS
<1>1. PICK n \in Bad : \A k \in Bad : n <= k
  BY LeastNat
<1>2. n \in Nat /\ ~ \E u : UnitsUpTo(t, n, u)
  OBVIOUS
<1>3. n # 0
  <2> SUFFICES ASSUME n = 0 PROVE FALSE
    OBVIOUS
  <2> DEFINE u == [k \in 0 .. 0 |-> <<>>]
  <2>1. \A k \in 0 .. 0 : k = 0
    OBVIOUS
  <2>2. u = [k \in 0 .. 0 |-> IF k = 0 THEN <<>> ELSE u[k - 1] \o UnitsOf(t[k])]
    BY <2>1
  <2> QED BY <1>2, <2>2 DEF UnitsUpTo
<1>4. n - 1 \in Nat /\ n - 1 \notin Bad
  BY <1>1, <1>2, <1>3
<1>5. PICK u : UnitsUpTo(t, n - 1, u)
  BY <1>4
<1> DEFINE v == [k \in 0 .. n |-> IF k < n THEN u[k] ELSE u[n - 1] \o UnitsOf(t[n])]
<1>6. ASSUME NEW k \in 0 .. n
      PROVE  v[k] = IF k = 0 THEN <<>> ELSE v[k - 1] \o UnitsOf(t[k])
  <2>1. CASE k = n
    <3>1. v[k - 1] = u[n - 1] /\ v[k] = u[n - 1] \o UnitsOf(t[n])
      BY <1>2, <1>3, <2>1
    <3> HIDE DEF v
    <3> QED BY <1>3, <2>1, <3>1
  <2>2. CASE k < n
    <3>1. v[k] = u[k] /\ (k # 0 => v[k - 1] = u[k - 1])
      BY <1>2, <2>2
    <3>2. k \in 0 .. n - 1
      BY <1>2, <2>2
    <3>3. u[k] = IF k = 0 THEN <<>> ELSE u[k - 1] \o UnitsOf(t[k])
      BY <1>5, <3>2 DEF UnitsUpTo
    <3> HIDE DEF v
    <3> QED BY <3>1, <3>3
  <2> QED BY <1>2, <2>1, <2>2
<1>7. UnitsUpTo(t, n, v)
  <2>1. v = [k \in 0 .. n |-> v[k]]
    OBVIOUS
  <2> HIDE DEF v
  <2> QED BY <1>6, <2>1 DEF UnitsUpTo
<1> QED BY <1>2, <1>7

(* The units of a table are the last of the sequences Units builds up.     *)
LEMMA UnitsDef ==
  ASSUME NEW t, Len(t) \in Nat
  PROVE  \E u : UnitsUpTo(t, Len(t), u) /\ Units(t) = u[Len(t)]
PROOF
<1> DEFINE u == CHOOSE v : UnitsUpTo(t, Len(t), v)
<1>1. UnitsUpTo(t, Len(t), u)
  BY UnitsExist
<1>2. Units(t) = u[Len(t)]
  BY DEF Units, UnitsUpTo
<1> QED BY <1>1, <1>2

(* The units of a table that has one segment more. *)
LEMMA UnitsAppended ==
  ASSUME NEW t \in Seq(Segments), NEW e \in Segments
  PROVE  Units(Append(t, e)) = Units(t) \o UnitsOf(e)
PROOF
<1> DEFINE s == Append(t, e)
           m == Len(t)
<1>1. m \in Nat /\ Len(s) = m + 1 /\ s[m + 1] = e /\ \A k \in 1 .. m : s[k] = t[k]
  OBVIOUS
<1> HIDE DEF s
<1>2. PICK u : UnitsUpTo(t, m, u) /\ Units(t) = u[m]
  BY <1>1, UnitsDef
<1>3. PICK v : UnitsUpTo(s, m + 1, v) /\ Units(s) = v[m + 1]
  <2>1. Len(s) \in Nat
    BY <1>1
  <2> QED BY <1>1, <2>1, UnitsDef
<1> HIDE DEF m
<1>4. \A k \in 0 .. m : u[k] = IF k = 0 THEN <<>> ELSE u[k - 1] \o UnitsOf(t[k])
  BY <1>2 DEF UnitsUpTo
<1>5. \A k \in 0 .. m + 1 : v[k] = IF k = 0 THEN <<>> ELSE v[k - 1] \o UnitsOf(s[k])
  BY <1>3 DEF UnitsUpTo
<1>6. \A k \in 0 .. m : v[k] = u[k]
  <2> DEFINE Bad == {k \in 0 .. m : v[k] # u[k]}
  <2> SUFFICES ASSUME Bad # {} PROVE FALSE
    OBVIOUS
  <2>1. PICK k \in Bad : \A i \in Bad : k <= i
    <3>1. Bad \in SUBSET Nat
      BY <1>1
    <3> HIDE DEF Bad
    <3> QED BY <3>1, LeastNat
  <2>2. k \in 0 .. m /\ v[k] # u[k]
    OBVIOUS
  <2>3. k # 0
    BY <1>1, <1>4, <1>5, <2>2
  <2>4. k - 1 \in 0 .. m /\ v[k - 1] = u[k - 1]
    BY <1>1, <2>1, <2>2, <2>3
  <2>5. s[k] = t[k]
    BY <1>1, <2>2, <2>3
  <2>6. k \in 0 .. m + 1
    BY <1>1, <2>2
  <2>7. v[k] = v[k - 1] \o UnitsOf(s[k])
    BY <1>5, <2>3, <2>6, Zenon
  <2>8. u[k] = u[k - 1] \o UnitsOf(t[k])
    BY <1>4, <2>2, <2>3, Zenon
  <2> QED BY <2>2, <2>4, <2>5, <2>7, <2>8
<1>7. v[m + 1] = v[m] \o UnitsOf(e)
  <2>1. m + 1 \in 0 .. m + 1 /\ m + 1 # 0 /\ (m + 1) - 1 = m
    BY <1>1
  <2>2. v[m + 1] = v[(m + 1) - 1] \o UnitsOf(s[m + 1])
    BY <1>5, <2>1, Zenon
  <2> QED BY <1>1, <2>1, <2>2
<1>8. v[m] = u[m]
  BY <1>1, <1>6
<1> QED BY <1>2, <1>3, <1>7, <1>8 DEF s

(* An empty table has no units.                                            *)
LEMMA UnitsOfNone == Units(<<>>) = <<>>
PROOF
<1>1. PICK u : UnitsUpTo(<<>>, 0, u) /\ Units(<<>>) = u[0]
  BY UnitsDef
<1>2. u[0] = <<>>
  BY <1>1 DEF UnitsUpTo
<1> QED BY <1>1, <1>2

(* The pieces of a buffer: piece i has the units after the first ones of   *)
(* the buffer up to Covered(i), and lies within a page.                    *)
Covered(off, count, n, i) ==
  IF i = 0 THEN 0 ELSE IF i = n THEN count ELSE i * PageUnits - off

(* AtapiDmaSetup's pages are the pieces of the buffer, in order.           *)
LEMMA PiecesAre ==
  ASSUME NEW pages \in Seq(PageFrames), NEW off \in 0 .. PageUnits - 1, NEW count \in Nat \ {0},
         off + count <= Len(pages) * PageUnits
  PROVE  \E n \in Nat \ {0} :
           /\ Pieces(pages, off, count) \in [1 .. n -> Segments]
           /\ \A i \in 1 .. n : Covered(off, count, n, i) \in Nat /\ Covered(off, count, n, i - 1) \in Nat
           /\ \A i \in 1 .. n :
                LET e == Pieces(pages, off, count)[i]
                    from == Covered(off, count, n, i - 1)
                IN  /\ Covered(off, count, n, i) = from + e.len
                    /\ e.len <= PageUnits
                    /\ \A k \in 1 .. e.len :
                         Unit(e.hi, e.lo + k - 1) = UnitAt(pages, off + from + k - 1)
                    /\ e.len = 2 => e.lo % 2 = 0
PROOF
<1> USE DEF PageUnits
<1> DEFINE n == (off + count + PageUnits - 1) \div PageUnits
           from(i) == IF i = 1 THEN off ELSE 0
           to(i) == IF i = n THEN off + count - (n - 1) * PageUnits ELSE PageUnits
           P == [i \in 1 .. n |-> Segment(pages[i].hi, pages[i].no * PageUnits + from(i), to(i) - from(i))]
<1>1. Pieces(pages, off, count) = P
  BY DEF Pieces
<1>2. n \in Nat \ {0} /\ n <= Len(pages) /\ off + count - (n - 1) * 2 \in 1 .. 2
      /\ (n - 1) * 2 < off + count
  OBVIOUS
<1> HIDE DEF n
<1>3. ASSUME NEW i \in 1 .. n
      PROVE  LET e == P[i]
                 c == Covered(off, count, n, i - 1)
             IN  /\ e \in Segments /\ c \in Nat /\ Covered(off, count, n, i) \in Nat
                 /\ Covered(off, count, n, i) = c + e.len
                 /\ e.len <= PageUnits
                 /\ \A k \in 1 .. e.len : Unit(e.hi, e.lo + k - 1) = UnitAt(pages, off + c + k - 1)
                 /\ e.len = 2 => e.lo % 2 = 0
  <2>1. pages[i] \in PageFrames
    BY <1>2
  <2>2. P[i] = Segment(pages[i].hi, pages[i].no * PageUnits + from(i), to(i) - from(i))
    OBVIOUS
  <2>3. pages[i].hi \in Nat /\ pages[i].no \in Nat
    BY <2>1 DEF PageFrames
  <2>4. from(i) \in 0 .. 1 /\ to(i) \in 1 .. 2 /\ to(i) - from(i) \in 1 .. 2
    BY <1>2
  <2>5. off + Covered(off, count, n, i - 1) = (i - 1) * 2 + from(i)
    BY <1>2 DEF Covered
  <2>6. Covered(off, count, n, i) = Covered(off, count, n, i - 1) + to(i) - from(i)
    BY <1>2 DEF Covered
  <2>7. Covered(off, count, n, i - 1) \in Nat
    BY <1>2 DEF Covered
  <2> DEFINE e == P[i]
             c == Covered(off, count, n, i - 1)
  <2>8. e.hi = pages[i].hi /\ e.lo = pages[i].no * 2 + from(i) /\ e.len = to(i) - from(i)
    BY <2>2 DEF Segment
  <2>9. e \in Segments
    <3>1. e = [hi |-> pages[i].hi, lo |-> pages[i].no * 2 + from(i), len |-> to(i) - from(i)]
      BY <2>2 DEF Segment
    <3> HIDE DEF P, from, to
    <3>2. pages[i].no * 2 + from(i) \in Nat /\ to(i) - from(i) \in Nat \ {0}
      BY <2>3, <2>4
    <3> QED BY <2>3, <3>1, <3>2 DEF Segments
  <2> HIDE DEF P, c, from, to
  <2>10. ASSUME NEW k \in 1 .. e.len
         PROVE  Unit(e.hi, e.lo + k - 1) = UnitAt(pages, off + c + k - 1)
    <3>1. k \in 1 .. 2 /\ from(i) + k - 1 \in 0 .. 1
      BY <2>4, <2>8
    <3>2. off + c + k - 1 = (i - 1) * 2 + (from(i) + k - 1)
      BY <2>4, <2>5, <2>7, <3>1 DEF c
    <3>3. (off + c + k - 1) \div 2 = i - 1 /\ (off + c + k - 1) % 2 = from(i) + k - 1
      BY <1>2, <3>1, <3>2
    <3>4. (off + c + k - 1) \div 2 + 1 = i
      BY <1>2, <3>3
    <3>5. pages[i].no * 2 + (from(i) + k - 1) = e.lo + k - 1
      BY <2>3, <2>4, <2>8, <3>1
    <3> QED BY <2>8, <3>3, <3>4, <3>5 DEF UnitAt
  <2>11. e.len = 2 => e.lo % 2 = 0
    BY <2>3, <2>4, <2>8
  <2> QED BY <2>4, <2>6, <2>7, <2>8, <2>9, <2>10, <2>11 DEF c
<1>4. P \in [1 .. n -> Segments]
  BY <1>3
<1> HIDE DEF P
<1> QED BY <1>1, <1>2, <1>3, <1>4

(* The tables after each turn of the loop. *)
TablesUpTo(h, pieces, m, t) ==
  t = [n \in 0 .. m |-> IF n = 0 THEN <<>> ELSE AddPiece(h, t[n - 1], pieces[n])]

(* ... which can be built for any number of pieces. *)
LEMMA TablesExist ==
  ASSUME NEW h, NEW pieces, NEW m \in Nat
  PROVE  \E t : TablesUpTo(h, pieces, m, t)
PROOF
<1> DEFINE Bad == {n \in Nat : ~ \E t : TablesUpTo(h, pieces, n, t)}
<1> SUFFICES ASSUME Bad # {} PROVE FALSE
  OBVIOUS
<1>1. PICK n \in Bad : \A k \in Bad : n <= k
  BY LeastNat
<1>2. n \in Nat /\ ~ \E t : TablesUpTo(h, pieces, n, t)
  OBVIOUS
<1>3. n # 0
  <2> SUFFICES ASSUME n = 0 PROVE FALSE
    OBVIOUS
  <2> DEFINE t == [k \in 0 .. 0 |-> <<>>]
  <2>1. \A k \in 0 .. 0 : k = 0
    OBVIOUS
  <2>2. t = [k \in 0 .. 0 |-> IF k = 0 THEN <<>> ELSE AddPiece(h, t[k - 1], pieces[k])]
    BY <2>1
  <2> QED BY <1>2, <2>2 DEF TablesUpTo
<1>4. n - 1 \in Nat /\ n - 1 \notin Bad
  BY <1>1, <1>2, <1>3
<1>5. PICK t : TablesUpTo(h, pieces, n - 1, t)
  BY <1>4
<1> DEFINE v == [k \in 0 .. n |-> IF k < n THEN t[k] ELSE AddPiece(h, t[n - 1], pieces[n])]
<1>6. ASSUME NEW k \in 0 .. n
      PROVE  v[k] = IF k = 0 THEN <<>> ELSE AddPiece(h, v[k - 1], pieces[k])
  <2>1. CASE k = n
    <3>1. v[k - 1] = t[n - 1] /\ v[k] = AddPiece(h, t[n - 1], pieces[n])
      BY <1>2, <1>3, <2>1
    <3> HIDE DEF v
    <3> QED BY <1>3, <2>1, <3>1
  <2>2. CASE k < n
    <3>1. v[k] = t[k] /\ (k # 0 => v[k - 1] = t[k - 1])
      BY <1>2, <2>2
    <3>2. k \in 0 .. n - 1
      BY <1>2, <2>2
    <3>3. t[k] = IF k = 0 THEN <<>> ELSE AddPiece(h, t[k - 1], pieces[k])
      BY <1>5, <3>2 DEF TablesUpTo
    <3> HIDE DEF v
    <3> QED BY <3>1, <3>3
  <2> QED BY <1>2, <2>1, <2>2
<1>7. TablesUpTo(h, pieces, n, v)
  <2>1. v = [k \in 0 .. n |-> v[k]]
    OBVIOUS
  <2> HIDE DEF v
  <2> QED BY <1>6, <2>1 DEF TablesUpTo
<1> QED BY <1>2, <1>7

(* Tables is the sequence of the tables after each turn of the loop.       *)
LEMMA TablesDef ==
  ASSUME NEW h, NEW pieces, Len(pieces) \in Nat
  PROVE  TablesUpTo(h, pieces, Len(pieces), Tables(h, pieces))
PROOF
<1> DEFINE t == CHOOSE v : TablesUpTo(h, pieces, Len(pieces), v)
<1>1. TablesUpTo(h, pieces, Len(pieces), t)
  BY TablesExist
<1>2. Tables(h, pieces) = t
  BY DEF Tables, TablesUpTo
<1> QED BY <1>1, <1>2

-----------------------------------------------------------------------------
(* Merging. *)

(* What is assumed of a controller. *)
HostIs(h) ==
  /\ h.host64 \in BOOLEAN /\ h.max \in Nat \ {0} /\ h.frag \in Nat /\ h.frag >= PageUnits
  /\ h.bound \in Nat /\ h.bound % PageUnits = 0 /\ h.bounce \in Nat /\ h.longest \in Nat

(* The bus master can do an entry. *)
EntryFits(h, e) ==
  /\ e.len <= h.frag
  /\ h.bound # 0 => e.lo \div h.bound = (e.lo + e.len - 1) \div h.bound

(* A piece is in one page, and no boundary is within a page. *)
PieceOf(e) == e \in Segments /\ e.len <= PageUnits /\ (e.len = 2 => e.lo % 2 = 0)

(* An even number plus one is not a multiple of an even one. *)
LEMMA OddIsNoMultiple ==
  ASSUME NEW a \in Nat, NEW b \in Nat \ {0}, a % 2 = 0, b % 2 = 0
  PROVE  (a + 1) % b # 0
PROOF
<1>1. PICK c \in Nat : b = 2 * c
  BY b = 2 * (b \div 2), b \div 2 \in Nat
<1>2. PICK d \in Nat : a = 2 * d
  BY a = 2 * (a \div 2), a \div 2 \in Nat
<1> SUFFICES ASSUME (a + 1) % b = 0 PROVE FALSE
  OBVIOUS
<1>3. ((a + 1) \div b) * b = a + 1 /\ (a + 1) \div b \in Nat
  OBVIOUS
<1>4. PICK q \in Nat : q * b = a + 1
  BY <1>3
<1>5. 2 * (q * c) = 2 * d + 1
  BY <1>1, <1>2, <1>4
<1>6. q * c \in Nat
  OBVIOUS
<1> QED BY <1>5, <1>6

(* Where no multiple is stepped on, the quotient stays. *)
LEMMA QuotientStays ==
  ASSUME NEW a \in Nat, NEW b \in Nat \ {0}, (a + 1) % b # 0
  PROVE  (a + 1) \div b = a \div b
PROOF
  OBVIOUS

(* A piece is an entry the bus master can do. *)
LEMMA PieceFits ==
  ASSUME NEW h, HostIs(h), NEW e, PieceOf(e)
  PROVE  EntryFits(h, e)
PROOF
<1>1. e.lo \in Nat /\ e.len \in 1 .. 2 /\ e.len <= h.frag
  BY DEF PieceOf, Segments, HostIs, PageUnits
<1>2. ASSUME h.bound # 0
      PROVE  e.lo \div h.bound = (e.lo + e.len - 1) \div h.bound
  <2>1. CASE e.len = 1
    BY <1>1, <2>1
  <2>2. CASE e.len = 2
    <3>1. h.bound \in Nat \ {0} /\ h.bound % 2 = 0 /\ e.lo % 2 = 0
      BY <1>2, <2>2 DEF HostIs, PageUnits, PieceOf
    <3>2. (e.lo + 1) \div h.bound = e.lo \div h.bound
      BY <1>1, <3>1, OddIsNoMultiple, QuotientStays
    <3>3. e.lo + e.len - 1 = e.lo + 1
      BY <1>1, <2>2
    <3> QED BY <3>2, <3>3
  <2> QED BY <1>1, <2>1, <2>2
<1> QED BY <1>1, <1>2 DEF EntryFits

(* The units of a segment. *)
UnitSet == [hi : Nat, lo : Nat]

(* They are the units from its first one up. *)
LEMMA UnitsOfIs ==
  ASSUME NEW e \in Segments
  PROVE  /\ UnitsOf(e) \in Seq(UnitSet) /\ Len(UnitsOf(e)) = e.len
         /\ \A k \in 1 .. e.len : UnitsOf(e)[k] = Unit(e.hi, e.lo + k - 1)
PROOF
<1>1. e.hi \in Nat /\ e.lo \in Nat /\ e.len \in Nat
  BY DEF Segments
<1> DEFINE f == [i \in 1 .. e.len |-> Unit(e.hi, e.lo + i - 1)]
<1>2. ASSUME NEW i \in 1 .. e.len
      PROVE  Unit(e.hi, e.lo + i - 1) \in UnitSet
  <2>1. e.lo + i - 1 \in Nat
    BY <1>1
  <2> QED BY <1>1, <2>1 DEF Unit, UnitSet
<1>3. f \in [1 .. e.len -> UnitSet]
  BY <1>2
<1>4. \A k \in 1 .. e.len : f[k] = Unit(e.hi, e.lo + k - 1)
  OBVIOUS
<1> HIDE DEF f
<1>5. f \in Seq(UnitSet) /\ Len(f) = e.len
  BY <1>1, <1>3
<1> QED BY <1>4, <1>5 DEF UnitsOf, f

(* The elements of two sequences in a row. *)
LEMMA JoinedAre ==
  ASSUME NEW S, NEW s \in Seq(S), NEW t \in Seq(S)
  PROVE  /\ s \o t \in Seq(S) /\ Len(s \o t) = Len(s) + Len(t)
         /\ \A k \in 1 .. Len(s) : (s \o t)[k] = s[k]
         /\ \A k \in Len(s) + 1 .. Len(s) + Len(t) : (s \o t)[k] = t[k - Len(s)]
PROOF
  OBVIOUS

(* An entry that grows by a piece stays one, and has the units of both. *)
LEMMA MergedFits ==
  ASSUME NEW h, HostIs(h), NEW a \in Segments, EntryFits(h, a), NEW e, PieceOf(e),
         Merges(h, a, e), a.hi = e.hi
  PROVE  LET m == Segment(e.hi, a.lo, a.len + e.len)
         IN  m \in Segments /\ EntryFits(h, m) /\ UnitsOf(m) = UnitsOf(a) \o UnitsOf(e)
PROOF
<1> DEFINE m == Segment(e.hi, a.lo, a.len + e.len)
<1>1. /\ a.lo \in Nat /\ a.len \in Nat \ {0} /\ e.lo \in Nat /\ e.hi \in Nat /\ e.len \in 1 .. 2
      /\ e.lo = a.lo + a.len /\ a.len + e.len <= h.frag /\ (h.bound = 0 \/ e.lo % h.bound # 0)
  BY DEF Segments, PieceOf, Merges, PageUnits
<1>2. m.hi = e.hi /\ m.lo = a.lo /\ m.len = a.len + e.len
  BY DEF Segment
<1>3. m \in Segments
  BY <1>1 DEF Segment, Segments
<1> HIDE DEF m
<1>4. ASSUME h.bound # 0
      PROVE  m.lo \div h.bound = (m.lo + m.len - 1) \div h.bound
  <2>1. h.bound \in Nat \ {0}
    BY <1>4 DEF HostIs
  <2>2. a.lo \div h.bound = (e.lo - 1) \div h.bound
    <3>1. a.lo + a.len - 1 = e.lo - 1
      BY <1>1
    <3> QED BY <1>4, <3>1 DEF EntryFits
  <2>3. (e.lo - 1) \div h.bound = e.lo \div h.bound
    <3>1. e.lo - 1 \in Nat /\ (e.lo - 1) + 1 = e.lo
      BY <1>1
    <3>2. e.lo % h.bound # 0
      BY <1>1, <1>4
    <3> QED BY <2>1, <3>1, <3>2, QuotientStays
  <2>4. e.lo \div h.bound = (e.lo + e.len - 1) \div h.bound
    BY <1>4, PieceFits DEF EntryFits
  <2>5. m.lo + m.len - 1 = e.lo + e.len - 1
    BY <1>1, <1>2
  <2> QED BY <1>2, <2>2, <2>3, <2>4, <2>5
<1>5. EntryFits(h, m)
  BY <1>1, <1>2, <1>4 DEF EntryFits
<1>6. UnitsOf(m) = UnitsOf(a) \o UnitsOf(e)
  <2> DEFINE U == UnitsOf(a) \o UnitsOf(e)
  <2>1. e \in Segments
    BY DEF PieceOf
  <2>2. /\ UnitsOf(a) \in Seq(UnitSet) /\ Len(UnitsOf(a)) = a.len
        /\ UnitsOf(e) \in Seq(UnitSet) /\ Len(UnitsOf(e)) = e.len
        /\ UnitsOf(m) \in Seq(UnitSet) /\ Len(UnitsOf(m)) = a.len + e.len
    BY <1>2, <1>3, <2>1, UnitsOfIs
  <2>3. U \in Seq(UnitSet) /\ Len(U) = a.len + e.len
    BY <2>2, JoinedAre
  <2>4. ASSUME NEW k \in 1 .. a.len + e.len
        PROVE  U[k] = UnitsOf(m)[k]
    <3>1. UnitsOf(m)[k] = Unit(e.hi, a.lo + k - 1)
      BY <1>2, <1>3, UnitsOfIs
    <3>2. CASE k <= a.len
      <4>1. k \in 1 .. a.len
        BY <1>1, <3>2
      <4>2. U[k] = UnitsOf(a)[k]
        BY <2>2, <4>1, JoinedAre
      <4>3. UnitsOf(a)[k] = Unit(a.hi, a.lo + k - 1)
        BY <4>1, UnitsOfIs
      <4> QED BY <3>1, <4>2, <4>3
    <3>3. CASE k > a.len
      <4>1. k \in a.len + 1 .. a.len + e.len /\ k - a.len \in 1 .. e.len
        BY <1>1, <3>3
      <4>2. U[k] = UnitsOf(e)[k - a.len]
        BY <2>2, <4>1, JoinedAre
      <4>3. UnitsOf(e)[k - a.len] = Unit(e.hi, e.lo + (k - a.len) - 1)
        BY <2>1, <4>1, UnitsOfIs
      <4>4. e.lo + (k - a.len) - 1 = a.lo + k - 1
        BY <1>1
      <4> QED BY <3>1, <4>2, <4>3, <4>4
    <3>4. k <= a.len \/ k > a.len
      BY <1>1
    <3> QED BY <3>2, <3>3, <3>4, Zenon
  <2> HIDE DEF U
  <2>5. Len(UnitsOf(m)) = Len(U)
    BY <2>2, <2>3
  <2>6. \A k \in 1 .. Len(U) : U[k] = UnitsOf(m)[k]
    BY <2>3, <2>4
  <2>7. UnitsOf(m) = U
    BY <2>2, <2>3, <2>5, <2>6
  <2> QED BY <2>7 DEF U
<1> QED BY <1>3, <1>5, <1>6 DEF m

(* The units of a table are units. *)
LEMMA UnitsTyped ==
  ASSUME NEW t \in Seq(Segments)
  PROVE  Units(t) \in Seq(UnitSet)
PROOF
<1> DEFINE m == Len(t)
<1>1. m \in Nat
  OBVIOUS
<1>2. PICK u : UnitsUpTo(t, m, u) /\ Units(t) = u[m]
  BY <1>1, UnitsDef
<1> HIDE DEF m
<1>3. \A k \in 0 .. m : u[k] = IF k = 0 THEN <<>> ELSE u[k - 1] \o UnitsOf(t[k])
  BY <1>2 DEF UnitsUpTo
<1> DEFINE Bad == {k \in 0 .. m : u[k] \notin Seq(UnitSet)}
<1>4. CASE Bad = {}
  BY <1>1, <1>2, <1>4
<1>5. CASE Bad # {}
  <2>1. PICK k \in Bad : \A i \in Bad : k <= i
    <3>1. Bad \in SUBSET Nat
      BY <1>1
    <3> HIDE DEF Bad
    <3> QED BY <1>5, <3>1, LeastNat
  <2>2. k \in 0 .. m /\ u[k] \notin Seq(UnitSet)
    OBVIOUS
  <2>3. k # 0
    <3>1. u[0] = <<>>
      BY <1>1, <1>3
    <3>2. <<>> \in Seq(UnitSet)
      OBVIOUS
    <3> QED BY <2>2, <3>1, <3>2, Zenon
  <2>4. k - 1 \in 0 .. m /\ u[k - 1] \in Seq(UnitSet)
    BY <1>1, <2>1, <2>2, <2>3
  <2>5. u[k] = u[k - 1] \o UnitsOf(t[k])
    BY <1>3, <2>2, <2>3, Zenon
  <2>6. t[k] \in Segments
    BY <1>1, <2>2, <2>3 DEF m
  <2>7. UnitsOf(t[k]) \in Seq(UnitSet)
    BY <2>6, UnitsOfIs
  <2> QED BY <2>2, <2>4, <2>5, <2>7
<1> QED BY <1>4, <1>5

(* The table describes the first m units of a buffer below 4 GB, in        *)
(* entries the bus master can do.                                          *)
Describes(h, pages, off, m, t) ==
  /\ t \in Seq(Segments)
  /\ \A k \in 1 .. Len(t) : t[k].hi = 0 /\ EntryFits(h, t[k])
  /\ Len(Units(t)) = m
  /\ \A k \in 1 .. m : Units(t)[k] = UnitAt(pages, off + k - 1)

(* Every turn of the loop adds the units of its piece. *)
LEMMA OneTurn ==
  ASSUME NEW h, HostIs(h), NEW pages, NEW off \in Nat, NEW m \in Nat, NEW t,
         Describes(h, pages, off, m, t), NEW e, PieceOf(e), e.hi = 0,
         \A k \in 1 .. e.len : Unit(e.hi, e.lo + k - 1) = UnitAt(pages, off + m + k - 1)
  PROVE  /\ Describes(h, pages, off, m + e.len, AddPiece(h, t, e))
         /\ AddPiece(h, t, e) # <<>>
         /\ Len(AddPiece(h, t, e)) <= Len(t) + 1
PROOF
<1> DEFINE n == AddPiece(h, t, e)
<1>1. t \in Seq(Segments) /\ e \in Segments /\ e.len \in Nat
  BY DEF Describes, PieceOf, Segments
<1>2. EntryFits(h, e)
  BY PieceFits
<1>3. /\ n \in Seq(Segments) /\ n # <<>> /\ Len(n) <= Len(t) + 1
      /\ \A k \in 1 .. Len(n) : n[k].hi = 0 /\ EntryFits(h, n[k])
      /\ Units(n) = Units(t) \o UnitsOf(e)
  <2>1. CASE t # <<>> /\ Merges(h, Last(t), e)
    <3> DEFINE f == Front(t)
               a == Last(t)
               x == Segment(e.hi, a.lo, a.len + e.len)
    <3>1. /\ Len(t) \in Nat \ {0} /\ a = t[Len(t)] /\ a \in Segments
          /\ f \in Seq(Segments) /\ Len(f) = Len(t) - 1
          /\ \A k \in 1 .. Len(t) - 1 : f[k] = t[k]
      <4>1. Len(t) \in Nat \ {0}
        BY <1>1, <2>1
      <4>2. a = t[Len(t)]
        BY DEF Last
      <4>3. f = SubSeq(t, 1, Len(t) - 1)
        BY DEF Front
      <4> HIDE DEF f, a
      <4>4. a \in Segments
        BY <1>1, <4>1, <4>2
      <4>6. /\ f \in Seq(Segments) /\ Len(f) = Len(t) - 1
            /\ \A k \in 1 .. Len(t) - 1 : f[k] = t[k]
        <5>1. \A k \in 1 .. Len(t) - 1 : t[k] \in Segments
          BY <1>1, <4>1
        <5>2. /\ SubSeq(t, 1, Len(t) - 1) \in Seq(Segments)
              /\ Len(SubSeq(t, 1, Len(t) - 1)) =
                   IF 1 <= Len(t) - 1 THEN (Len(t) - 1) - 1 + 1 ELSE 0
              /\ \A k \in 1 .. (Len(t) - 1) - 1 + 1 :
                   SubSeq(t, 1, Len(t) - 1)[k] = t[1 + k - 1]
          BY <4>1, <5>1, SubSeqProperties
        <5>3. /\ f \in Seq(Segments)
              /\ Len(f) = IF 1 <= Len(t) - 1 THEN (Len(t) - 1) - 1 + 1 ELSE 0
              /\ \A k \in 1 .. (Len(t) - 1) - 1 + 1 : f[k] = t[1 + k - 1]
          BY <4>3, <5>2, Zenon
        <5>4. Len(f) = Len(t) - 1
          <6>1. CASE 1 <= Len(t) - 1
            <7>1. Len(f) = (Len(t) - 1) - 1 + 1
              BY <5>3, <6>1, Zenon
            <7> QED BY <4>1, <7>1
          <6>2. CASE ~(1 <= Len(t) - 1)
            <7>1. Len(f) = 0
              BY <5>3, <6>2, Zenon
            <7>2. \A i \in Nat \ {0} : i <= 1 => i - 1 = 0
              OBVIOUS
            <7>3. \A i \in Nat \ {0} : ~(1 <= i - 1) => i <= 1
              OBVIOUS
            <7> QED BY <4>1, <6>2, <7>1, <7>2, <7>3, Zenon
          <6> QED BY <6>1, <6>2
        <5>5. ASSUME NEW k \in 1 .. Len(t) - 1
              PROVE  f[k] = t[k]
          <6>1. k \in 1 .. (Len(t) - 1) - 1 + 1 /\ 1 + k - 1 = k
            BY <4>1
          <6>2. f[k] = t[1 + k - 1]
            BY <5>3, <6>1, Zenon
          <6> QED BY <6>1, <6>2
        <5> QED BY <5>3, <5>4, <5>5
      <4> QED BY <4>1, <4>2, <4>4, <4>6
    <3>2. t = Append(f, a)
      <4> HIDE DEF f, a
      <4>1. Append(f, a) \in Seq(Segments) /\ Len(Append(f, a)) = Len(t)
        BY <3>1
      <4>2. \A k \in 1 .. Len(t) : Append(f, a)[k] = t[k]
        BY <3>1
      <4> QED BY <1>1, <4>1, <4>2
    <3>3. n = Append(f, x)
      BY <2>1 DEF AddPiece
    <3>4. a.hi = 0 /\ EntryFits(h, a)
      BY <3>1 DEF Describes
    <3> HIDE DEF f, a, n
    <3>5. x \in Segments /\ EntryFits(h, x) /\ UnitsOf(x) = UnitsOf(a) \o UnitsOf(e)
      BY <2>1, <3>1, <3>4, MergedFits DEF a
    <3>6. x.hi = 0
      BY DEF Segment
    <3> HIDE DEF x
    <3>7. Units(n) = Units(f) \o UnitsOf(x) /\ Units(t) = Units(f) \o UnitsOf(a)
      BY <3>1, <3>2, <3>3, <3>5, UnitsAppended
    <3>8. Units(n) = Units(t) \o UnitsOf(e)
      <4>1. Units(f) \in Seq(UnitSet) /\ UnitsOf(a) \in Seq(UnitSet) /\ UnitsOf(e) \in Seq(UnitSet)
        BY <1>1, <3>1, UnitsTyped, UnitsOfIs
      <4> QED BY <3>5, <3>7, <4>1, ConcatAssociative, SMTT(20)
    <3>9. n \in Seq(Segments) /\ Len(n) = Len(t)
      BY <3>1, <3>3, <3>5
    <3>10. ASSUME NEW k \in 1 .. Len(n)
           PROVE  n[k].hi = 0 /\ EntryFits(h, n[k])
      <4>1. CASE k = Len(t)
        <5>1. n[k] = x
          BY <3>1, <3>3, <3>5, <4>1
        <5> QED BY <3>5, <3>6, <5>1
      <4>2. CASE k # Len(t)
        <5>1. k \in 1 .. Len(t) - 1
          BY <3>1, <3>9, <4>2
        <5>2. n[k] = t[k] /\ k \in 1 .. Len(t)
          BY <3>1, <3>3, <3>5, <5>1
        <5> QED BY <5>2 DEF Describes
      <4> QED BY <4>1, <4>2
    <3> QED BY <3>1, <3>8, <3>9, <3>10
  <2>2. CASE ~(t # <<>> /\ Merges(h, Last(t), e))
    <3>1. n = Append(t, e)
      BY <2>2 DEF AddPiece
    <3> HIDE DEF n
    <3>2. /\ n \in Seq(Segments) /\ n # <<>> /\ Len(n) = Len(t) + 1
          /\ n[Len(t) + 1] = e /\ \A k \in 1 .. Len(t) : n[k] = t[k]
      BY <1>1, <3>1
    <3>3. Units(n) = Units(t) \o UnitsOf(e)
      BY <1>1, <3>1, UnitsAppended
    <3>4. ASSUME NEW k \in 1 .. Len(n)
          PROVE  n[k].hi = 0 /\ EntryFits(h, n[k])
      <4>1. CASE k = Len(t) + 1
        BY <1>2, <3>2, <4>1
      <4>2. CASE k # Len(t) + 1
        <5>1. k \in 1 .. Len(t)
          BY <1>1, <3>2, <4>2
        <5> QED BY <3>2, <5>1 DEF Describes
      <4> QED BY <4>1, <4>2
    <3> QED BY <1>1, <3>2, <3>3, <3>4
  <2> QED BY <2>1, <2>2
<1> HIDE DEF n
<1>4. /\ Units(t) \in Seq(UnitSet) /\ UnitsOf(e) \in Seq(UnitSet)
      /\ Len(Units(t)) = m /\ Len(UnitsOf(e)) = e.len
  BY <1>1, UnitsTyped, UnitsOfIs DEF Describes
<1> DEFINE U == Units(t) \o UnitsOf(e)
<1>7. /\ Len(U) = m + e.len
      /\ \A k \in 1 .. m : U[k] = Units(t)[k]
      /\ \A k \in m + 1 .. m + e.len : U[k] = UnitsOf(e)[k - m]
  <2>1. /\ Len(U) = Len(Units(t)) + Len(UnitsOf(e))
        /\ \A k \in 1 .. Len(Units(t)) : U[k] = Units(t)[k]
        /\ \A k \in Len(Units(t)) + 1 .. Len(Units(t)) + Len(UnitsOf(e)) :
              U[k] = UnitsOf(e)[k - Len(Units(t))]
    BY <1>4, JoinedAre
  <2> HIDE DEF U
  <2> QED BY <1>4, <2>1
<1> HIDE DEF U
<1>8. Units(n) = U
  BY <1>3 DEF U
<1>5. Len(Units(n)) = m + e.len
  BY <1>7, <1>8
<1>6. ASSUME NEW k \in 1 .. m + e.len
      PROVE  Units(n)[k] = UnitAt(pages, off + k - 1)
  <2>1. CASE k <= m
    <3>1. k \in 1 .. m
      BY <1>1, <2>1
    <3>2. Units(n)[k] = Units(t)[k]
      BY <1>7, <1>8, <3>1
    <3> QED BY <3>1, <3>2 DEF Describes
  <2>2. CASE k > m
    <3>1. k \in m + 1 .. m + e.len /\ k - m \in 1 .. e.len
      BY <1>1, <2>2
    <3>2. Units(n)[k] = UnitsOf(e)[k - m]
      BY <1>7, <1>8, <3>1
    <3>3. UnitsOf(e)[k - m] = Unit(e.hi, e.lo + (k - m) - 1)
      BY <1>1, <3>1, UnitsOfIs
    <3>4. Unit(e.hi, e.lo + (k - m) - 1) = UnitAt(pages, off + m + (k - m) - 1)
      BY <3>1
    <3>5. off + m + (k - m) - 1 = off + k - 1
      BY <1>1
    <3> QED BY <3>2, <3>3, <3>4, <3>5
  <2> QED BY <1>1, <2>1, <2>2
<1> QED BY <1>3, <1>5, <1>6 DEF Describes, n

(* Every table of the loop is a sequence of segments. *)
LEMMA TablesTyped ==
  ASSUME NEW h, NEW p \in Seq(Segments), NEW i \in 0 .. Len(p)
  PROVE  Tables(h, p)[i] \in Seq(Segments)
PROOF
<1> DEFINE T == Tables(h, p)
           n == Len(p)
<1>1. n \in Nat
  OBVIOUS
<1>2. TablesUpTo(h, p, n, T)
  BY <1>1, TablesDef
<1> HIDE DEF T
<1>3. \A k \in 0 .. n : T[k] = IF k = 0 THEN <<>> ELSE AddPiece(h, T[k - 1], p[k])
  BY <1>2 DEF TablesUpTo
<1> DEFINE Bad == {k \in 0 .. n : T[k] \notin Seq(Segments)}
<1>4. CASE Bad = {}
  BY <1>4 DEF T
<1>5. CASE Bad # {}
  <2>1. PICK k \in Bad : \A j \in Bad : k <= j
    <3>1. Bad \in SUBSET Nat
      BY <1>1
    <3> HIDE DEF Bad
    <3> QED BY <1>5, <3>1, LeastNat
  <2>2. k \in 0 .. n /\ T[k] \notin Seq(Segments)
    OBVIOUS
  <2>3. k # 0
    <3>1. 0 \in 0 .. n
      BY <1>1
    <3>2. T[0] = <<>>
      BY <1>3, <3>1, Zenon
    <3>3. <<>> \in Seq(Segments)
      OBVIOUS
    <3> QED BY <2>2, <3>2, <3>3, Zenon
  <2> DEFINE t == T[k - 1]
             e == p[k]
  <2>4. t \in Seq(Segments)
    <3>1. k - 1 \in 0 .. n
      BY <1>1, <2>2, <2>3
    <3> HIDE DEF n
    <3> QED BY <1>1, <2>1, <2>2, <3>1
  <2>5. e \in Segments
    BY <2>2, <2>3
  <2>6. T[k] = AddPiece(h, t, e)
    BY <1>3, <2>2, <2>3, Zenon
  <2> HIDE DEF t, e
  <2>7. AddPiece(h, t, e) \in Seq(Segments)
    <3>1. CASE t # <<>> /\ Merges(h, Last(t), e)
      <4> DEFINE a == Last(t)
                 x == Segment(e.hi, a.lo, a.len + e.len)
      <4>1. a \in Segments
        BY <2>4, <3>1 DEF Last
      <4> HIDE DEF a
      <4>2. x \in Segments
        BY <2>5, <4>1 DEF Segment, Segments
      <4> HIDE DEF x
      <4>3. Front(t) \in Seq(Segments)
        BY <2>4, <3>1 DEF Front
      <4>4. AddPiece(h, t, e) = Append(Front(t), x)
        BY <3>1 DEF AddPiece, x, a
      <4> QED BY <4>2, <4>3, <4>4
    <3>2. CASE ~(t # <<>> /\ Merges(h, Last(t), e))
      <4>1. AddPiece(h, t, e) = Append(t, e)
        BY <3>2 DEF AddPiece
      <4> QED BY <2>4, <2>5, <4>1
    <3> QED BY <3>1, <3>2
  <2> QED BY <2>2, <2>6, <2>7
<1> QED BY <1>4, <1>5

(* Pieces of a buffer below 4 GB: piece i ends with unit c[i]. *)
Covers(pages, off, n, p, c) ==
  /\ n \in Nat \ {0} /\ p \in [1 .. n -> Segments] /\ c \in [0 .. n -> Nat] /\ c[0] = 0
  /\ \A i \in 1 .. n : /\ PieceOf(p[i]) /\ p[i].hi = 0
                        /\ c[i] = c[i - 1] + p[i].len
                        /\ \A k \in 1 .. p[i].len :
                             Unit(p[i].hi, p[i].lo + k - 1) =
                               UnitAt(pages, off + c[i - 1] + k - 1)

(* The loop describes the buffer as far as its pieces cover it. *)
LEMMA LoopDescribes ==
  ASSUME NEW h, HostIs(h), NEW pages, NEW off \in Nat, NEW n, NEW p, NEW c,
         Covers(pages, off, n, p, c)
  PROVE  /\ \A i \in 0 .. n : Describes(h, pages, off, c[i], Tables(h, p)[i])
         /\ \A i \in 1 .. n : /\ Tables(h, p)[i] # <<>>
                              /\ Len(Tables(h, p)[i]) <= Len(Tables(h, p)[i - 1]) + 1
         /\ Tables(h, p)[0] = <<>>
PROOF
<1> DEFINE T == Tables(h, p)
<1>0. /\ n \in Nat \ {0} /\ p \in [1 .. n -> Segments] /\ c \in [0 .. n -> Nat] /\ c[0] = 0
      /\ \A i \in 1 .. n : /\ PieceOf(p[i]) /\ p[i].hi = 0
                            /\ c[i] = c[i - 1] + p[i].len
                            /\ \A k \in 1 .. p[i].len :
                                 Unit(p[i].hi, p[i].lo + k - 1) =
                                   UnitAt(pages, off + c[i - 1] + k - 1)
  BY DEF Covers
<1>1. p \in Seq(Segments) /\ Len(p) = n
  BY <1>0
<1>2. TablesUpTo(h, p, n, T)
  BY <1>1, TablesDef
<1> HIDE DEF T
<1>3. \A k \in 0 .. n : T[k] = IF k = 0 THEN <<>> ELSE AddPiece(h, T[k - 1], p[k])
  BY <1>2 DEF TablesUpTo
<1>4. T[0] = <<>>
  BY <1>0, <1>3
<1>5. Describes(h, pages, off, c[0], T[0])
  <2>1. <<>> \in Seq(Segments) /\ Len(<<>>) = 0
    OBVIOUS
  <2>2. Len(Units(<<>>)) = 0
    BY UnitsOfNone, <2>1
  <2>3. 1 .. 0 = {}
    OBVIOUS
  <2>4. Describes(h, pages, off, 0, <<>>)
    BY <2>1, <2>2, <2>3 DEF Describes
  <2> QED BY <1>0, <1>4, <2>4
<1>6. ASSUME NEW i \in 1 .. n, Describes(h, pages, off, c[i - 1], T[i - 1])
      PROVE  /\ Describes(h, pages, off, c[i], T[i])
             /\ T[i] # <<>> /\ Len(T[i]) <= Len(T[i - 1]) + 1
  <2>1. T[i] = AddPiece(h, T[i - 1], p[i])
    <3>1. i \in 0 .. n /\ i # 0
      BY <1>0
    <3> QED BY <1>3, <3>1, Zenon
  <2>2. c[i - 1] \in Nat
    BY <1>0
  <2>3. /\ PieceOf(p[i]) /\ p[i].hi = 0
        /\ c[i] = c[i - 1] + p[i].len
        /\ \A k \in 1 .. p[i].len : Unit(p[i].hi, p[i].lo + k - 1) =
                                      UnitAt(pages, off + c[i - 1] + k - 1)
    BY <1>0
  <2>4. /\ Describes(h, pages, off, c[i - 1] + p[i].len, AddPiece(h, T[i - 1], p[i]))
        /\ AddPiece(h, T[i - 1], p[i]) # <<>>
        /\ Len(AddPiece(h, T[i - 1], p[i])) <= Len(T[i - 1]) + 1
    <3> DEFINE t == T[i - 1]
               e == p[i]
               m == c[i - 1]
    <3>1. m \in Nat /\ Describes(h, pages, off, m, t) /\ PieceOf(e) /\ e.hi = 0
      BY <1>6, <2>2, <2>3
    <3>2. \A k \in 1 .. e.len : Unit(e.hi, e.lo + k - 1) = UnitAt(pages, off + m + k - 1)
      BY <2>3
    <3>3. off \in Nat
      OBVIOUS
    <3> HIDE DEF t, e, m
    <3>4. /\ Describes(h, pages, off, m + e.len, AddPiece(h, t, e))
          /\ AddPiece(h, t, e) # <<>>
          /\ Len(AddPiece(h, t, e)) <= Len(t) + 1
      <4>1. HostIs(h)
        OBVIOUS
      <4> QED BY <3>1, <3>2, <3>3, <4>1, OneTurn
    <3> QED BY <3>4 DEF t, e, m
  <2> QED BY <2>1, <2>3, <2>4
<1> DEFINE Bad == {i \in 0 .. n : ~Describes(h, pages, off, c[i], T[i])}
<1>7. Bad = {}
  <2> SUFFICES ASSUME Bad # {} PROVE FALSE
    OBVIOUS
  <2>1. PICK i \in Bad : \A j \in Bad : i <= j
    <3>1. Bad \in SUBSET Nat
      BY <1>0
    <3> HIDE DEF Bad
    <3> QED BY <3>1, LeastNat
  <2>2. i \in 0 .. n /\ ~Describes(h, pages, off, c[i], T[i])
    OBVIOUS
  <2>3. i # 0
    BY <1>5, <2>2
  <2>4. i \in 1 .. n /\ i - 1 \in 0 .. n /\ ~(i <= i - 1)
    BY <1>0, <2>2, <2>3
  <2>5. Describes(h, pages, off, c[i - 1], T[i - 1])
    BY <2>1, <2>4, Zenon
  <2> QED BY <1>6, <2>2, <2>4, <2>5
<1>8. \A i \in 0 .. n : Describes(h, pages, off, c[i], T[i])
  BY <1>7
<1>9. \A i \in 1 .. n : T[i] # <<>> /\ Len(T[i]) <= Len(T[i - 1]) + 1
  <2>1. \A i \in 1 .. n : i - 1 \in 0 .. n
    BY <1>0
  <2> QED BY <1>6, <1>8, <2>1
<1> QED BY <1>4, <1>8, <1>9 DEF T

-----------------------------------------------------------------------------
(* The setup of a transfer. *)

(* The table t is what a transfer of count units from the pages needs. *)
TableOf(h, pages, off, count, t) ==
  /\ Units(t) = [k \in 1 .. count |-> UnitAt(pages, off + k - 1)]
  /\ Len(t) <= h.max
  /\ \A e \in Range(t) : EntryFits(h, e)

(* A table that is built from pages below 4 GB is what the transfer needs. *)
LEMMA BuildFits ==
  ASSUME NEW h, HostIs(h), NEW pages \in Seq(PageFrames), NEW off \in 0 .. PageUnits - 1,
         NEW count \in Nat \ {0}, off + count <= Len(pages) * PageUnits, NEW bounced,
         \A i \in 1 .. Len(Pieces(pages, off, count)) : Pieces(pages, off, count)[i].hi = 0
  PROVE  LET b == Build(h, Pieces(pages, off, count), bounced)
         IN  b = NoTable \/ (/\ b.ok = TRUE /\ b.bounced = bounced
                             /\ TableOf(h, pages, off, count, b.table))
PROOF
<1> DEFINE p == Pieces(pages, off, count)
           b == Build(h, p, bounced)
           T == Tables(h, p)
<1>1. PICK n \in Nat \ {0} :
        /\ p \in [1 .. n -> Segments]
        /\ \A i \in 1 .. n : Covered(off, count, n, i) \in Nat /\ Covered(off, count, n, i - 1) \in Nat
        /\ \A i \in 1 .. n :
             LET e == p[i]
                 from == Covered(off, count, n, i - 1)
             IN  /\ Covered(off, count, n, i) = from + e.len
                 /\ e.len <= PageUnits
                 /\ \A k \in 1 .. e.len :
                      Unit(e.hi, e.lo + k - 1) = UnitAt(pages, off + from + k - 1)
                 /\ e.len = 2 => e.lo % 2 = 0
  BY PiecesAre
<1>2. off \in Nat
  BY DEF PageUnits
<1>3. \A i \in 1 .. Len(p) : p[i].hi = 0
  OBVIOUS
<1> HIDE DEF p
<1>4. Len(p) = n /\ p \in Seq(Segments)
  BY <1>1
<1> DEFINE c == [i \in 0 .. n |-> Covered(off, count, n, i)]
<1>5. c \in [0 .. n -> Nat] /\ c[0] = 0 /\ c[n] = count
  <2>1. Covered(off, count, n, 0) = 0
    BY DEF Covered
  <2>2. Covered(off, count, n, n) = count
    BY <1>1 DEF Covered
  <2>3. \A i \in 0 .. n : Covered(off, count, n, i) \in Nat
    BY <1>1, <2>1
  <2> HIDE DEF c
  <2>4. c = [i \in 0 .. n |-> Covered(off, count, n, i)]
    BY DEF c
  <2> QED BY <1>1, <2>1, <2>2, <2>3, <2>4
<1>6. ASSUME NEW i \in 1 .. n
      PROVE  /\ PieceOf(p[i]) /\ p[i].hi = 0
             /\ c[i] = c[i - 1] + p[i].len
             /\ \A k \in 1 .. p[i].len :
                  Unit(p[i].hi, p[i].lo + k - 1) = UnitAt(pages, off + c[i - 1] + k - 1)
  <2>1. c[i] = Covered(off, count, n, i) /\ c[i - 1] = Covered(off, count, n, i - 1)
    BY <1>1
  <2> HIDE DEF c
  <2>2. p[i] \in Segments
    BY <1>1
  <2>3. PieceOf(p[i])
    BY <1>1, <2>2 DEF PieceOf
  <2>4. p[i].hi = 0
    BY <1>3, <1>4
  <2> QED BY <1>1, <2>1, <2>3, <2>4, SMTT(20)
<1> HIDE DEF c
<1>7. /\ \A i \in 0 .. n : Describes(h, pages, off, c[i], T[i])
      /\ \A i \in 1 .. n : T[i] # <<>> /\ Len(T[i]) <= Len(T[i - 1]) + 1
      /\ T[0] = <<>>
  <2>1. \A i \in 1 .. n :
          /\ PieceOf(p[i]) /\ p[i].hi = 0
          /\ c[i] = c[i - 1] + p[i].len
          /\ \A k \in 1 .. p[i].len :
               Unit(p[i].hi, p[i].lo + k - 1) = UnitAt(pages, off + c[i - 1] + k - 1)
    BY <1>6
  <2>2. Covers(pages, off, n, p, c)
    BY <1>1, <1>5, <2>1 DEF Covers
  <2> HIDE DEF T
  <2>3. /\ \A i \in 0 .. n : Describes(h, pages, off, c[i], Tables(h, p)[i])
        /\ \A i \in 1 .. n : /\ Tables(h, p)[i] # <<>>
                             /\ Len(Tables(h, p)[i]) <= Len(Tables(h, p)[i - 1]) + 1
        /\ Tables(h, p)[0] = <<>>
    BY <1>2, <2>2, LoopDescribes
  <2> QED BY <2>3 DEF T
<1> HIDE DEF T, b
<1>8. CASE Full(h, p)
  BY <1>8 DEF Build, b, p
<1>9. CASE ~Full(h, p)
  <2> DEFINE t == T[n]
  <2>1. b = [ok |-> TRUE, table |-> t, bounced |-> bounced]
    BY <1>4, <1>9 DEF Build, b, T
  <2>2. Describes(h, pages, off, count, t)
    BY <1>1, <1>5, <1>7
  <2>3. Len(t) <= Len(T[n - 1]) + 1
    BY <1>1, <1>7
  <2>4. Len(T[n - 1]) \in Nat /\ Len(t) \in Nat
    <3>1. T[n - 1] \in Seq(Segments) /\ T[n] \in Seq(Segments)
      <4>1. n - 1 \in 0 .. n /\ n \in 0 .. n
        BY <1>1
      <4> QED BY <1>7, <4>1 DEF Describes
    <3> QED BY <3>1
  <2>5. h.max \in Nat \ {0}
    BY DEF HostIs
  <2>6. Len(t) <= h.max
    <3>1. CASE n = 1
      <4>1. Len(T[n - 1]) = 0
        BY <1>7, <3>1
      <4> QED BY <2>3, <2>4, <2>5, <4>1
    <3>2. CASE n # 1
      <4>1. n - 1 \in 1 .. Len(p) - 1
        BY <1>1, <1>4, <3>2
      <4>2. ~(Len(T[n - 1]) >= h.max)
        BY <1>9, <4>1 DEF Full, T
      <4> QED BY <2>3, <2>4, <2>5, <4>2
    <3> QED BY <3>1, <3>2
  <2> HIDE DEF t
  <2>7. TableOf(h, pages, off, count, t)
    <3>1. t \in Seq(Segments)
      BY <2>2 DEF Describes
    <3>2. Units(t) \in Seq(UnitSet) /\ Len(Units(t)) = count
      BY <2>2, <3>1, UnitsTyped DEF Describes
    <3>3. Units(t) = [k \in 1 .. count |-> Units(t)[k]]
      BY <3>2
    <3>4. \A k \in 1 .. count : Units(t)[k] = UnitAt(pages, off + k - 1)
      BY <2>2 DEF Describes
    <3>5. Units(t) = [k \in 1 .. count |-> UnitAt(pages, off + k - 1)]
      BY <3>3, <3>4
    <3>6. \A e \in Range(t) : EntryFits(h, e)
      <4>1. \A k \in DOMAIN t : EntryFits(h, t[k])
        <5>1. DOMAIN t = 1 .. Len(t)
          BY <3>1
        <5>2. \A k \in 1 .. Len(t) : EntryFits(h, t[k])
          BY <2>2 DEF Describes
        <5> QED BY <5>1, <5>2
      <4> QED BY <4>1 DEF Range
    <3> QED BY <2>6, <3>5, <3>6 DEF TableOf
  <2> QED BY <2>1, <2>7 DEF b, p
<1> QED BY <1>8, <1>9

DmaTables == [ok : BOOLEAN, table : Seq(Segments), bounced : BOOLEAN]

(* A table has its type whatever pages it is built from. *)
LEMMA BuildTyped ==
  ASSUME NEW h, NEW p \in Seq(Segments), NEW bounced \in BOOLEAN
  PROVE  Build(h, p, bounced) \in DmaTables /\ NoTable \in DmaTables
PROOF
<1>1. NoTable \in DmaTables
  BY DEF NoTable, DmaTables
<1> DEFINE t == Tables(h, p)[Len(p)]
<1>2. t \in Seq(Segments)
  BY TablesTyped
<1> HIDE DEF t
<1>3. [ok |-> TRUE, table |-> t, bounced |-> bounced] \in DmaTables
  BY <1>2 DEF DmaTables
<1>4. Build(h, p, bounced) \in {NoTable, [ok |-> TRUE, table |-> t, bounced |-> bounced]}
  BY DEF Build, t
<1> QED BY <1>1, <1>3, <1>4

(* The bounce buffer is as good as any. *)
LEMMA BounceFits ==
  ASSUME NEW h, HostIs(h), NEW count \in Nat \ {0}
  PROVE  LET b == Build(h, BouncePieces(h, count), TRUE)
         IN  /\ b \in DmaTables
             /\ b = NoTable \/ (/\ b.ok = TRUE /\ b.bounced = TRUE
                                /\ Units(b.table) = [k \in 1 .. count |-> Unit(0, h.bounce * PageUnits + k - 1)]
                                /\ Len(b.table) <= h.max
                                /\ \A e \in Range(b.table) : EntryFits(h, e))
PROOF
<1> DEFINE pages == [i \in 1 .. count |-> [hi |-> 0, no |-> h.bounce + i - 1]]
           p == Pieces(pages, 0, count)
           b == Build(h, p, TRUE)
<1>1. BouncePieces(h, count) = p
  BY DEF BouncePieces
<1>2. h.bounce \in Nat
  BY DEF HostIs
<1>3. \A i \in 1 .. count : pages[i] = [hi |-> 0, no |-> h.bounce + i - 1]
  OBVIOUS
<1>4. pages \in Seq(PageFrames) /\ Len(pages) = count
  <2>1. \A i \in 1 .. count : [hi |-> 0, no |-> h.bounce + i - 1] \in PageFrames
    BY <1>2 DEF PageFrames
  <2>2. pages \in [1 .. count -> PageFrames]
    BY <2>1
  <2> HIDE DEF pages
  <2> QED BY <2>2
<1> HIDE DEF pages
<1>5. 0 \in 0 .. PageUnits - 1 /\ 0 + count <= Len(pages) * PageUnits
  BY <1>4 DEF PageUnits
<1>6. PICK n \in Nat \ {0} : p \in [1 .. n -> Segments]
  BY <1>4, <1>5, PiecesAre
<1>7. \A i \in 1 .. Len(p) : p[i].hi = 0
  <2> DEFINE m == (0 + count + PageUnits - 1) \div PageUnits
  <2>1. m <= count /\ m \in Nat
    BY DEF PageUnits
  <2> HIDE DEF m
  <2>2. p = [i \in 1 .. m |-> Segment(pages[i].hi,
                pages[i].no * PageUnits + (IF i = 1 THEN 0 ELSE 0),
                (IF i = m THEN 0 + count - (m - 1) * PageUnits ELSE PageUnits)
                  - (IF i = 1 THEN 0 ELSE 0))]
    BY DEF Pieces, m
  <2> HIDE DEF p
  <2>3. Len(p) = m
    BY <2>1, <2>2
  <2> SUFFICES ASSUME NEW i \in 1 .. m PROVE p[i].hi = 0
    BY <2>3
  <2>4. p[i].hi = pages[i].hi
    BY <2>2 DEF Segment
  <2>5. i \in 1 .. count
    BY <2>1
  <2>6. pages[i] = [hi |-> 0, no |-> h.bounce + i - 1]
    BY <1>3, <2>5, Zenon
  <2> QED BY <2>4, <2>6
<1>8. b = NoTable \/ (/\ b.ok = TRUE /\ b.bounced = TRUE
                      /\ TableOf(h, pages, 0, count, b.table))
  <2>1. pages \in Seq(PageFrames) /\ count \in Nat \ {0} /\ HostIs(h)
    BY <1>4
  <2> QED BY <2>1, <1>5, <1>7, BuildFits, Zenon
<1>9. [k \in 1 .. count |-> UnitAt(pages, 0 + k - 1)] =
        [k \in 1 .. count |-> Unit(0, h.bounce * PageUnits + k - 1)]
  <2> SUFFICES ASSUME NEW k \in 1 .. count
               PROVE  UnitAt(pages, 0 + k - 1) = Unit(0, h.bounce * PageUnits + k - 1)
    OBVIOUS
  <2> DEFINE i == (0 + k - 1) \div PageUnits + 1
  <2>1. i \in 1 .. count
    BY DEF PageUnits
  <2>2. (h.bounce + i - 1) * PageUnits + ((0 + k - 1) % PageUnits) = h.bounce * PageUnits + k - 1
    BY <1>2 DEF PageUnits
  <2>3. UnitAt(pages, 0 + k - 1) = Unit(pages[i].hi, pages[i].no * PageUnits + ((0 + k - 1) % PageUnits))
    BY DEF UnitAt
  <2> HIDE DEF i
  <2>4. pages[i].hi = 0 /\ pages[i].no = h.bounce + i - 1
    <3>1. pages[i] = [hi |-> 0, no |-> h.bounce + i - 1]
      BY <1>3, <2>1, Zenon
    <3> QED BY <3>1
  <2> QED BY <2>2, <2>3, <2>4
<1>10. b \in DmaTables
  <2>1. p \in Seq(Segments)
    BY <1>6
  <2> HIDE DEF p
  <2> QED BY <2>1, BuildTyped
<1> HIDE DEF b
<1> QED BY <1>1, <1>8, <1>9, <1>10 DEF TableOf, b

(* A setup gives a typed table, and without 64 bit addresses it gives one  *)
(* for the buffer or for the bounce buffer, or none.                       *)
LEMMA SetupIs ==
  ASSUME NEW h, HostIs(h), NEW pages \in Seq(PageFrames), NEW off \in 0 .. PageUnits - 1,
         NEW count \in Nat \ {0}, off + count <= Len(pages) * PageUnits
  PROVE  LET s == Setup(h, pages, off, count, TRUE)
         IN  /\ s \in DmaTables
             /\ s.ok /\ ~h.host64 =>
                  /\ Units(s.table) = [k \in 1 .. count |->
                       IF s.bounced THEN Unit(0, h.bounce * PageUnits + k - 1)
                       ELSE UnitAt(pages, off + k - 1)]
                  /\ Len(s.table) <= h.max
                  /\ \A e \in Range(s.table) : EntryFits(h, e)
PROOF
<1> DEFINE p == Pieces(pages, off, count)
           high == SelectInSeq(p, LAMBDA e : e.hi # 0)
           s == Setup(h, pages, off, count, TRUE)
           Good(x) == x.ok /\ ~h.host64 =>
                  /\ Units(x.table) = [k \in 1 .. count |->
                       IF x.bounced THEN Unit(0, h.bounce * PageUnits + k - 1)
                       ELSE UnitAt(pages, off + k - 1)]
                  /\ Len(x.table) <= h.max
                  /\ \A e \in Range(x.table) : EntryFits(h, e)
<1>1. PICK n \in Nat \ {0} : p \in [1 .. n -> Segments]
  BY PiecesAre
<1>2. p \in Seq(Segments)
  BY <1>1
<1>3. s \in {NoTable, Build(h, p, FALSE), Build(h, BouncePieces(h, count), TRUE)}
  BY DEF Setup
<1>4. s = Build(h, p, FALSE) => s = NoTable \/ h.host64 \/ high = 0 \/ s = Build(h, BouncePieces(h, count), TRUE)
  BY DEF Setup
<1>5. ASSUME high = 0
      PROVE  \A i \in 1 .. Len(p) : p[i].hi = 0
  <2> HIDE DEF p
  <2> DEFINE I == {i \in 1 .. Len(p) : p[i].hi # 0}
  <2>1. high = IF I # {} THEN Min(I) ELSE 0
    BY DEF SelectInSeq
  <2>2. CASE I = {}
    BY <2>2
  <2>3. CASE I # {}
    <3>1. I \in SUBSET Nat
      BY <1>2
    <3> HIDE DEF I
    <3>2. \E i \in I : \A j \in I : i <= j
      BY <2>3, <3>1, LeastNat
    <3>3. high \in I
      BY <2>1, <2>3, <3>2 DEF Min
    <3> QED BY <1>5, <3>3 DEF I
  <2> QED BY <2>2, <2>3
<1> HIDE DEF p, high, s
<1>6. NoTable \in DmaTables /\ Good(NoTable)
  BY <1>2, BuildTyped DEF NoTable
<1> DEFINE q == Build(h, p, FALSE)
           r == Build(h, BouncePieces(h, count), TRUE)
<1>7. q \in DmaTables
  BY <1>2, BuildTyped
<1>8. r \in DmaTables /\ Good(r)
  <2>1. /\ r \in DmaTables
        /\ r = NoTable \/ (/\ r.ok = TRUE /\ r.bounced = TRUE
                           /\ Units(r.table) = [k \in 1 .. count |-> Unit(0, h.bounce * PageUnits + k - 1)]
                           /\ Len(r.table) <= h.max
                           /\ \A e \in Range(r.table) : EntryFits(h, e))
    BY BounceFits
  <2> HIDE DEF r
  <2>2. CASE r = NoTable
    BY <1>6, <2>2
  <2>3. CASE r # NoTable
    BY <2>1, <2>3
  <2> QED BY <2>1, <2>2, <2>3
<1>9. CASE s = q
  <2>1. CASE s = NoTable \/ s = r
    BY <1>6, <1>8, <2>1 DEF s
  <2>2. CASE h.host64
    BY <1>7, <1>9, <2>2 DEF s
  <2>3. CASE high = 0
    <3>1. q = NoTable \/ (/\ q.ok = TRUE /\ q.bounced = FALSE
                          /\ TableOf(h, pages, off, count, q.table))
      BY <1>5, <2>3, BuildFits DEF p
    <3> HIDE DEF q
    <3>2. CASE q = NoTable
      BY <1>6, <1>9, <3>2 DEF s
    <3>3. CASE q # NoTable
      BY <1>7, <1>9, <3>1, <3>3 DEF s, TableOf
    <3> QED BY <3>2, <3>3
  <2> QED BY <1>4, <1>9, <2>1, <2>2, <2>3
<1>10. CASE s = NoTable \/ s = r
  BY <1>6, <1>8, <1>10 DEF s
<1> QED BY <1>3, <1>9, <1>10

-----------------------------------------------------------------------------
(* The inductive invariant.  Its parts have parameters, so that each can   *)
(* be stated of a state and of the next one: a case c, settings l, flags   *)
(* f, a request q and what is on the medium m.                             *)

(* The settings never name a DMA mode when the channel has none; a DMA     *)
(* mode suits the drive, or is going to be set again.                      *)
LunGood(c, l) ==
  /\ l \in Settings
  /\ l.top \in {c.top, Lower(c.top, PIO0 + 4)}
  /\ c.top < DMA => l.mode < DMA /\ l.limit < DMA
  /\ l.mode >= DMA => l.reinit \/ (l.drive >= DMA /\ Suited(c.x, l))

Regs(c) == IF c.lba THEN [lba : Nat] ELSE [cyl : Nat, sector : Nat \ {0}]

Back(c, r) == IF c.lba THEN r.lba ELSE r.cyl * Track + r.sector - 1

Active == {"QUEUED", "READY", "EXPECTING", "NEXT"}

Asked(c) ==
  [state : Active \cup {"COMPLETE"}, first : Nat, count : Nat \ {0}, high : BOOLEAN,
   retry : 0 .. MaxRetries + 1, force : BOOLEAN, dma : BOOLEAN, done : Nat, left : Nat,
   lba : Regs(c), bcount : Nat, table : DmaTables, from : Nat, copied : Nat, ok : BOOLEAN,
   last : PIO .. SA150]

FlagsGood(c, f, q) ==
  /\ f \in [init : BOOLEAN, removable : BOOLEAN, noLba48 : BOOLEAN,
            errRetry : 0 .. MaxRetries, errLba : Regs(c), errCount : Nat,
            dmaActive : BOOLEAN]
  /\ f.dmaActive => q.state = "EXPECTING" /\ q.dma
  /\ ~f.init => q = NoReq

(* A request with a part in hand has something left to do, and one that    *)
(* was retried is to run in the mode its retry count says.                 *)
Counted(c, q) ==
  /\ q.state \in Active => /\ q.done < q.count /\ q.retry <= MaxRetries
                           /\ q.retry > 0 => q.force
                           /\ ~q.ok
  /\ q.state \in {"READY", "EXPECTING"} =>
       q.bcount \in 1 .. q.count - q.done /\ q.left = q.bcount
  /\ c.top < DMA => ~q.dma

(* A command that is running: the last retry of a request is in PIO. *)
Running(c, l, q) ==
  q.state = "EXPECTING" =>
    /\ q.last = l.mode
    /\ q.dma => /\ l.mode >= DMA /\ l.drive >= DMA /\ Suited(c.x, l)
                /\ q.retry # MaxRetries - 1
    /\ ~q.dma => l.mode < DMA

(* What has been put on the medium, and where the part in hand begins. *)
Put(q, n) == [k \in 1 .. n |-> <<q.first + k - 1, k>>]

Plain(c) == c.lba \/ c.top < DMA

Written(c, q, m) ==
  Plain(c) =>
    /\ q.state \in Active => m = Put(q, q.done)
    /\ q.state = "QUEUED" => q.done = 0
    /\ q.state = "NEXT" => /\ ~c.lba /\ q.done > 0
                           /\ Back(c, q.lba) + q.bcount = q.first + q.done
    /\ q.state \in {"READY", "EXPECTING"} => Back(c, q.lba) = q.first + q.done
    /\ q.state = "COMPLETE" /\ q.ok => m = Put(q, q.count)

(* With LBA a request is one part, and its table is made once. *)
Tabled(c, q) ==
  c.lba =>
    /\ q.state \in Active => q.done = 0 /\ q.from = 0 /\ q.copied = 0
    /\ q.state \in {"READY", "EXPECTING"} => q.bcount = q.count
    /\ q.table \in {NoTable, Setup(c.h, c.pages, c.off, q.count, TRUE)}
    /\ q.state \in {"READY", "EXPECTING"} /\ q.dma => q.table.ok

(* FailedInPio, of a request. *)
GivenUp(q) == q.state = "COMPLETE" /\ ~q.ok /\ q.retry <= MaxRetries => q.last < DMA

ReqGood(c, l, q, m) ==
  /\ q \in Asked(c) /\ c.off + q.count <= Len(c.pages) * PageUnits
  /\ Counted(c, q) /\ Running(c, l, q) /\ Written(c, q, m) /\ Tabled(c, q) /\ GivenUp(q)

IInv ==
  /\ case \in Cases
  /\ LunGood(case, lun) /\ FlagsGood(case, flags, req)
  /\ req = NoReq \/ ReqGood(case, lun, req, medium)

-----------------------------------------------------------------------------
(* What the assumption on the cases says of one. *)
LEMMA CaseIs ==
  ASSUME NEW c \in Cases
  PROVE  /\ c.x \in Controllers /\ c.d \in Drives /\ c.top \in PIO .. SA150
         /\ c.x.family \in {"aliold", "viabar", "serverworks"} => c.top # UDMA6
         /\ c.lba \in BOOLEAN /\ c.no80 \in BOOLEAN /\ c.removable \in BOOLEAN
         /\ HostIs(c.h) /\ c.pages \in Seq(PageFrames) /\ c.off \in 0 .. PageUnits - 1
PROOF
<1>1. /\ c.x \in Controllers /\ c.d \in Drives /\ c.top \in PIO .. SA150
      /\ c.x.family \in {"aliold", "viabar", "serverworks"} => c.top # UDMA6
      /\ {c.lba, c.no80, c.removable, c.h.host64} \subseteq BOOLEAN
      /\ {c.h.max, c.h.frag, c.h.bound, c.h.bounce, c.h.longest} \subseteq Nat
      /\ c.h.max > 0 /\ c.h.frag >= PageUnits /\ c.h.bound % PageUnits = 0
      /\ c.pages \in Seq(PageFrames)
      /\ c.off \in 0 .. PageUnits - 1
  BY CasesAssumption DEF PageFrames
<1>2. c.lba \in BOOLEAN /\ c.no80 \in BOOLEAN /\ c.removable \in BOOLEAN /\ c.h.host64 \in BOOLEAN
  BY <1>1, Zenon
<1>3. /\ c.h.max \in Nat /\ c.h.frag \in Nat /\ c.h.bound \in Nat /\ c.h.bounce \in Nat
      /\ c.h.longest \in Nat
  BY <1>1, Zenon
<1>4. HostIs(c.h)
  <2>1. c.h.max \in Nat \ {0}
    BY <1>1, <1>3
  <2> QED BY <1>1, <1>2, <1>3, <2>1 DEF HostIs
<1> QED BY <1>1, <1>2, <1>4

(* The registers of a block lead back to it. *)
LEMMA RegsAre ==
  ASSUME case \in Cases
  PROVE  /\ \A b \in Nat : LBARegs(b) \in Regs(case) /\ Back(case, LBARegs(b)) = b
         /\ \A r \in Regs(case) : Back(case, r) \in Nat
         /\ \A r : Back(case, r) = LBARegsBack(r)
         /\ \A b \in Nat, n \in Nat \ {0} : /\ MaxCount(b, n) \in 1 .. n
                                            /\ case.lba => MaxCount(b, n) = n
PROOF
<1>1. case.lba \in BOOLEAN /\ Track \in Nat \ {0}
  BY CaseIs, DiskAssumption
<1>2. \A r : Back(case, r) = LBARegsBack(r)
  BY DEF Back, LBARegsBack
<1>3. CASE case.lba
  BY <1>2, <1>3 DEF LBARegs, Regs, Back, MaxCount
<1>4. CASE ~case.lba
  <2>1. ASSUME NEW b \in Nat
        PROVE  LBARegs(b) \in Regs(case) /\ Back(case, LBARegs(b)) = b
    <3>1. /\ b \div Track \in Nat /\ b % Track \in 0 .. Track - 1
          /\ (b \div Track) * Track + (b % Track) = b
      BY <1>1
    <3>2. LBARegs(b) = [cyl |-> b \div Track, sector |-> (b % Track) + 1]
      BY <1>4 DEF LBARegs
    <3>3. (b % Track) + 1 \in Nat \ {0} /\ (b % Track) + 1 - 1 = b % Track
      BY <1>1, <3>1
    <3>4. LBARegs(b) \in Regs(case)
      BY <1>4, <3>1, <3>2, <3>3 DEF Regs
    <3>5. Back(case, LBARegs(b)) = (b \div Track) * Track + ((b % Track) + 1) - 1
      BY <1>4, <3>2 DEF Back
    <3>6. Back(case, LBARegs(b)) = (b \div Track) * Track + (b % Track)
      BY <1>1, <3>1, <3>5
    <3> QED BY <3>1, <3>4, <3>6
  <2>2. ASSUME NEW r \in Regs(case)
        PROVE  Back(case, r) \in Nat
    <3>1. r.cyl \in Nat /\ r.sector \in Nat \ {0}
      BY <1>4 DEF Regs
    <3>2. r.cyl * Track \in Nat
      BY <1>1, <3>1
    <3>3. r.cyl * Track + r.sector - 1 \in Nat
      BY <3>1, <3>2
    <3> QED BY <1>4, <3>3 DEF Back
  <2>3. ASSUME NEW b \in Nat, NEW n \in Nat \ {0}
        PROVE  MaxCount(b, n) \in 1 .. n
    <3>1. b % Track \in 0 .. Track - 1
      BY <1>1
    <3> QED BY <1>1, <1>4, <3>1 DEF MaxCount, Lower
  <2> QED BY <1>2, <1>4, <2>1, <2>2, <2>3
<1> QED BY <1>1, <1>3, <1>4

(* The settings are good, and a DMA mode is one of those asked for. *)
Legal(c, w, u, r) ==
  /\ LunGood(c, r) /\ r.reinit = FALSE
  /\ r.mode >= DMA => (w >= 0 \/ u >= 0) /\ r.drive >= DMA /\ Suited(c.x, r)
  /\ c.top < DMA => r.mode < DMA

(* AtapiDmaInit keeps the settings good. *)
LEMMA DmaInitGood ==
  ASSUME NEW c \in Cases, NEW l, l \in Settings, l.top \in {c.top, Lower(c.top, PIO0 + 4)},
         c.top < DMA => l.limit < DMA,
         NEW p0 \in -8 .. 5, NEW w0 \in -1 .. 2, NEW u0 \in -1 .. 6, NEW idle \in BOOLEAN
  PROVE  Legal(c, w0, u0, DmaInit(c.x, c.d, l, p0, w0, u0, idle))
PROOF
<1> DEFINE r == DmaInit(c.x, c.d, l, p0, w0, u0, idle)
           any == (w0 >= 0 \/ u0 >= 0) /\ l.top >= DMA /\ l.limit >= DMA
<1>1. /\ c.x \in Controllers /\ c.d \in Drives /\ c.top \in PIO .. SA150
      /\ c.x.family \in {"aliold", "viabar", "serverworks"} => c.top # UDMA6
  BY CaseIs
<1>2. c.x.family \in {"aliold", "viabar", "serverworks"} => l.top # UDMA6
  BY <1>1 DEF Lower
<1>3. Chosen(c.x, any, l, r)
  BY <1>1, <1>2, DmaInitIs
<1>4. c.top < DMA => ~any
  BY <1>1 DEF Settings
<1>5. any => w0 >= 0 \/ u0 >= 0
  OBVIOUS
<1> HIDE DEF r, any
<1>6. /\ r \in Settings /\ r.limit = l.limit /\ r.reinit = FALSE
      /\ r.top \in {l.top, Lower(l.top, PIO0 + 4)}
      /\ r.mode >= DMA => any /\ r.drive >= DMA /\ Suited(c.x, r)
  BY <1>3 DEF Chosen
<1>7. r.top \in {c.top, Lower(c.top, PIO0 + 4)}
  BY <1>1, <1>6 DEF Lower
<1>8. r.mode \in PIO .. SA150 /\ (c.top < DMA => r.mode < DMA)
  BY <1>4, <1>6 DEF Settings
<1>9. LunGood(c, r)
  BY <1>6, <1>7, <1>8 DEF LunGood
<1>10. Legal(c, w0, u0, r)
  BY <1>5, <1>6, <1>8, <1>9 DEF Legal
<1> QED BY <1>10 DEF r

(* AtapiDmaReinit: the mode of a command. *)
LEMMA ReinitIs ==
  ASSUME case \in Cases, LunGood(case, lun), NEW idle \in BOOLEAN,
         req.retry \in 0 .. MaxRetries, req.retry > 0 => req.force,
         req.dma \in BOOLEAN, req.force \in BOOLEAN
  PROVE  LET r == Reinit(idle)
         IN  /\ LunGood(case, r)
             /\ ~req.dma => r.mode < DMA
             /\ r.mode >= DMA => /\ r.drive >= DMA /\ Suited(case.x, r)
                                 /\ req.retry # MaxRetries - 1
PROOF
<1> DEFINE Good(r) == /\ LunGood(case, r)
                      /\ ~req.dma => r.mode < DMA
                      /\ r.mode >= DMA => /\ r.drive >= DMA /\ Suited(case.x, r)
                                          /\ req.retry # MaxRetries - 1
           Slow(r) == LunGood(case, r) /\ r.mode < DMA
<1>1. /\ lun \in Settings /\ lun.top \in {case.top, Lower(case.top, PIO0 + 4)}
      /\ case.top < DMA => lun.limit < DMA
  BY DEF LunGood
<1>2. lun.mode \in PIO .. SA150 /\ lun.limit \in PIO .. SA150 /\ lun.reinit \in BOOLEAN
  BY <1>1 DEF Settings
<1>3. /\ case.d.pio \in 0 .. 5 /\ case.d.wdma \in -1 .. 2 /\ case.d.udma \in -1 .. 6
      /\ case.d.supportsDma \in BOOLEAN
  BY CaseIs DEF Drives
<1>4. MaxRetries \in 4 .. 6
  BY DiskAssumption
<1>5. ASSUME NEW p \in -8 .. 5
      PROVE  Slow(DmaInit(case.x, case.d, lun, p, -1, -1, idle))
  <2>1. PICK e \in -1 .. 2 : e = -1
    OBVIOUS
  <2>2. e \in -1 .. 6
    OBVIOUS
  <2> DEFINE r == DmaInit(case.x, case.d, lun, p, e, e, idle)
  <2>3. Legal(case, e, e, r)
    BY <1>1, <2>2, DmaInitGood
  <2>4. r.mode \in PIO .. SA150
    BY <2>3 DEF Legal, LunGood, Settings
  <2> HIDE DEF r
  <2>5. Slow(r)
    BY <2>1, <2>3, <2>4 DEF Legal
  <2> QED BY <2>1, <2>5 DEF r
<1>6. Slow(ToPio(idle))
  <2>1. CASE lun.mode > PIO0 + 5 /\ lun.mode # PIO0 + case.d.pio
    <3>1. ToPio(idle) = DmaInit(case.x, case.d, lun, case.d.pio, -1, -1, idle)
      BY <2>1 DEF ToPio
    <3>2. case.d.pio \in -8 .. 5
      BY <1>3
    <3> QED BY <1>5, <3>1, <3>2
  <2>2. CASE ~(lun.mode > PIO0 + 5 /\ lun.mode # PIO0 + case.d.pio)
    <3>1. lun.mode <= PIO0 + 5
      BY <1>2, <1>3, <2>2
    <3>2. CASE lun.limit < lun.mode
      <4>1. ToPio(idle) = DmaInit(case.x, case.d, lun, lun.limit - PIO0, -1, -1, idle)
        BY <2>2, <3>2 DEF ToPio
      <4>2. lun.limit - PIO0 \in -8 .. 5
        BY <1>2, <3>1, <3>2
      <4> QED BY <1>5, <4>1, <4>2
    <3>3. CASE ~(lun.limit < lun.mode)
      <4>1. ToPio(idle) = lun
        BY <2>2, <3>3 DEF ToPio
      <4>2. lun.mode < DMA
        BY <1>2, <3>1
      <4> QED BY <4>1, <4>2
    <3> QED BY <3>2, <3>3
  <2> QED BY <2>1, <2>2
<1>7. ASSUME NEW r, Slow(r)
      PROVE  Good(r)
  <2>1. r.mode \in PIO .. SA150
    BY <1>7 DEF LunGood, Settings
  <2> QED BY <1>7, <2>1
<1>8. ASSUME NEW w \in -1 .. 2, NEW u \in -1 .. 6
      PROVE  Legal(case, w, u, DmaInit(case.x, case.d, lun, case.d.pio, w, u, idle))
  <2>1. PICK p \in -8 .. 5 : p = case.d.pio
    BY <1>3
  <2> DEFINE r == DmaInit(case.x, case.d, lun, p, w, u, idle)
  <2>2. Legal(case, w, u, r)
    BY <1>1, DmaInitGood
  <2> QED BY <2>1, <2>2
<1>9. CASE ~req.dma \/ LimitLba48
  <2>1. Reinit(idle) = ToPio(idle)
    BY <1>9 DEF Reinit
  <2> HIDE DEF Slow, Good
  <2>2. Good(ToPio(idle))
    BY <1>6, <1>7
  <2> QED BY <2>1, <2>2 DEF Good
<1>10. CASE req.dma /\ ~LimitLba48 /\ req.force
  <2> DEFINE w == Lower(retry_Wdma[req.retry + 1], case.d.wdma)
             u == Lower(retry_Udma[req.retry + 1], case.d.udma)
             r == DmaInit(case.x, case.d, lun, case.d.pio, w, u, idle)
  <2>1. Reinit(idle) = r
    BY <1>10 DEF Reinit, StepDown
  <2>2. /\ retry_Wdma[req.retry + 1] \in -1 .. 2 /\ retry_Udma[req.retry + 1] \in -1 .. 6
        /\ req.retry = MaxRetries - 1 =>
             retry_Wdma[req.retry + 1] = -1 /\ retry_Udma[req.retry + 1] = -1
    <3>1. req.retry \in 0 .. 6 /\ (req.retry = MaxRetries - 1 => req.retry \in 3 .. 5)
      BY <1>4
    <3>2. PICK i \in 0 .. 6 : i = req.retry
      BY <3>1
    <3>3. \A j \in 0 .. 6 : j = 0 \/ j = 1 \/ j = 2 \/ j = 3 \/ j = 4 \/ j = 5 \/ j = 6
      OBVIOUS
    <3>4. /\ retry_Wdma[i + 1] \in -1 .. 2 /\ retry_Udma[i + 1] \in -1 .. 6
          /\ i \in 3 .. 5 => retry_Wdma[i + 1] = -1 /\ retry_Udma[i + 1] = -1
      <4> SUFFICES ASSUME NEW j \in 0 .. 6
                   PROVE  /\ retry_Wdma[j + 1] \in -1 .. 2 /\ retry_Udma[j + 1] \in -1 .. 6
                          /\ j \in 3 .. 5 => retry_Wdma[j + 1] = -1 /\ retry_Udma[j + 1] = -1
        OBVIOUS
      <4>1. CASE j = 0 BY <4>1 DEF retry_Wdma, retry_Udma
      <4>2. CASE j = 1 BY <4>2 DEF retry_Wdma, retry_Udma
      <4>3. CASE j = 2 BY <4>3 DEF retry_Wdma, retry_Udma
      <4>4. CASE j = 3 BY <4>4 DEF retry_Wdma, retry_Udma
      <4>5. CASE j = 4 BY <4>5 DEF retry_Wdma, retry_Udma
      <4>6. CASE j = 5 BY <4>6 DEF retry_Wdma, retry_Udma
      <4>7. CASE j = 6 BY <4>7 DEF retry_Wdma, retry_Udma
      <4> QED BY <3>3, <4>1, <4>2, <4>3, <4>4, <4>5, <4>6, <4>7, Zenon
    <3> QED BY <3>1, <3>2, <3>4
  <2>3. /\ w \in -1 .. 2 /\ u \in -1 .. 6
        /\ req.retry = MaxRetries - 1 => w = -1 /\ u = -1
    BY <1>3, <2>2 DEF Lower
  <2> HIDE DEF w, u
  <2>4. Legal(case, w, u, r)
    BY <1>8, <2>3
  <2> HIDE DEF r
  <2>5. Good(r)
    BY <1>10, <2>3, <2>4 DEF Legal
  <2> QED BY <2>1, <2>5
<1>11. CASE req.dma /\ ~LimitLba48 /\ ~req.force
  <2>1. req.retry # MaxRetries - 1
    BY <1>4, <1>11
  <2>2. CASE lun.limit > lun.mode \/ lun.reinit
    <3>1. Reinit(idle) = DmaInitFull(case.x, case.d, lun, idle)
      BY <1>11, <2>2 DEF Reinit
    <3>2. CASE case.d.supportsDma
      <4> DEFINE r == DmaInit(case.x, case.d, lun, case.d.pio, case.d.wdma, case.d.udma, idle)
      <4>1. Reinit(idle) = r
        BY <3>1, <3>2 DEF DmaInitFull
      <4>2. Legal(case, case.d.wdma, case.d.udma, r)
        BY <1>3, <1>8
      <4> HIDE DEF r
      <4>3. Good(r)
        BY <1>11, <2>1, <4>2 DEF Legal
      <4> QED BY <4>1, <4>3
    <3>3. CASE ~case.d.supportsDma
      <4> DEFINE r == DmaInit(case.x, case.d, lun, case.d.pio, -1, -1, idle)
      <4>1. Reinit(idle) = r
        BY <3>1, <3>3 DEF DmaInitFull
      <4>2. Slow(r)
        <5>1. case.d.pio \in -8 .. 5
          BY <1>3
        <5> QED BY <1>5, <5>1
      <4> HIDE DEF r, Slow, Good
      <4>3. Good(r)
        BY <1>7, <4>2
      <4> QED BY <4>1, <4>3 DEF Good
    <3> QED BY <3>2, <3>3
  <2>3. CASE ~(lun.limit > lun.mode \/ lun.reinit)
    <3>1. Reinit(idle) = lun
      BY <1>11, <2>3 DEF Reinit
    <3>2. lun.mode >= DMA => lun.drive >= DMA /\ Suited(case.x, lun)
      BY <2>3 DEF LunGood
    <3> QED BY <1>11, <2>1, <3>1, <3>2
  <2> QED BY <2>2, <2>3
<1> QED BY <1>9, <1>10, <1>11

(* AtapiDmaSetup of the part in hand; with LBA it is all of the request.   *)
LEMMA DmaSetupIs ==
  ASSUME case \in Cases, NEW r \in Asked(case), r.done < r.count,
         r.bcount \in 1 .. r.count - r.done,
         case.off + r.count <= Len(case.pages) * PageUnits,
         case.lba => /\ r.done = 0 /\ r.from = 0 /\ r.bcount = r.count
                     /\ r.table \in {NoTable, Setup(case.h, case.pages, case.off, r.count, TRUE)}
  PROVE  LET q == DmaSetup(r)
         IN  /\ q \in Asked(case)
             /\ \A x \in {q} : /\ x.state = r.state /\ x.first = r.first /\ x.count = r.count
                               /\ x.high = r.high /\ x.retry = r.retry /\ x.force = r.force
                               /\ x.done = r.done /\ x.left = r.left /\ x.lba = r.lba
                               /\ x.bcount = r.bcount /\ x.copied = r.copied /\ x.ok = r.ok
                               /\ x.last = r.last
             /\ q.dma => q.table.ok
             /\ case.lba => /\ q.from = 0
                            /\ q.table \in {NoTable, Setup(case.h, case.pages, case.off, r.count, TRUE)}
PROOF
<1> DEFINE Same(x) == /\ x.state = r.state /\ x.first = r.first /\ x.count = r.count
                      /\ x.high = r.high /\ x.retry = r.retry /\ x.force = r.force
                      /\ x.done = r.done /\ x.left = r.left /\ x.lba = r.lba
                      /\ x.bcount = r.bcount /\ x.copied = r.copied /\ x.ok = r.ok
                      /\ x.last = r.last
           Made == {NoTable, Setup(case.h, case.pages, case.off, r.count, TRUE)}
           Good(x) == /\ x \in Asked(case) /\ Same(x) /\ (x.dma => x.table.ok)
                      /\ case.lba => x.from = 0 /\ x.table \in Made
<1>1. CASE r.table.ok
  <2> DEFINE q == [r EXCEPT !.dma = TRUE]
  <2>1. DmaSetup(r) = q
    BY <1>1 DEF DmaSetup
  <2>2. q \in Asked(case) /\ Same(q) /\ q.table = r.table /\ q.from = r.from
    BY DEF Asked
  <2> HIDE DEF q
  <2>3. Good(q)
    BY <1>1, <2>2
  <2> QED BY <2>1, <2>3
<1>2. CASE ~r.table.ok
  <2> DEFINE pos == case.off + r.done
             i == pos \div PageUnits + 1
             n == Len(case.pages)
             pages == SubSeq(case.pages, i, n)
             t == Setup(case.h, pages, pos % PageUnits, r.bcount, TRUE)
             q == [r EXCEPT !.table = t, !.from = r.done, !.dma = t.ok]
  <2>1. DmaSetup(r) = q
    BY <1>2 DEF DmaSetup
  <2>2. /\ r.done \in Nat /\ r.count \in Nat \ {0} /\ r.bcount \in Nat \ {0}
        /\ r.done + r.bcount <= r.count
    BY DEF Asked
  <2>3. HostIs(case.h) /\ case.pages \in Seq(PageFrames) /\ case.off \in 0 .. 1 /\ n \in Nat
    BY CaseIs DEF PageUnits
  <2>4. /\ pos \in Nat /\ pos + r.bcount <= n * 2
    BY <2>2, <2>3, SMTT(20) DEF PageUnits
  <2> HIDE DEF pos, n
  <2>5. /\ pos \div 2 \in Nat /\ pos % 2 \in 0 .. 1 /\ pos = (2 * (pos \div 2)) + (pos % 2)
    BY <2>4
  <2>6. i \in 1 .. n /\ (pos % 2) + r.bcount <= (n - i + 1) * 2
    BY <2>2, <2>3, <2>4, <2>5 DEF PageUnits
  <2>7. pages \in Seq(PageFrames) /\ Len(pages) = n - i + 1
    <3> HIDE DEF i
    <3> QED BY <2>3, <2>6 DEF n
  <2>8. t \in DmaTables
    <3> HIDE DEF i, pages
    <3>1. pos % PageUnits \in 0 .. PageUnits - 1 /\ (pos % PageUnits) + r.bcount <= Len(pages) * PageUnits
      BY <2>5, <2>6, <2>7 DEF PageUnits
    <3> QED BY <2>2, <2>3, <2>7, <3>1, SetupIs
  <2>9. ASSUME case.lba
        PROVE  t = Setup(case.h, case.pages, case.off, r.count, TRUE)
    <3>1. r.done = 0 /\ r.bcount = r.count
      BY <2>9
    <3>2. pos = case.off /\ pos % PageUnits = case.off /\ i = 1
      BY <2>3, <3>1 DEF pos, PageUnits
    <3>3. pages = case.pages
      <4>1. SubSeq(case.pages, 1, n) = case.pages
        BY <2>3 DEF n
      <4> QED BY <3>2, <4>1
    <3> HIDE DEF i, pages
    <3> QED BY <3>1, <3>2, <3>3
  <2> HIDE DEF t
  <2>10. t.ok \in BOOLEAN
    BY <2>8 DEF DmaTables
  <2>11. q \in Asked(case) /\ Same(q) /\ q.table = t /\ q.from = r.done /\ q.dma = t.ok
    BY <2>2, <2>8, <2>10 DEF Asked
  <2> HIDE DEF q
  <2>12. Good(q)
    BY <2>9, <2>11
  <2> QED BY <2>1, <2>12
<1> QED BY <1>1, <1>2

-----------------------------------------------------------------------------
(* Every step keeps the invariant. *)

(* It holds at start. *)
LEMMA InitGood == Init => IInv
PROOF
<1> SUFFICES ASSUME Init PROVE IInv
  OBVIOUS
<1>1. case \in Cases /\ req = NoReq
  BY DEF Init
<1>2. case.top \in PIO .. SA150 /\ case.removable \in BOOLEAN
  BY <1>1, CaseIs
<1>3. LBARegs(0) \in Regs(case)
  BY <1>1, RegsAre
<1>4. LunGood(case, lun)
  <2>1. lun \in Settings
    BY <1>2 DEF Init, Settings, Timings
  <2> QED BY <2>1 DEF Init, LunGood
<1>5. FlagsGood(case, flags, req)
  <2> DEFINE regs == LBARegs(0)
             off == FALSE
             first == 0
  <2>1. first \in 0 .. MaxRetries /\ first \in Nat
    BY DiskAssumption
  <2>2. flags = [init |-> off, removable |-> case.removable, noLba48 |-> off,
                 errRetry |-> first, errLba |-> regs, errCount |-> first, dmaActive |-> off]
    BY DEF Init
  <2>3. off \in BOOLEAN /\ ~off /\ regs \in Regs(case)
    BY <1>3
  <2> HIDE DEF regs, off, first
  <2> QED BY <1>1, <1>2, <2>1, <2>2, <2>3 DEF FlagsGood
<1> QED BY <1>1, <1>4, <1>5 DEF IInv

(* The start of the device sets a mode that becomes its limit. *)
LEMMA HwInitializeGood ==
  ASSUME IInv, HwInitialize
  PROVE  IInv'
PROOF
<1> DEFINE l == [lun EXCEPT !.limit = lun.top, !.mode = lun.top]
           set == DmaInitFull(case.x, case.d, l, TRUE)
<1>1. /\ case \in Cases /\ LunGood(case, lun) /\ FlagsGood(case, flags, req)
      /\ req = NoReq \/ ReqGood(case, lun, req, medium)
  BY DEF IInv
<1>2. /\ ~flags.init /\ lun' = [set EXCEPT !.limit = set.mode]
      /\ flags' = [flags EXCEPT !.init = TRUE]
      /\ case' = case /\ req' = req /\ medium' = medium
  BY DEF HwInitialize
<1>3. /\ case.top \in PIO .. SA150 /\ case.d.pio \in -8 .. 5 /\ case.d.wdma \in -1 .. 2
      /\ case.d.udma \in -1 .. 6
  BY <1>1, CaseIs DEF Drives
<1>4. lun \in Settings /\ lun.top \in {case.top, Lower(case.top, PIO0 + 4)}
  BY <1>1 DEF LunGood
<1>5. /\ l \in Settings /\ l.top = lun.top /\ l.limit = lun.top
  BY <1>4 DEF Settings
<1> HIDE DEF l
<1>6. case.top < DMA => l.limit < DMA
  BY <1>3, <1>4, <1>5 DEF Lower
<1>7. PICK w \in -1 .. 2, u \in -1 .. 6 : Legal(case, w, u, set)
  <2>1. CASE case.d.supportsDma
    <3>1. set = DmaInit(case.x, case.d, l, case.d.pio, case.d.wdma, case.d.udma, TRUE)
      BY <2>1 DEF DmaInitFull
    <3> HIDE DEF set
    <3>2. PICK p \in -8 .. 5, w \in -1 .. 2, u \in -1 .. 6, idle \in BOOLEAN :
            p = case.d.pio /\ w = case.d.wdma /\ u = case.d.udma /\ idle = TRUE
      BY <1>3
    <3>3. Legal(case, w, u, DmaInit(case.x, case.d, l, p, w, u, idle))
      BY <1>1, <1>4, <1>5, <1>6, DmaInitGood
    <3> QED BY <3>1, <3>2, <3>3
  <2>2. CASE ~case.d.supportsDma
    <3>1. set = DmaInit(case.x, case.d, l, case.d.pio, -1, -1, TRUE)
      BY <2>2 DEF DmaInitFull
    <3> HIDE DEF set
    <3>4. PICK w \in -1 .. 2 : w = -1
      OBVIOUS
    <3>5. PICK u \in -1 .. 6 : u = -1
      OBVIOUS
    <3>2. PICK p \in -8 .. 5, idle \in BOOLEAN : p = case.d.pio /\ idle = TRUE
      BY <1>3
    <3>3. Legal(case, w, u, DmaInit(case.x, case.d, l, p, w, u, idle))
      BY <1>1, <1>4, <1>5, <1>6, DmaInitGood
    <3> QED BY <3>1, <3>2, <3>3, <3>4, <3>5
  <2> QED BY <2>1, <2>2
<1> HIDE DEF set
<1>8. LunGood(case, lun')
  <2>1. /\ set \in Settings /\ set.top \in {case.top, Lower(case.top, PIO0 + 4)}
        /\ case.top < DMA => set.mode < DMA
        /\ set.mode >= DMA => set.drive >= DMA /\ Suited(case.x, set)
    BY <1>7 DEF Legal, LunGood
  <2>2. /\ lun' \in Settings /\ lun'.top = set.top /\ lun'.mode = set.mode /\ lun'.limit = set.mode
        /\ lun'.drive = set.drive /\ lun'.chip = set.chip
    BY <1>2, <2>1 DEF Settings
  <2>3. Suited(case.x, set) => Suited(case.x, lun')
    BY <2>2 DEF Suited
  <2> QED BY <2>1, <2>2, <2>3 DEF LunGood
<1>9. FlagsGood(case, flags', req)
  BY <1>1, <1>2 DEF FlagsGood
<1>10. req = NoReq
  BY <1>1, <1>2 DEF FlagsGood
<1> QED BY <1>1, <1>2, <1>8, <1>9, <1>10 DEF IInv

(* A new request is within its buffer and nothing of it is written yet. *)
LEMMA NewRequestGood ==
  ASSUME IInv, NEW r \in Requests, NewRequest(r)
  PROVE  IInv'
PROOF
<1> DEFINE q == [state |-> "QUEUED", first |-> r.first, count |-> r.count,
                 high |-> r.high, retry |-> 0, force |-> FALSE, dma |-> FALSE,
                 done |-> 0, left |-> 0, lba |-> LBARegs(0), bcount |-> 0,
                 table |-> NoTable, from |-> 0, copied |-> 0, ok |-> FALSE,
                 last |-> PIO]
<1>1. case \in Cases /\ LunGood(case, lun) /\ FlagsGood(case, flags, req)
  BY DEF IInv
<1>2. /\ flags.init /\ req.state = "NONE" /\ req' = q /\ medium' = <<>>
      /\ case' = case /\ lun' = lun /\ flags' = flags
  BY DEF NewRequest
<1>3. /\ r.first \in Nat /\ r.count \in Nat \ {0} /\ r.high \in BOOLEAN
      /\ case.off + r.count <= Len(case.pages) * PageUnits
  BY <1>1, RequestsAssumption
<1>4. LBARegs(0) \in Regs(case)
  BY <1>1, RegsAre
<1>5. NoTable \in DmaTables
  BY DEF NoTable, DmaTables
<1>6. 0 \in 0 .. MaxRetries + 1 /\ 0 <= MaxRetries
  BY DiskAssumption
<1> DEFINE regs == LBARegs(0)
<1>7. /\ q \in Asked(case) /\ q.state = "QUEUED" /\ q.first = r.first /\ q.count = r.count
      /\ q.retry = 0 /\ q.dma = FALSE /\ q.done = 0 /\ q.table = NoTable /\ q.from = 0
      /\ q.copied = 0 /\ q.ok = FALSE
  <2> HIDE DEF regs
  <2>1. q = [state |-> "QUEUED", first |-> r.first, count |-> r.count,
             high |-> r.high, retry |-> 0, force |-> FALSE, dma |-> FALSE,
             done |-> 0, left |-> 0, lba |-> regs, bcount |-> 0,
             table |-> NoTable, from |-> 0, copied |-> 0, ok |-> FALSE,
             last |-> PIO]
    BY DEF regs
  <2>2. regs \in Regs(case)
    BY <1>4 DEF regs
  <2> HIDE DEF q
  <2> QED BY <1>3, <1>5, <1>6, <2>1, <2>2 DEF Asked, Active
<1> HIDE DEF q
<1>8. ReqGood(case, lun, q, <<>>)
  <2>1. Counted(case, q) /\ Running(case, lun, q) /\ Tabled(case, q) /\ GivenUp(q)
    BY <1>3, <1>6, <1>7 DEF Counted, Running, Tabled, GivenUp
  <2>2. Put(q, 0) = <<>>
    BY DEF Put
  <2>3. Written(case, q, <<>>)
    BY <1>7, <2>2 DEF Written
  <2> QED BY <1>3, <1>7, <2>1, <2>3 DEF ReqGood
<1>9. FlagsGood(case, flags, q)
  BY <1>1, <1>2 DEF FlagsGood
<1> QED BY <1>1, <1>2, <1>8, <1>9 DEF IInv

(* The part that is prepared begins where the parts before it ended. *)
LEMMA PrepareGood ==
  ASSUME IInv, Prepare
  PROVE  IInv'
PROOF
<1> DEFINE part == NextPart(req)
           again == Remembered(part)
           counted == IF again /\ part.retry < MaxRetries
                      THEN [part EXCEPT !.retry = flags.errRetry, !.force = TRUE]
                      ELSE part
           made == IF lun.limit >= DMA THEN DmaSetup(counted) ELSE counted
           b == IF req.done > 0 THEN LBARegsBack(req.lba) + req.bcount ELSE req.first
           n == MaxCount(b, req.count - req.done)
           Unmoved(x) == /\ x.first = req.first /\ x.count = req.count /\ x.high = req.high
                      /\ x.done = req.done /\ x.lba = LBARegs(b) /\ x.bcount = n /\ x.left = n
                      /\ x.copied = req.copied /\ x.ok = req.ok /\ x.last = req.last
<1>1. /\ case \in Cases /\ LunGood(case, lun) /\ FlagsGood(case, flags, req)
      /\ req = NoReq \/ ReqGood(case, lun, req, medium)
  BY DEF IInv
<1>2. /\ req.state \in {"QUEUED", "NEXT"}
      /\ req' = [made EXCEPT !.state = "READY"]
      /\ flags' = [flags EXCEPT !.errRetry = IF again THEN 0 ELSE flags.errRetry]
      /\ case' = case /\ lun' = lun /\ medium' = medium
  BY DEF Prepare
<1>3. ReqGood(case, lun, req, medium)
  BY <1>1, <1>2 DEF NoReq
<1>4. /\ req \in Asked(case) /\ case.off + req.count <= Len(case.pages) * PageUnits
      /\ Counted(case, req) /\ Written(case, req, medium) /\ Tabled(case, req)
  BY <1>3 DEF ReqGood
<1>5. /\ req.first \in Nat /\ req.count \in Nat \ {0} /\ req.done \in Nat /\ req.bcount \in Nat
      /\ req.lba \in Regs(case) /\ req.from \in Nat /\ req.copied \in Nat
  BY <1>4 DEF Asked
<1>6. /\ req.done < req.count /\ req.retry \in 0 .. MaxRetries /\ (req.retry > 0 => req.force)
      /\ ~req.ok
  BY <1>2, <1>4, DiskAssumption DEF Counted, Active, Asked
<1>7. b \in Nat /\ req.count - req.done \in Nat \ {0}
  <2>1. Back(case, req.lba) \in Nat /\ Back(case, req.lba) = LBARegsBack(req.lba)
    BY <1>1, <1>5, RegsAre
  <2> QED BY <1>5, <1>6, <2>1
<1> HIDE DEF b
<1>8. /\ n \in 1 .. req.count - req.done /\ (case.lba => n = req.count - req.done)
      /\ LBARegs(b) \in Regs(case) /\ Back(case, LBARegs(b)) = b
  BY <1>1, <1>7, RegsAre
<1> HIDE DEF n
<1>9. /\ part \in Asked(case) /\ Unmoved(part) /\ part.dma = FALSE /\ part.table = req.table
      /\ part.from = req.from /\ part.retry = req.retry /\ part.force = req.force
  <2> DEFINE regs == LBARegs(b)
             off == FALSE
  <2>1. part = [req EXCEPT !.lba = regs, !.bcount = n, !.left = n, !.dma = off]
    BY DEF NextPart, b, n
  <2>2. off \in BOOLEAN /\ regs \in Regs(case) /\ n \in Nat
    BY <1>8
  <2> HIDE DEF regs, off, part
  <2>3. /\ part \in Asked(case) /\ part.first = req.first /\ part.count = req.count
        /\ part.high = req.high /\ part.done = req.done /\ part.lba = regs /\ part.bcount = n
        /\ part.left = n /\ part.copied = req.copied /\ part.ok = req.ok /\ part.last = req.last
        /\ part.dma = off /\ part.table = req.table
        /\ part.from = req.from /\ part.retry = req.retry /\ part.force = req.force
    BY <1>4, <2>1, <2>2 DEF Asked
  <2> QED BY <2>3 DEF regs, off
<1> HIDE DEF part
<1>10. /\ counted \in Asked(case) /\ Unmoved(counted) /\ counted.dma = FALSE
       /\ counted.table = req.table /\ counted.from = req.from
       /\ counted.retry \in 0 .. MaxRetries /\ (counted.retry > 0 => counted.force)
  <2> HIDE DEF again
  <2>1. CASE again /\ part.retry < MaxRetries
    <3> DEFINE on == TRUE
               saved == flags.errRetry
    <3>1. counted = [part EXCEPT !.retry = saved, !.force = on]
      BY <2>1
    <3>2. on \in BOOLEAN /\ on /\ saved \in 0 .. MaxRetries
      BY <1>1 DEF FlagsGood
    <3>3. saved \in 0 .. MaxRetries + 1
      BY <3>2, DiskAssumption
    <3> HIDE DEF on, saved, counted
    <3>4. /\ counted \in Asked(case) /\ counted.first = part.first /\ counted.count = part.count
          /\ counted.high = part.high /\ counted.done = part.done /\ counted.lba = part.lba
          /\ counted.bcount = part.bcount /\ counted.left = part.left
          /\ counted.copied = part.copied /\ counted.ok = part.ok /\ counted.last = part.last
          /\ counted.dma = part.dma /\ counted.table = part.table
          /\ counted.from = part.from /\ counted.retry = saved /\ counted.force = on
      BY <1>9, <3>1, <3>2, <3>3 DEF Asked
    <3> QED BY <1>9, <3>2, <3>4
  <2>2. CASE ~(again /\ part.retry < MaxRetries)
    <3>1. counted = part
      BY <2>2
    <3> HIDE DEF counted
    <3> QED BY <1>6, <1>9, <3>1
  <2> QED BY <2>1, <2>2
<1> HIDE DEF counted
<1>11. case.lba => /\ counted.done = 0 /\ counted.from = 0 /\ counted.bcount = counted.count
                   /\ counted.table \in {NoTable, Setup(case.h, case.pages, case.off, counted.count, TRUE)}
  <2> SUFFICES ASSUME case.lba
               PROVE  /\ counted.done = 0 /\ counted.from = 0 /\ counted.bcount = counted.count
                      /\ counted.table \in {NoTable, Setup(case.h, case.pages, case.off, counted.count, TRUE)}
    OBVIOUS
  <2>1. /\ req.done = 0 /\ req.from = 0
        /\ req.table \in {NoTable, Setup(case.h, case.pages, case.off, req.count, TRUE)}
    BY <1>2, <1>4 DEF Tabled, Active
  <2>2. n = req.count
    BY <1>5, <1>8, <2>1
  <2>3. /\ counted.done = req.done /\ counted.from = req.from /\ counted.bcount = n
        /\ counted.count = req.count /\ counted.table = req.table
    BY <1>10
  <2> QED BY <2>1, <2>2, <2>3
<1>12. /\ made \in Asked(case) /\ Unmoved(made) /\ made.retry = counted.retry
       /\ made.force = counted.force
       /\ made.dma => made.table.ok /\ lun.limit >= DMA
       /\ case.lba => /\ made.from = 0
                      /\ made.table \in {NoTable, Setup(case.h, case.pages, case.off, req.count, TRUE)}
  <2>1. CASE lun.limit >= DMA
    <3>1. made = DmaSetup(counted)
      BY <2>1
    <3>2. /\ counted.done < counted.count /\ counted.bcount \in 1 .. counted.count - counted.done
          /\ case.off + counted.count <= Len(case.pages) * PageUnits
      BY <1>4, <1>6, <1>8, <1>10
    <3> HIDE DEF made
    <3> DEFINE IsSet(y) ==
          /\ y \in Asked(case)
          /\ \A x \in {y} : /\ x.state = counted.state /\ x.first = counted.first
                            /\ x.count = counted.count
                            /\ x.high = counted.high /\ x.retry = counted.retry
                            /\ x.force = counted.force
                            /\ x.done = counted.done /\ x.left = counted.left
                            /\ x.lba = counted.lba
                            /\ x.bcount = counted.bcount /\ x.copied = counted.copied
                            /\ x.ok = counted.ok /\ x.last = counted.last
          /\ y.dma => y.table.ok
          /\ case.lba => /\ y.from = 0
                         /\ y.table \in {NoTable, Setup(case.h, case.pages, case.off, counted.count, TRUE)}
    <3>3. /\ case \in Cases /\ counted \in Asked(case)
          /\ case.lba => /\ counted.done = 0 /\ counted.from = 0 /\ counted.bcount = counted.count
                         /\ counted.table \in {NoTable, Setup(case.h, case.pages, case.off, counted.count, TRUE)}
      BY <1>1, <1>10, <1>11
    <3>4. IsSet(DmaSetup(counted))
      BY <3>2, <3>3, DmaSetupIs
    <3>5. IsSet(made)
      <4> HIDE DEF IsSet
      <4> QED BY <3>1, <3>4
    <3> QED BY <1>10, <2>1, <3>5
  <2>2. CASE ~(lun.limit >= DMA)
    <3>1. made = counted
      BY <2>2
    <3> HIDE DEF made
    <3> QED BY <1>10, <1>11, <3>1
  <2> QED BY <2>1, <2>2
<1> HIDE DEF made
<1> DEFINE q == [made EXCEPT !.state = "READY"]
<1>13. /\ q \in Asked(case) /\ Unmoved(q) /\ q.state = "READY" /\ q.retry = made.retry
       /\ q.force = made.force /\ q.dma = made.dma /\ q.table = made.table /\ q.from = made.from
  BY <1>12 DEF Asked, Active
<1> HIDE DEF q
<1>14. ReqGood(case, lun, q, medium)
  <2>1. case.top < DMA => ~q.dma
    <3>1. case.top < DMA => ~(lun.limit >= DMA)
      BY <1>1 DEF LunGood, Settings
    <3> QED BY <1>12, <1>13, <3>1
  <2>2. Counted(case, q)
    <3>1. q.retry <= MaxRetries
      BY <1>10, <1>12, <1>13, DiskAssumption
    <3> QED BY <1>6, <1>8, <1>10, <1>12, <1>13, <2>1, <3>1 DEF Counted
  <2>3. Running(case, lun, q) /\ GivenUp(q)
    BY <1>13 DEF Running, GivenUp
  <2>4. Written(case, q, medium)
    <3> SUFFICES ASSUME Plain(case)
                 PROVE  medium = Put(q, q.done) /\ Back(case, q.lba) = q.first + q.done
      BY <1>13 DEF Written
    <3>1. /\ medium = Put(req, req.done)
          /\ req.state = "QUEUED" => req.done = 0
          /\ req.state = "NEXT" => /\ req.done > 0
                                   /\ Back(case, req.lba) + req.bcount = req.first + req.done
      BY <1>2, <1>4 DEF Written, Active
    <3>2. medium = Put(q, q.done)
      BY <1>13, <3>1 DEF Put
    <3>3. b = req.first + req.done
      <4>1. Back(case, req.lba) = LBARegsBack(req.lba)
        BY <1>1, RegsAre
      <4> QED BY <1>2, <1>5, <3>1, <4>1 DEF b
    <3> QED BY <1>8, <1>13, <3>2, <3>3
  <2>5. Tabled(case, q)
    <3> SUFFICES ASSUME case.lba
                 PROVE  /\ q.done = 0 /\ q.from = 0 /\ q.copied = 0 /\ q.bcount = q.count
                        /\ q.table \in {NoTable, Setup(case.h, case.pages, case.off, q.count, TRUE)}
                        /\ q.dma => q.table.ok
      BY <1>13 DEF Tabled
    <3>1. req.done = 0 /\ req.copied = 0
      BY <1>2, <1>4 DEF Tabled, Active
    <3>2. n = req.count
      BY <1>5, <1>8, <3>1
    <3>3. /\ q.done = req.done /\ q.copied = req.copied /\ q.bcount = n /\ q.count = req.count
          /\ q.from = made.from /\ q.table = made.table /\ q.dma = made.dma
      BY <1>13
    <3> QED BY <1>12, <3>1, <3>2, <3>3
  <2> QED BY <1>4, <1>13, <2>2, <2>3, <2>4, <2>5 DEF ReqGood
<1>15. FlagsGood(case, flags', q)
  <2> HIDE DEF again
  <2>1. ~flags.dmaActive /\ flags.init
    BY <1>1, <1>2 DEF FlagsGood, NoReq
  <2> DEFINE v == IF again THEN 0 ELSE flags.errRetry
  <2>2. v \in 0 .. MaxRetries
    BY <1>1, DiskAssumption DEF FlagsGood
  <2>3. flags' = [flags EXCEPT !.errRetry = v]
    BY <1>2
  <2> HIDE DEF v
  <2> QED BY <1>1, <2>1, <2>2, <2>3 DEF FlagsGood
<1> QED BY <1>1, <1>2, <1>14, <1>15 DEF IInv, q

(* A command is sent in a mode that suits, or without DMA. *)
LEMMA ExecGood ==
  ASSUME IInv, NEW idle \in BOOLEAN, Exec(idle)
  PROVE  IInv'
PROOF
<1> DEFINE l == Reinit(idle)
           slow == l.mode >= DMA
           dma == req.dma /\ slow
           now == l.mode
           sent == [req EXCEPT !.state = "EXPECTING", !.dma = dma, !.last = now]
           q == PreSync(sent)
           flag == flags.removable \/ (req.dma /\ LimitLba48)
           busy == flags.dmaActive \/ sent.dma
           Unmoved(x) == /\ x.first = req.first /\ x.count = req.count /\ x.high = req.high
                      /\ x.retry = req.retry /\ x.force = req.force /\ x.done = req.done
                      /\ x.left = req.left /\ x.lba = req.lba /\ x.bcount = req.bcount
                      /\ x.table = req.table /\ x.from = req.from /\ x.ok = req.ok
                      /\ x.state = "EXPECTING" /\ x.dma = dma /\ x.last = now
<1>1. /\ case \in Cases /\ LunGood(case, lun) /\ FlagsGood(case, flags, req)
      /\ req = NoReq \/ ReqGood(case, lun, req, medium)
  BY DEF IInv
<1>2. /\ req.state = "READY" /\ lun' = l /\ req' = q
      /\ case' = case /\ medium' = medium
  BY DEF Exec
<1>3. flags' = DmaStart([flags EXCEPT !.removable = flag], sent)
  BY <1>2 DEF Exec
<1>4. ReqGood(case, lun, req, medium)
  BY <1>1, <1>2 DEF NoReq
<1>5. /\ req \in Asked(case) /\ case.off + req.count <= Len(case.pages) * PageUnits
      /\ Counted(case, req) /\ Written(case, req, medium) /\ Tabled(case, req)
  BY <1>4 DEF ReqGood
<1>6. /\ req.retry \in 0 .. MaxRetries /\ (req.retry > 0 => req.force)
      /\ req.dma \in BOOLEAN /\ req.force \in BOOLEAN
  BY <1>2, <1>5, DiskAssumption DEF Counted, Active, Asked
<1>7. /\ LunGood(case, l)
      /\ ~req.dma => l.mode < DMA
      /\ l.mode >= DMA => /\ l.drive >= DMA /\ Suited(case.x, l)
                          /\ req.retry # MaxRetries - 1
  BY <1>1, <1>6, ReinitIs
<1> HIDE DEF l
<1>8. now \in PIO .. SA150
  BY <1>7 DEF LunGood, Settings
<1>9. slow \in BOOLEAN /\ dma \in BOOLEAN
  OBVIOUS
<1>10. slow = (now >= DMA) /\ dma = (req.dma /\ slow)
  OBVIOUS
<1> HIDE DEF now, slow, dma
<1>11. sent \in Asked(case) /\ Unmoved(sent) /\ sent.copied = req.copied
  BY <1>5, <1>8, <1>9 DEF Asked, Active
<1> HIDE DEF sent
<1>12. q \in Asked(case) /\ Unmoved(q) /\ (q.copied = req.copied \/ q.copied = req.done)
  <2>1. CASE sent.dma /\ sent.table.bounced
    <3> DEFINE at == sent.done
    <3>1. q = [sent EXCEPT !.copied = at]
      BY <2>1 DEF PreSync
    <3>2. at \in Nat /\ at = req.done
      BY <1>5, <1>11 DEF Asked
    <3> HIDE DEF at, q
    <3> QED BY <1>11, <3>1, <3>2 DEF Asked
  <2>2. CASE ~(sent.dma /\ sent.table.bounced)
    <3>1. q = sent
      BY <2>2 DEF PreSync
    <3> QED BY <1>11, <3>1
  <2> QED BY <2>1, <2>2
<1> HIDE DEF q
<1>13. ReqGood(case, l, q, medium)
  <2>1. Counted(case, q)
    BY <1>2, <1>5, <1>10, <1>12 DEF Counted, Active
  <2>2. Running(case, l, q)
    <3>1. q.last = l.mode /\ q.dma = (req.dma /\ l.mode >= DMA) /\ q.retry = req.retry
      BY <1>10, <1>12 DEF now
    <3>2. l.mode \in PIO .. SA150
      BY <1>8 DEF now
    <3>3. ~q.dma => l.mode < DMA
      <4>1. CASE ~req.dma
        BY <1>7, <4>1
      <4>2. CASE ~(l.mode >= DMA)
        BY <3>2, <4>2
      <4> QED BY <3>1, <4>1, <4>2, Zenon
    <3> QED BY <1>7, <3>1, <3>3 DEF Running
  <2>3. Written(case, q, medium)
    <3>1. Put(q, q.done) = Put(req, req.done)
      BY <1>12 DEF Put
    <3> QED BY <1>2, <1>5, <1>12, <3>1 DEF Written, Active
  <2>4. Tabled(case, q)
    <3>1. q.dma => req.dma
      BY <1>10, <1>12
    <3> QED BY <1>2, <1>5, <1>12, <3>1 DEF Tabled, Active
  <2>5. GivenUp(q)
    BY <1>12 DEF GivenUp
  <2> QED BY <1>5, <1>12, <2>1, <2>2, <2>3, <2>4, <2>5 DEF ReqGood
<1>14. FlagsGood(case, flags', q)
  <2>1. ~flags.dmaActive /\ flags.init
    BY <1>1, <1>2 DEF FlagsGood, NoReq
  <2>2. flag \in BOOLEAN /\ busy \in BOOLEAN
    OBVIOUS
  <2>3. busy => q.dma
    BY <1>11, <1>12, <2>1
  <2> DEFINE f == [flags EXCEPT !.removable = flag]
  <2>4. flags' = [f EXCEPT !.dmaActive = f.dmaActive \/ sent.dma]
    BY <1>3 DEF DmaStart
  <2> HIDE DEF flag
  <2>5. /\ f \in [init : BOOLEAN, removable : BOOLEAN, noLba48 : BOOLEAN,
                  errRetry : 0 .. MaxRetries, errLba : Regs(case), errCount : Nat,
                  dmaActive : BOOLEAN]
        /\ f.dmaActive = flags.dmaActive /\ f.init = flags.init
    BY <1>1, <2>2 DEF FlagsGood
  <2>6. flags' = [f EXCEPT !.dmaActive = busy]
    BY <2>4, <2>5
  <2> HIDE DEF f, busy
  <2>7. /\ flags' \in [init : BOOLEAN, removable : BOOLEAN, noLba48 : BOOLEAN,
                      errRetry : 0 .. MaxRetries, errLba : Regs(case), errCount : Nat,
                      dmaActive : BOOLEAN]
        /\ flags'.dmaActive = busy /\ flags'.init = flags.init
    BY <2>2, <2>5, <2>6
  <2> QED BY <1>12, <2>1, <2>3, <2>7 DEF FlagsGood
<1> QED BY <1>1, <1>2, <1>7, <1>13, <1>14 DEF IInv

(* The engine is stopped. *)
LEMMA DmaDoneGood ==
  ASSUME NEW c, NEW f, NEW q, FlagsGood(c, f, q)
  PROVE  /\ DmaDone(f) \in [init : BOOLEAN, removable : BOOLEAN, noLba48 : BOOLEAN,
                            errRetry : 0 .. MaxRetries, errLba : Regs(c), errCount : Nat,
                            dmaActive : BOOLEAN]
         /\ ~DmaDone(f).dmaActive /\ DmaDone(f).init = f.init
PROOF
<1> DEFINE off == FALSE
<1>1. DmaDone(f) = [f EXCEPT !.dmaActive = off] /\ off \in BOOLEAN /\ ~off
  BY DEF DmaDone
<1> HIDE DEF off
<1> QED BY <1>1 DEF FlagsGood

(* A command that ends well has put its blocks behind the ones before.     *)
LEMMA DoneGood ==
  ASSUME IInv, NEW often \in BOOLEAN, Done(often)
  PROVE  IInv'
PROOF
<1> DEFINE l == Learn(often)
           moved == Moved
           ok == moved >= req.count
           dma == req.dma /\ ok
           next == IF moved < req.count THEN "NEXT" ELSE "COMPLETE"
           q == [req EXCEPT !.done = moved, !.left = 0, !.ok = ok, !.dma = dma, !.state = next]
           now == medium \o Command
<1>1. /\ case \in Cases /\ LunGood(case, lun) /\ FlagsGood(case, flags, req)
      /\ req = NoReq \/ ReqGood(case, lun, req, medium)
  BY DEF IInv
<1>2. /\ req.state = "EXPECTING" /\ medium' = now /\ lun' = l /\ req' = q
      /\ flags' = DmaDone(flags) /\ case' = case
  BY DEF Done
<1>3. ReqGood(case, lun, req, medium)
  BY <1>1, <1>2 DEF NoReq
<1>4. /\ req \in Asked(case) /\ case.off + req.count <= Len(case.pages) * PageUnits
      /\ Counted(case, req) /\ Written(case, req, medium) /\ Tabled(case, req)
  BY <1>3 DEF ReqGood
<1>5. /\ req.first \in Nat /\ req.count \in Nat \ {0} /\ req.done \in Nat /\ req.left \in Nat
      /\ req.dma \in BOOLEAN
  BY <1>4 DEF Asked
<1>6. /\ req.done < req.count /\ req.retry <= MaxRetries /\ (req.retry > 0 => req.force)
      /\ req.bcount \in 1 .. req.count - req.done /\ req.left = req.bcount
      /\ case.top < DMA => ~req.dma
  BY <1>2, <1>4 DEF Counted, Active
<1>7. LunGood(case, l)
  <2>1. CASE l = lun
    BY <1>1, <2>1
  <2>2. CASE l = [lun EXCEPT !.limit = lun.mode]
    <3>1. /\ lun \in Settings /\ lun.top \in {case.top, Lower(case.top, PIO0 + 4)}
          /\ case.top < DMA => lun.mode < DMA
          /\ lun.mode >= DMA => lun.reinit \/ (lun.drive >= DMA /\ Suited(case.x, lun))
      BY <1>1 DEF LunGood
    <3> HIDE DEF l
    <3>2. /\ l \in Settings /\ l.top = lun.top /\ l.mode = lun.mode /\ l.limit = lun.mode
          /\ l.drive = lun.drive /\ l.chip = lun.chip /\ l.reinit = lun.reinit
      BY <2>2, <3>1 DEF Settings
    <3>3. Suited(case.x, lun) => Suited(case.x, l)
      BY <3>2 DEF Suited
    <3> QED BY <3>1, <3>2, <3>3 DEF LunGood
  <2> QED BY <2>1, <2>2 DEF Learn
<1>8. moved \in Nat /\ ok \in BOOLEAN /\ ok = (moved >= req.count)
  BY <1>5 DEF Moved
<1>9. Plain(case) => moved = req.done + req.left
  <2>1. CASE case.lba
    <3>1. req.done = 0
      BY <1>2, <1>4, <2>1 DEF Tabled, Active
    <3> QED BY <1>5, <3>1 DEF Moved
  <2>2. CASE case.top < DMA
    BY <1>6, <2>2 DEF Moved
  <2> QED BY <2>1, <2>2 DEF Plain
<1> HIDE DEF moved, ok
<1>10. /\ dma \in BOOLEAN /\ (dma => req.dma) /\ next \in Active \cup {"COMPLETE"}
       /\ next = "COMPLETE" => ok /\ moved >= req.count
       /\ next # "COMPLETE" => next = "NEXT" /\ moved < req.count /\ ~ok
  <2>1. dma \in BOOLEAN /\ (dma => req.dma)
    BY <1>8
  <2>2. CASE moved < req.count
    <3>1. next = "NEXT"
      BY <2>2
    <3>2. ~ok
      BY <1>5, <1>8, <2>2 DEF ok
    <3> HIDE DEF next, dma
    <3> QED BY <2>1, <2>2, <3>1, <3>2 DEF Active
  <2>3. CASE ~(moved < req.count)
    <3>1. next = "COMPLETE" /\ moved >= req.count
      BY <1>5, <1>8, <2>3
    <3>2. ok
      BY <1>8, <3>1
    <3> HIDE DEF next, dma
    <3> QED BY <2>1, <3>1, <3>2
  <2> QED BY <2>2, <2>3
<1> HIDE DEF dma, next, now, l
<1>11. /\ q \in Asked(case) /\ q.first = req.first /\ q.count = req.count /\ q.retry = req.retry
       /\ q.force = req.force /\ q.dma = dma /\ q.done = moved /\ q.lba = req.lba
       /\ q.bcount = req.bcount /\ q.table = req.table /\ q.from = req.from
       /\ q.copied = req.copied /\ q.ok = ok /\ q.state = next
  <2> DEFINE none == 0
  <2>1. q = [req EXCEPT !.done = moved, !.left = none, !.ok = ok, !.dma = dma, !.state = next]
    OBVIOUS
  <2>2. none \in Nat
    OBVIOUS
  <2> HIDE DEF none, q
  <2> QED BY <1>4, <1>8, <1>10, <2>1, <2>2 DEF Asked
<1> HIDE DEF q
<1>12. Plain(case) => now = Put(req, req.done + req.bcount)
  <2> SUFFICES ASSUME Plain(case) PROVE now = Put(req, req.done + req.bcount)
    OBVIOUS
  <2>1. medium = Put(req, req.done) /\ Back(case, req.lba) = req.first + req.done
    BY <1>2, <1>4 DEF Written, Active
  <2> DEFINE b == LBARegsBack(req.lba)
             d == IF ~req.dma THEN req.done
                  ELSE IF req.table.bounced THEN req.copied ELSE req.from
             more == [k \in 1 .. req.bcount |-> <<b + k - 1, d + k>>]
             n == req.bcount
             m == req.done
             Pair == Nat \X Nat
  <2>2. b = req.first + req.done
    BY <1>1, <2>1, RegsAre
  <2>3. d = req.done
    <3>1. CASE case.lba
      <4>1. req.done = 0 /\ req.from = 0 /\ req.copied = 0
        BY <1>2, <1>4, <3>1 DEF Tabled, Active
      <4> QED BY <4>1
    <3>2. CASE case.top < DMA
      BY <1>6, <3>2
    <3> QED BY <3>1, <3>2 DEF Plain
  <2>4. Command = more
    BY DEF Command
  <2> HIDE DEF b, d
  <2>5. n \in Nat /\ m \in Nat /\ req.first \in Nat
    BY <1>5, <1>6
  <2>6. \A k \in 1 .. n : more[k] = <<req.first + (m + k) - 1, m + k>>
    <3> SUFFICES ASSUME NEW k \in 1 .. n
                 PROVE  more[k] = <<req.first + (m + k) - 1, m + k>>
      OBVIOUS
    <3>1. b + k - 1 = req.first + (m + k) - 1 /\ d + k = m + k
      BY <2>2, <2>3, <2>5
    <3>2. more[k] = <<b + k - 1, d + k>>
      OBVIOUS
    <3> HIDE DEF more
    <3> QED BY <3>1, <3>2
  <2>7. more \in Seq(Pair) /\ Len(more) = n
    <3>1. \A k \in 1 .. n : <<b + k - 1, d + k>> \in Pair
      BY <2>2, <2>3, <2>5
    <3>2. more \in [1 .. n -> Pair]
      BY <3>1
    <3> HIDE DEF more, Pair, n
    <3> QED BY <2>5, <3>2
  <2> DEFINE s == Put(req, m)
             w == Put(req, m + n)
             v == s \o more
  <2>8. /\ s \in Seq(Pair) /\ Len(s) = m
        /\ \A k \in 1 .. m : s[k] = <<req.first + k - 1, k>>
    <3>1. \A k \in 1 .. m : <<req.first + k - 1, k>> \in Pair
      BY <2>5
    <3>2. s = [k \in 1 .. m |-> <<req.first + k - 1, k>>]
      BY DEF Put
    <3> HIDE DEF s, m
    <3>3. s \in [1 .. m -> Pair]
      BY <3>1, <3>2
    <3> HIDE DEF Pair
    <3> QED BY <2>5, <3>2, <3>3
  <2>9. /\ w \in Seq(Pair) /\ Len(w) = m + n
        /\ \A k \in 1 .. m + n : w[k] = <<req.first + k - 1, k>>
    <3>1. \A k \in 1 .. m + n : <<req.first + k - 1, k>> \in Pair
      BY <2>5
    <3>2. w = [k \in 1 .. m + n |-> <<req.first + k - 1, k>>]
      BY DEF Put
    <3> HIDE DEF w, m, n
    <3>3. w \in [1 .. m + n -> Pair]
      BY <3>1, <3>2
    <3> HIDE DEF Pair
    <3> QED BY <2>5, <3>2, <3>3
  <2> HIDE DEF more, s, w, Pair
  <2>10. /\ v \in Seq(Pair) /\ Len(v) = m + n
         /\ \A k \in 1 .. m : v[k] = s[k]
         /\ \A k \in m + 1 .. m + n : v[k] = more[k - m]
    <3>1. /\ v \in Seq(Pair) /\ Len(v) = Len(s) + Len(more)
          /\ \A k \in 1 .. Len(s) : v[k] = s[k]
          /\ \A k \in Len(s) + 1 .. Len(s) + Len(more) : v[k] = more[k - Len(s)]
      BY <2>7, <2>8, JoinedAre
    <3> HIDE DEF v
    <3> QED BY <2>7, <2>8, <3>1
  <2>11. ASSUME NEW k \in 1 .. m + n
         PROVE  v[k] = w[k]
    <3> HIDE DEF v
    <3>1. CASE k <= m
      <4>1. k \in 1 .. m
        BY <2>5, <3>1
      <4> QED BY <2>8, <2>9, <2>10, <4>1
    <3>2. CASE k > m
      <4>1. k \in m + 1 .. m + n /\ k - m \in 1 .. n /\ m + (k - m) = k
        BY <2>5, <3>2
      <4>2. more[k - m] = <<req.first + (m + (k - m)) - 1, m + (k - m)>>
        BY <2>6, <4>1, Zenon
      <4>3. v[k] = more[k - m]
        BY <2>10, <4>1
      <4> QED BY <2>9, <4>1, <4>2, <4>3
    <3>3. k <= m \/ k > m
      BY <2>5
    <3> QED BY <3>1, <3>2, <3>3, Zenon
  <2> HIDE DEF v
  <2>12. v = w
    BY <2>9, <2>10, <2>11
  <2> QED BY <2>1, <2>4, <2>12 DEF now, v, w, s, m, n
<1>13. ReqGood(case, l, q, now)
  <2>1. Counted(case, q)
    BY <1>5, <1>6, <1>10, <1>11 DEF Counted, Active
  <2>2. Running(case, l, q) /\ GivenUp(q)
    BY <1>10, <1>11 DEF Running, GivenUp
  <2>3. Written(case, q, now)
    <3> SUFFICES ASSUME Plain(case)
                 PROVE  /\ next = "NEXT" => /\ now = Put(q, q.done) /\ ~case.lba /\ q.done > 0
                                            /\ Back(case, q.lba) + q.bcount = q.first + q.done
                        /\ next = "COMPLETE" => now = Put(q, q.count)
      BY <1>10, <1>11 DEF Written, Active
    <3>1. moved = req.done + req.bcount /\ moved <= req.count /\ moved > 0
      BY <1>5, <1>6, <1>9
    <3>2. now = Put(q, moved)
      BY <1>11, <1>12, <3>1 DEF Put
    <3>3. ASSUME next = "NEXT"
          PROVE  /\ ~case.lba
                 /\ Back(case, q.lba) + q.bcount = q.first + q.done
      <4>1. Back(case, req.lba) = req.first + req.done
        BY <1>2, <1>4 DEF Written
      <4>2. ~case.lba
        <5> SUFFICES ASSUME case.lba PROVE FALSE
          OBVIOUS
        <5>1. req.done = 0 /\ req.bcount = req.count
          BY <1>2, <1>4 DEF Tabled, Active
        <5> QED BY <1>5, <1>10, <3>1, <3>3, <5>1
      <4> QED BY <1>5, <1>6, <1>11, <3>1, <4>1, <4>2
    <3>4. ASSUME next = "COMPLETE"
          PROVE  moved = req.count
      <4>1. moved >= req.count
        BY <1>10, <3>4
      <4> QED BY <1>5, <1>8, <3>1, <4>1
    <3> QED BY <1>11, <3>1, <3>2, <3>3, <3>4
  <2>4. Tabled(case, q)
    <3> SUFFICES ASSUME case.lba
                 PROVE  /\ next = "COMPLETE"
                        /\ q.table \in {NoTable, Setup(case.h, case.pages, case.off, q.count, TRUE)}
      BY <1>11 DEF Tabled, Active
    <3>1. /\ req.done = 0 /\ req.bcount = req.count
          /\ req.table \in {NoTable, Setup(case.h, case.pages, case.off, req.count, TRUE)}
      BY <1>2, <1>4 DEF Tabled, Active
    <3>2. moved = req.count
      BY <1>5, <1>6, <1>9, <3>1 DEF Plain
    <3>3. ~(moved < req.count)
      BY <1>5, <3>2
    <3>4. next = "COMPLETE"
      BY <1>10, <3>3
    <3> QED BY <1>11, <3>1, <3>4
  <2> QED BY <1>4, <1>11, <2>1, <2>2, <2>3, <2>4 DEF ReqGood
<1>14. FlagsGood(case, flags', q)
  <2>1. flags.init
    BY <1>1, <1>2 DEF FlagsGood, NoReq
  <2> QED BY <1>1, <1>2, <2>1, DmaDoneGood DEF FlagsGood
<1> QED BY <1>1, <1>2, <1>7, <1>13, <1>14 DEF IInv

(* After an error a DMA request is tried again, and the last try is in PIO.*)
LEMMA ErrorGood ==
  ASSUME IInv, Error
  PROVE  IInv'
PROOF
<1> DEFINE tried == [req EXCEPT !.retry = req.retry + 1]
           again == tried.retry < MaxRetries /\ req.dma
           q == IF again THEN [tried EXCEPT !.force = TRUE, !.state = "QUEUED"]
                ELSE [tried EXCEPT !.state = "COMPLETE"]
<1>1. /\ case \in Cases /\ LunGood(case, lun) /\ FlagsGood(case, flags, req)
      /\ req = NoReq \/ ReqGood(case, lun, req, medium)
  BY DEF IInv
<1>2. /\ req.state = "EXPECTING" /\ req' = q /\ flags' = DmaDone(flags)
      /\ case' = case /\ lun' = lun /\ medium' = medium
  BY DEF Error
<1>3. ReqGood(case, lun, req, medium)
  BY <1>1, <1>2 DEF NoReq
<1>4. /\ req \in Asked(case) /\ case.off + req.count <= Len(case.pages) * PageUnits
      /\ Counted(case, req) /\ Running(case, lun, req) /\ Written(case, req, medium)
      /\ Tabled(case, req)
  BY <1>3 DEF ReqGood
<1>5. /\ req.retry \in 0 .. MaxRetries /\ MaxRetries \in 4 .. 6 /\ req.done < req.count
      /\ req.dma \in BOOLEAN /\ req.last = lun.mode
      /\ case.top < DMA => ~req.dma
  BY <1>2, <1>4, DiskAssumption DEF Counted, Running, Active, Asked
<1>6. /\ tried \in Asked(case) /\ tried.retry = req.retry + 1
      /\ tried.first = req.first /\ tried.count = req.count /\ tried.dma = req.dma
      /\ tried.done = req.done /\ tried.lba = req.lba /\ tried.bcount = req.bcount
      /\ tried.table = req.table /\ tried.from = req.from /\ tried.copied = req.copied
      /\ tried.ok = req.ok /\ tried.last = req.last /\ tried.left = req.left
  <2> DEFINE more == req.retry + 1
  <2>1. tried = [req EXCEPT !.retry = more] /\ more \in 0 .. MaxRetries + 1
    BY <1>5
  <2> HIDE DEF more, tried
  <2>2. /\ tried \in Asked(case) /\ tried.retry = more
        /\ tried.first = req.first /\ tried.count = req.count /\ tried.dma = req.dma
        /\ tried.done = req.done /\ tried.lba = req.lba /\ tried.bcount = req.bcount
        /\ tried.table = req.table /\ tried.from = req.from /\ tried.copied = req.copied
        /\ tried.ok = req.ok /\ tried.last = req.last /\ tried.left = req.left
    BY <1>4, <2>1 DEF Asked
  <2> QED BY <2>2 DEF more
<1> HIDE DEF tried
<1> DEFINE Unmoved(x) == /\ x.first = req.first /\ x.count = req.count /\ x.dma = req.dma
                      /\ x.done = req.done /\ x.lba = req.lba /\ x.bcount = req.bcount
                      /\ x.table = req.table /\ x.from = req.from /\ x.copied = req.copied
                      /\ x.ok = req.ok /\ x.last = req.last /\ x.retry = req.retry + 1
<1>7. /\ q \in Asked(case) /\ Unmoved(q)
      /\ again => q.state = "QUEUED" /\ q.force
      /\ ~again => q.state = "COMPLETE"
  <2>1. CASE again
    <3> DEFINE on == TRUE
    <3>1. q = [tried EXCEPT !.force = on, !.state = "QUEUED"] /\ on \in BOOLEAN /\ on
      BY <2>1
    <3> HIDE DEF on, q, again
    <3> QED BY <1>6, <2>1, <3>1 DEF Asked, Active
  <2>2. CASE ~again
    <3>1. q = [tried EXCEPT !.state = "COMPLETE"]
      BY <2>2
    <3> HIDE DEF q, again
    <3> QED BY <1>6, <2>2, <3>1 DEF Asked
  <2> QED BY <2>1, <2>2
<1> HIDE DEF q
<1>8. CASE again
  <2>1. q.state = "QUEUED" /\ q.force /\ req.dma /\ q.retry < MaxRetries
    BY <1>6, <1>7, <1>8
  <2> HIDE DEF again
  <2>2. q.retry <= MaxRetries
    BY <1>5, <1>7, <2>1
  <2>9. ~req.ok
    BY <1>2, <1>4 DEF Counted, Active
  <2>3. Counted(case, q) /\ Running(case, lun, q) /\ GivenUp(q)
    BY <1>5, <1>7, <2>1, <2>2, <2>9 DEF Counted, Running, GivenUp
  <2>4. ASSUME Plain(case)
        PROVE  case.lba
    BY <1>5, <2>1, <2>4 DEF Plain
  <2>5. Tabled(case, q)
    BY <1>2, <1>4, <1>7, <2>1 DEF Tabled, Active
  <2>6. Written(case, q, medium)
    <3> SUFFICES ASSUME Plain(case)
                 PROVE  medium = Put(q, q.done) /\ q.done = 0
      BY <2>1 DEF Written
    <3>1. medium = Put(req, req.done)
      BY <1>2, <1>4 DEF Written, Active
    <3>2. Put(q, q.done) = Put(req, req.done)
      BY <1>7 DEF Put
    <3>3. req.done = 0
      BY <1>2, <1>4, <2>4 DEF Tabled, Active
    <3> QED BY <1>7, <3>1, <3>2, <3>3
  <2>7. ReqGood(case, lun, q, medium)
    BY <1>4, <1>7, <2>3, <2>5, <2>6 DEF ReqGood
  <2>8. FlagsGood(case, flags', q)
    <3>1. flags.init
      BY <1>1, <1>2 DEF FlagsGood, NoReq
    <3> QED BY <1>1, <1>2, <3>1, DmaDoneGood DEF FlagsGood
  <2> QED BY <1>1, <1>2, <2>7, <2>8 DEF IInv
<1>9. CASE ~again
  <2>1. q.state = "COMPLETE" /\ (~req.dma \/ req.retry + 1 >= MaxRetries)
    BY <1>5, <1>6, <1>7, <1>9
  <2> HIDE DEF again
  <2>2. GivenUp(q)
    <3> SUFFICES ASSUME q.retry <= MaxRetries PROVE q.last < DMA
      BY DEF GivenUp
    <3>1. CASE ~req.dma
      <4>1. lun.mode < DMA
        BY <1>2, <1>4, <3>1 DEF Running
      <4> QED BY <1>5, <1>7, <4>1
    <3>2. CASE req.dma
      <4>1. req.retry # MaxRetries - 1
        BY <1>2, <1>4, <3>2 DEF Running
      <4> QED BY <1>5, <1>7, <2>1, <3>2, <4>1
    <3> QED BY <1>5, <3>1, <3>2
  <2>3. Counted(case, q) /\ Running(case, lun, q)
    BY <1>5, <1>7, <2>1 DEF Counted, Running, Active
  <2>4. Written(case, q, medium)
    <3> SUFFICES ASSUME Plain(case), q.ok
                 PROVE  medium = Put(q, q.count)
      BY <2>1 DEF Written, Active
    <3>1. ~req.ok
      BY <1>2, <1>4 DEF Counted, Active
    <3> QED BY <1>7, <3>1
  <2>5. Tabled(case, q)
    BY <1>2, <1>4, <1>7, <2>1 DEF Tabled, Active
  <2>6. ReqGood(case, lun, q, medium)
    BY <1>4, <1>7, <2>2, <2>3, <2>4, <2>5 DEF ReqGood
  <2>7. FlagsGood(case, flags', q)
    <3>1. flags.init
      BY <1>1, <1>2 DEF FlagsGood, NoReq
    <3> QED BY <1>1, <1>2, <3>1, DmaDoneGood DEF FlagsGood
  <2> QED BY <1>1, <1>2, <2>6, <2>7 DEF IInv
<1> QED BY <1>8, <1>9

(* A reset ends the request; its retry count stays within its bound. *)
LEMMA ResetGood ==
  ASSUME IInv, NEW forgets \in BOOLEAN, Reset(forgets)
  PROVE  IInv'
PROOF
<1>1. /\ case \in Cases /\ LunGood(case, lun) /\ FlagsGood(case, flags, req)
      /\ req = NoReq \/ ReqGood(case, lun, req, medium)
  BY DEF IInv
<1>2. /\ req.state = "EXPECTING" /\ req' = NoReq /\ case' = case
      /\ lun' = [lun EXCEPT !.reinit = TRUE, !.drive = IF forgets THEN PIO0 ELSE lun.drive]
      /\ flags' = IF req.bcount # 0 /\ req.retry < MaxRetries
                  THEN [DmaDone(flags) EXCEPT !.errLba = req.lba, !.errCount = req.bcount,
                                              !.errRetry = req.retry + 1]
                  ELSE [DmaDone(flags) EXCEPT !.errRetry = 0]
  BY DEF Reset
<1>3. req \in Asked(case)
  BY <1>1, <1>2 DEF NoReq, ReqGood
<1>4. req.lba \in Regs(case) /\ req.bcount \in Nat /\ req.retry \in Nat
  BY <1>3, DiskAssumption DEF Asked
<1>5. LunGood(case, lun')
  <2> DEFINE on == TRUE
             drive == IF forgets THEN PIO0 ELSE lun.drive
  <2>1. /\ lun \in Settings /\ lun.top \in {case.top, Lower(case.top, PIO0 + 4)}
        /\ case.top < DMA => lun.mode < DMA /\ lun.limit < DMA
    BY <1>1 DEF LunGood
  <2>2. drive \in PIO .. SA150 /\ on \in BOOLEAN /\ on
    BY <2>1 DEF Settings
  <2>3. lun' = [lun EXCEPT !.reinit = on, !.drive = drive]
    BY <1>2
  <2> HIDE DEF on, drive
  <2>4. /\ lun' \in Settings /\ lun'.top = lun.top /\ lun'.mode = lun.mode
        /\ lun'.limit = lun.limit /\ lun'.reinit
    BY <2>1, <2>2, <2>3 DEF Settings
  <2> QED BY <2>1, <2>4 DEF LunGood
<1>6. FlagsGood(case, flags', NoReq)
  <2> DEFINE f == DmaDone(flags)
             Typed == [init : BOOLEAN, removable : BOOLEAN, noLba48 : BOOLEAN,
                       errRetry : 0 .. MaxRetries, errLba : Regs(case), errCount : Nat,
                       dmaActive : BOOLEAN]
  <2>1. f \in Typed /\ ~f.dmaActive
    BY <1>1, DmaDoneGood
  <2> HIDE DEF f
  <2>2. CASE req.bcount # 0 /\ req.retry < MaxRetries
    <3> DEFINE more == req.retry + 1
    <3>1. more \in 0 .. MaxRetries
      BY <1>4, <2>2, DiskAssumption
    <3>2. flags' = [f EXCEPT !.errLba = req.lba, !.errCount = req.bcount, !.errRetry = more]
      BY <1>2, <2>2 DEF f
    <3> HIDE DEF more
    <3>3. flags' \in Typed /\ flags'.dmaActive = f.dmaActive
      BY <1>4, <2>1, <3>1, <3>2
    <3> QED BY <2>1, <3>3 DEF FlagsGood
  <2>3. CASE ~(req.bcount # 0 /\ req.retry < MaxRetries)
    <3> DEFINE none == 0
    <3>1. none \in 0 .. MaxRetries
      BY DiskAssumption
    <3>2. flags' = [f EXCEPT !.errRetry = none]
      BY <1>2, <2>3 DEF f
    <3> HIDE DEF none
    <3>3. flags' \in Typed /\ flags'.dmaActive = f.dmaActive
      BY <2>1, <3>1, <3>2
    <3> QED BY <2>1, <3>3 DEF FlagsGood
  <2> QED BY <2>2, <2>3
<1> QED BY <1>1, <1>2, <1>5, <1>6 DEF IInv

(* Every step keeps the invariant. *)
LEMMA NextGood == IInv /\ [Next]_vars => IInv'
PROOF
<1> SUFFICES ASSUME IInv, [Next]_vars PROVE IInv'
  OBVIOUS
<1>1. CASE HwInitialize
  BY <1>1, HwInitializeGood
<1>2. ASSUME NEW r \in Requests, NewRequest(r) PROVE IInv'
  BY <1>2, NewRequestGood
<1>3. CASE Prepare
  BY <1>3, PrepareGood
<1>4. ASSUME NEW idle \in BOOLEAN, Exec(idle) PROVE IInv'
  BY <1>4, ExecGood
<1>5. ASSUME NEW often \in BOOLEAN, Done(often) PROVE IInv'
  BY <1>5, DoneGood
<1>6. CASE Error
  BY <1>6, ErrorGood
<1>7. ASSUME NEW forgets \in BOOLEAN, Reset(forgets) PROVE IInv'
  BY <1>7, ResetGood
<1>8. CASE Return
  <2>1. /\ case \in Cases /\ LunGood(case, lun) /\ FlagsGood(case, flags, req)
    BY DEF IInv
  <2>2. req.state = "COMPLETE" /\ req' = NoReq /\ case' = case /\ lun' = lun /\ flags' = flags
    BY <1>8 DEF Return
  <2>3. FlagsGood(case, flags, NoReq)
    BY <2>1, <2>2 DEF FlagsGood
  <2> QED BY <2>1, <2>2, <2>3 DEF IInv
<1>9. CASE UNCHANGED vars
  BY <1>9 DEF IInv, vars
<1> QED BY <1>1, <1>2, <1>3, <1>4, <1>5, <1>6, <1>7, <1>8, <1>9 DEF Next

-----------------------------------------------------------------------------
(* The results. *)

(* The inductive invariant holds. *)
LEMMA Invariance == Spec => []IInv
PROOF
<1>1. Init => IInv
  BY InitGood
<1>2. IInv /\ [Next]_vars => IInv'
  BY NextGood
<1> QED BY <1>1, <1>2, PTL DEF Spec

(* What the invariant says in every state of the properties of DiskXfer.   *)
LEMMA Consequences == IInv => TypeOK /\ Placed /\ ChipFits /\ FailedInPio
PROOF
<1> SUFFICES ASSUME IInv PROVE TypeOK /\ Placed /\ ChipFits /\ FailedInPio
  OBVIOUS
<1>1. /\ case \in Cases /\ LunGood(case, lun) /\ FlagsGood(case, flags, req)
      /\ req = NoReq \/ ReqGood(case, lun, req, medium)
  BY DEF IInv
<1>2. req.state # "NONE" => ReqGood(case, lun, req, medium)
  BY <1>1 DEF NoReq
<1>3. TypeOK
  <2>1. /\ lun.mode \in PIO .. SA150 /\ lun.limit \in PIO .. SA150
        /\ lun.drive \in PIO .. SA150 /\ lun.chip \in Foreign .. SA150
    BY <1>1 DEF LunGood, Settings, Timings
  <2>2. flags.errRetry \in 0 .. MaxRetries /\ (flags.dmaActive => req.state = "EXPECTING" /\ req.dma)
    BY <1>1 DEF FlagsGood
  <2>3. ASSUME req.state # "NONE"
        PROVE  /\ req.state \in {"QUEUED", "READY", "EXPECTING", "NEXT", "COMPLETE"}
               /\ req.retry \in 0 .. MaxRetries + 1
               /\ req.state = "EXPECTING" => req.bcount \in 1 .. req.count
    <3>1. req \in Asked(case) /\ Counted(case, req)
      BY <1>2, <2>3 DEF ReqGood
    <3>2. /\ req.state \in {"QUEUED", "READY", "EXPECTING", "NEXT", "COMPLETE"}
          /\ req.retry \in 0 .. MaxRetries + 1 /\ req.done \in Nat /\ req.count \in Nat \ {0}
      BY <3>1 DEF Asked, Active
    <3>3. req.state = "EXPECTING" => req.bcount \in 1 .. req.count
      <4> SUFFICES ASSUME req.state = "EXPECTING" PROVE req.bcount \in 1 .. req.count
        OBVIOUS
      <4>1. req.bcount \in 1 .. req.count - req.done
        BY <3>1 DEF Counted
      <4> QED BY <3>2, <4>1
    <3> QED BY <3>2, <3>3
  <2> QED BY <2>1, <2>2, <2>3 DEF TypeOK
<1>4. Placed
  <2> SUFFICES ASSUME req.state = "COMPLETE", req.ok, Plain(case)
               PROVE  medium = Put(req, req.count)
    BY DEF Placed, Plain, Put
  <2> QED BY <1>2 DEF ReqGood, Written
<1>5. ChipFits
  <2> SUFFICES ASSUME req.state = "EXPECTING", req.dma
               PROVE  lun.drive >= DMA /\ Suited(case.x, lun)
    BY DEF ChipFits
  <2> QED BY <1>2 DEF ReqGood, Running
<1>6. FailedInPio
  BY <1>2 DEF ReqGood, GivenUp, FailedInPio
<1> QED BY <1>3, <1>4, <1>5, <1>6

(* The settings are always modes of the driver, and a request that waits   *)
(* for its interrupt has a part of at least one block to transfer          *)
(* (IdeReadWrite, AtapiDmaInit).                                           *)
THEOREM Typed == Spec => []TypeOK
PROOF
  BY Invariance, Consequences, PTL

(* However often a request is cut into parts, failed and tried again: when *)
(* it succeeds its blocks are on the medium in order, each with the data   *)
(* of its place in the buffer (IdeReadWrite); drives without LBA that do   *)
(* DMA are left out.                                                       *)
THEOREM BlocksPlaced == Spec => []Placed
PROOF
  BY Invariance, Consequences, PTL

(* For every family of controllers and every drive, whichever modes it     *)
(* refuses: while a DMA command runs the drive is in a DMA mode and the    *)
(* timing of the controller is one for that mode, but for those that are   *)
(* misprogrammed (AtapiDmaInit and AtapiDmaReinit).                        *)
THEOREM TimingsSuit == Spec => []ChipFits
PROOF
  BY Invariance, Consequences, PTL

(* The tables of retry modes bring a request to PIO before it is given up, *)
(* but for one whose retry count reads the slot without an initialiser     *)
(* (retry_Wdma, retry_Udma).                                               *)
THEOREM LastTryInPio == Spec => []FailedInPio
PROOF
  BY Invariance, Consequences, PTL

(* Without 64 bit addresses the DMA table of a request has all units of    *)
(* its part of the buffer, or of the bounce buffer, in order, in no more   *)
(* entries than there are, none too long and none across a boundary        *)
(* (AtapiDmaSetup).                                                        *)
THEOREM TablesFit ==
  ASSUME \A c \in Cases : ~c.h.host64
  PROVE  Spec => []TableFits
PROOF
<1>1. IInv => TableFits
  <2> SUFFICES ASSUME IInv, req.state = "READY", req.dma, case.lba
               PROVE  /\ Units(req.table.table) = Wanted
                      /\ Len(req.table.table) <= case.h.max
                      /\ \A e \in Range(req.table.table) : EntryFits(case.h, e)
    BY DEF TableFits, EntryFits
  <2>1. case \in Cases /\ ReqGood(case, lun, req, medium)
    BY DEF IInv, NoReq
  <2>2. /\ req \in Asked(case) /\ case.off + req.count <= Len(case.pages) * PageUnits
        /\ Tabled(case, req)
    BY <2>1 DEF ReqGood
  <2>3. /\ req.done = 0 /\ req.bcount = req.count /\ req.table.ok
        /\ req.table \in {NoTable, Setup(case.h, case.pages, case.off, req.count, TRUE)}
    BY <2>2 DEF Tabled, Active
  <2>4. req.count \in Nat \ {0}
    BY <2>2 DEF Asked
  <2>5. ~case.h.host64
    BY <2>1
  <2>6. /\ HostIs(case.h) /\ case.pages \in Seq(PageFrames)
        /\ case.off \in 0 .. PageUnits - 1 /\ case.off \in Nat
    BY <2>1, CaseIs DEF PageUnits
  <2> DEFINE s == req.table
             m == Setup(case.h, case.pages, case.off, req.count, TRUE)
             Shows(x) ==
               /\ Units(x.table) = [k \in 1 .. req.count |->
                    IF x.bounced THEN Unit(0, case.h.bounce * PageUnits + k - 1)
                    ELSE UnitAt(case.pages, case.off + k - 1)]
               /\ Len(x.table) <= case.h.max
               /\ \A e \in Range(x.table) : EntryFits(case.h, e)
  <2>7. s.ok /\ s = m
    <3>1. NoTable.ok = FALSE
      BY DEF NoTable
    <3>2. s.ok /\ s \in {NoTable, m}
      BY <2>3
    <3> HIDE DEF s, m
    <3> QED BY <3>1, <3>2
  <2>8. Shows(s)
    <3>1. m.ok /\ ~case.h.host64 => Shows(m)
      BY <2>2, <2>4, <2>6, SetupIs
    <3> HIDE DEF s, m, Describes
    <3> QED BY <3>1, <2>5, <2>7
  <2>9. Wanted = [k \in 1 .. req.count |->
                    IF s.bounced THEN Unit(0, case.h.bounce * PageUnits + k - 1)
                    ELSE UnitAt(case.pages, case.off + k - 1)]
    <3>1. Wanted = [k \in 1 .. req.count |->
                      IF s.bounced THEN Unit(0, case.h.bounce * PageUnits + k - 1)
                      ELSE UnitAt(case.pages, case.off + 0 + k - 1)]
      BY <2>3 DEF Wanted
    <3>2. \A k \in 1 .. req.count : case.off + 0 + k - 1 = case.off + k - 1
      BY <2>6
    <3> HIDE DEF s
    <3> QED BY <3>1, <3>2
  <2> QED BY <2>8, <2>9
<1> QED BY <1>1, Invariance, PTL

=============================================================================
