------------------------------ MODULE XferModes ------------------------------
(***************************************************************************)
(* How the driver chooses the transfer mode of a device (id_dma.cpp):      *)
(* AtapiDmaInit takes the best modes it may use and goes down a ladder     *)
(* that differs for every family of controllers.  On each rung it asks the *)
(* drive for a mode (SET FEATURES); when the drive accepts, it writes the  *)
(* timing of that mode into the controller.                                *)
(*                                                                         *)
(* Modes have the numbers of the driver.  A timing is named by the mode    *)
(* the table entry that is written was made for.                           *)
(*                                                                         *)
(*   x    the controller: family, bm (bus master), capable (the status     *)
(*        register says that DMA was set up), cable40, twoAtapi, eighty    *)
(*   d    the drive: pio, wdma, udma (best modes, -1 for none), refuses,   *)
(*        atapi, chs (manual geometry), sata, orig, supportsDma            *)
(*   lun  what changes: mode (TransferMode), limit (LimitedTransferMode),  *)
(*        top (MaxTransferMode of the channel), drive (the mode the drive  *)
(*        is in), chip (the timing in the controller), reinit              *)
(***************************************************************************)
EXTENDS Integers, Sequences, SequencesExt

PIO   == 0
PIO0  == 8
DMA   == 16
WDMA0 == 32
WDMA2 == 34
UDMA0 == 64
UDMA6 == 70
SA150 == 71

(* Timings that are not those of a mode. *)
Snoop   == -1  \* the controller needs none, it watches SET FEATURES
Beyond  == -2  \* read past the end of the table
Foreign == -3  \* from the table of another controller

Families ==
  {"acard", "aliold", "alinew", "amd", "viabar", "cyrix3x", "cyrixold",
   "cyrix35", "national", "cypress", "netcell", "marvell", "hpt", "hpt370",
   "piix", "piix4e", "isch", "ich", "promiseold", "promisetx", "serverworks",
   "ati", "siimio", "cmd", "sis", "cenatek", "ite33", "ite133", "ite133new",
   "hint", "jmicron", "sata", "unknown"}

Controllers ==
  [family : Families, bm : BOOLEAN, capable : BOOLEAN, cable40 : BOOLEAN,
   twoAtapi : BOOLEAN, eighty : BOOLEAN]

Drives ==
  [pio : 0 .. 5, wdma : -1 .. 2, udma : -1 .. 6, refuses : SUBSET (PIO .. SA150),
   atapi : BOOLEAN, chs : BOOLEAN, sata : BOOLEAN, orig : PIO .. SA150,
   supportsDma : BOOLEAN]

Lower(a, b) == IF a < b THEN a ELSE b
Higher(a, b) == IF a < b THEN b ELSE a

----------------------------------------------------------------------------
(* AtaSetTransferMode: what becomes of lun when mode m is asked for.       *)
(* A drive that cannot do better than PIO2 anyway may refuse.              *)
Accepts(d, m) == IF d.chs THEN m <= PIO0 + 2
                 ELSE (IF m > UDMA6 THEN UDMA0 + Lower(d.udma, 6) ELSE m)
                        \notin d.refuses

MayRefuse(d, m) == m <= PIO0 + 2 /\ ~(d.pio > 0 /\ d.wdma > 0 /\ d.udma > 0)

SetsMode(d, m) == Accepts(d, m) \/ MayRefuse(d, m)

SetMode(d, lun, m) ==
  IF Accepts(d, m)
  THEN [lun EXCEPT !.mode = m,
                   !.drive = IF d.chs THEN @
                             ELSE IF m > UDMA6 THEN UDMA0 + Lower(d.udma, 6)
                             ELSE m]
  ELSE IF MayRefuse(d, m) THEN [lun EXCEPT !.mode = PIO0 + d.pio]
  ELSE lun

----------------------------------------------------------------------------
(* Rungs of a ladder, from the best mode down.                             *)
Rung(m, c) == [mode |-> m, chip |-> c]

Rungs(base, n, c(_)) ==
  [k \in 1 .. n + 1 |-> Rung(base + n + 1 - k, c(n + 1 - k))]

(* The table entries of the modes themselves. *)
OwnU(i) == UDMA0 + i
OwnW(i) == WDMA0 + i
OwnP(i) == PIO0 + i
Quiet(i) == Snoop

(* The entry of mode m in a table of n entries, at index i. *)
Entry(m, i, n) == IF i < n THEN m ELSE Beyond

(* WDMA2 only, and only beside PIO4. *)
Wdma2Rung(p, w, c) == IF w >= 2 /\ p >= 4 THEN <<Rung(WDMA2, c)>> ELSE <<>>

(* Any DMA mode, which one is not known; the timing stays (see chip = DMA).*)
AnyDma(p, w, c) == IF w >= 0 /\ p >= 4 THEN <<Rung(DMA, c)>> ELSE <<>>

(* A ladder ends with a PIO mode whose timing is written in any case       *)
(* (always) or when the drive accepts it (accepted), with the generic      *)
(* policy, or with nothing.                                                *)
Ladder(rungs, p, end, c) ==
  [rungs |-> rungs, end |-> end, pio |-> PIO0 + p, chip |-> c]

----------------------------------------------------------------------------
(* The ladders.  Kept == the timing in the controller is not touched.      *)
Kept(lun) == lun.chip

LadderAcardAli(x, lun, p, w, u) ==
  CASE x.family = "acard" ->
         Ladder(Rungs(UDMA0, u, OwnU) \o Wdma2Rung(p, w, WDMA2),
                p, "generic", 0)
    [] x.family \in {"aliold", "alinew"} ->
         Ladder(Rungs(UDMA0, u, LAMBDA i : Entry(OwnU(i), i, 6))
                  \o Wdma2Rung(p, w, WDMA2) \o Rungs(PIO0, p, OwnP),
                p, "stop", 0)

LadderVia(x, lun, p, w, u) ==
  Ladder(Rungs(UDMA0, u, LAMBDA i : Entry(OwnU(i), 8 + i, 14))
           \o (IF x.family = "viabar" THEN <<>> ELSE Rungs(WDMA0, w, OwnW)),
         p, "always", OwnP(p))

(* The Cyrix 5530 gets the timing of the best mode that was asked for.     *)
CyrixTiming(best) == best

LadderCyrix(x, lun, p, w, u) ==
  LET q == Lower(p, 4)
  IN  CASE x.family = "cyrix3x" ->
             Ladder(Rungs(UDMA0, u, LAMBDA i : CyrixTiming(OwnU(u)))
                      \o Rungs(WDMA0, w, LAMBDA i : CyrixTiming(OwnW(w))),
                    q, "accepted", OwnP(q))
        [] x.family = "cyrixold" ->
             Ladder(Rungs(WDMA0, w, Quiet), q, "accepted", Beyond)
        [] x.family = "cyrix35" ->
             Ladder(Rungs(UDMA0, u, Quiet) \o Rungs(WDMA0, w, Quiet),
                    q, "accepted", Snoop)

LadderSmall(x, lun, p, w, u) ==
  CASE x.family = "national" ->
         Ladder(Rungs(UDMA0, u, OwnU) \o Rungs(WDMA0, w, OwnW)
                  \o <<Rung(PIO0 + Lower(p, 4), OwnP(Lower(p, 4)))>>,
                Lower(p, 4), "generic", 0)
    [] x.family = "cypress" ->
         Ladder(Wdma2Rung(p, w, WDMA2), p, "generic", 0)
    [] x.family = "netcell" ->
         Ladder(Wdma2Rung(p, w, Snoop), p, "generic", 0)
    [] x.family = "marvell" ->
         Ladder(Rungs(UDMA0, u, Quiet) \o Rungs(WDMA0, w, Quiet)
                  \o AnyDma(p, w, Snoop), p, "always", Snoop)

(* The case of the HPT370 has no break and goes on with the table of the   *)
(* HPT366.                                                                 *)
HptTiming(x, m) == IF x.family = "hpt370" THEN Foreign ELSE m

LadderHpt(x, lun, p, w, u) ==
  Ladder(Rungs(UDMA0, u, LAMBDA i : HptTiming(x, OwnU(i)))
           \o Rungs(WDMA0, w, LAMBDA i : HptTiming(x, OwnW(i)))
           \o AnyDma(p, w, Kept(lun)),
         p, "always", HptTiming(x, OwnP(Lower(p, 4))))

(* The PIIX4e is overclocked whatever mode the drive accepted. *)
IntelTiming(x, i) == IF x.family = "piix4e" THEN OwnU(3) ELSE OwnU(i)

LadderIntel(x, lun, p, w, u) ==
  Ladder((IF x.family = "piix" THEN <<>>
          ELSE Rungs(UDMA0, u, LAMBDA i : IntelTiming(x, i)))
           \o Rungs(WDMA0, w, OwnW), p, "always", OwnP(p))

(* promise_timing does nothing for UDMA6 and for WDMA0. *)
PromiseTiming(lun, m) == IF m \in {UDMA6, WDMA0} THEN Kept(lun) ELSE m

LadderPromise(x, d, lun, p, w, u) ==
  LET no == x.family = "promiseold" /\ d.atapi
  IN  Ladder((IF no THEN <<>> ELSE
                Rungs(UDMA0, u, LAMBDA i : PromiseTiming(lun, OwnU(i)))
                  \o Rungs(WDMA0, w, LAMBDA i : PromiseTiming(lun, OwnW(i)))),
             p, "always", OwnP(Lower(p, 4)))

(* A WDMA mode gets the timing of the best one that was asked for. *)
LadderServerWorks(x, lun, p, w, u) ==
  Ladder(Rungs(UDMA0, u, LAMBDA i : Entry(OwnU(i), 8 + i, 14))
           \o Rungs(WDMA0, w, LAMBDA i : OwnW(w)), p, "always", OwnP(p))

LadderSilicon(x, lun, p, w, u) ==
  IF x.family = "siimio"
  THEN Ladder(Rungs(UDMA0, u, OwnU) \o Rungs(WDMA0, w, OwnW),
              p, "always", OwnP(p))
  ELSE Ladder(Rungs(UDMA0, Lower(u, 5), OwnU) \o Rungs(WDMA0, w, OwnW),
              p, "always", Entry(OwnP(p), p, 5))

LadderSis(x, lun, p, w, u) ==
  Ladder(Rungs(UDMA0, u, OwnU) \o Rungs(WDMA0, w, OwnW), p, "always", OwnP(p))

(* The ITE 8172 is kept slow on purpose; the 8213 never gets its faster    *)
(* clocks, because a mode number is compared with the number of a mode.    *)
IteTiming(x, i) == CASE x.family = "ite33"     -> OwnU(0)
                     [] x.family = "ite133"    -> OwnU(i)
                     [] x.family = "ite133new" -> OwnU(Lower(i, 2))

LadderIte(x, lun, p, w, u) ==
  LET v == IF x.family = "ite133new" /\ ~x.eighty THEN Lower(u, 2) ELSE u
  IN  Ladder(Rungs(UDMA0, v, LAMBDA i : IteTiming(x, i)) \o Rungs(WDMA0, w, OwnW),
             p, "always", OwnP(p))

(* One mode is asked for, and only when the BIOS set up DMA. *)
LadderSingle(x, lun, p, w, m) ==
  IF w >= 0 /\ x.capable THEN Ladder(<<Rung(m, Snoop)>>, p, "stop", 0)
                         ELSE Ladder(<<>>, p, "always", Snoop)

LadderJmicron(x, lun, p, w, u) ==
  Ladder(Rungs(UDMA0, u, Quiet) \o Rungs(WDMA0, w, Quiet),
         Lower(p, 4), "accepted", Snoop)

(* The device dependent part of AtapiDmaInit. *)
LadderOf(x, d, lun, p, w, u) ==
  CASE x.family \in {"acard", "aliold", "alinew"} ->
         LadderAcardAli(x, lun, p, w, u)
    [] x.family \in {"amd", "viabar"} -> LadderVia(x, lun, p, w, u)
    [] x.family \in {"cyrix3x", "cyrixold", "cyrix35"} ->
         LadderCyrix(x, lun, p, w, u)
    [] x.family \in {"national", "cypress", "netcell", "marvell"} ->
         LadderSmall(x, lun, p, w, u)
    [] x.family \in {"hpt", "hpt370"} -> LadderHpt(x, lun, p, w, u)
    [] x.family \in {"piix", "piix4e", "isch", "ich"} ->
         LadderIntel(x, lun, p, w, u)
    [] x.family \in {"promiseold", "promisetx"} ->
         LadderPromise(x, d, lun, p, w, u)
    [] x.family \in {"serverworks", "ati"} -> LadderServerWorks(x, lun, p, w, u)
    [] x.family \in {"siimio", "cmd"} -> LadderSilicon(x, lun, p, w, u)
    [] x.family = "sis" -> LadderSis(x, lun, p, w, u)
    [] x.family = "cenatek" -> LadderSingle(x, lun, p, w, WDMA0 + w)
    [] x.family \in {"ite33", "ite133", "ite133new"} ->
         LadderIte(x, lun, p, w, u)
    [] x.family = "hint" -> LadderSingle(x, lun, p, w, DMA)
    [] x.family = "jmicron" -> LadderJmicron(x, lun, p, w, u)
    [] OTHER -> Ladder(<<>>, p, "generic", 0)

----------------------------------------------------------------------------
(* An unknown controller: DMA when its status says it is set up for it.    *)
Generic(x, d, lun, p, w, u) ==
  IF ~d.atapi /\ (u >= 0 \/ w >= 0) /\ x.bm /\ x.capable /\ SetsMode(d, DMA)
  THEN [SetMode(d, lun, DMA) EXCEPT !.chip = Snoop]
  ELSE IF SetsMode(d, PIO0 + p)
       THEN [SetMode(d, lun, PIO0 + p) EXCEPT !.chip = Snoop]
       ELSE [lun EXCEPT !.mode = PIO]

(* The first rung the drive accepts wins. *)
GoDown(x, d, lun, p, w, u) ==
  LET l == LadderOf(x, d, lun, p, w, u)
      k == SelectInSeq(l.rungs, LAMBDA r : SetsMode(d, r.mode))
  IN  IF k # 0
      THEN [SetMode(d, lun, l.rungs[k].mode) EXCEPT !.chip = l.rungs[k].chip]
      ELSE CASE l.end = "generic" -> Generic(x, d, lun, p, w, u)
             [] l.end = "stop" -> lun
             [] l.end = "always" ->
                  [SetMode(d, lun, l.pio) EXCEPT !.chip = l.chip]
             [] l.end = "accepted" ->
                  IF SetsMode(d, l.pio)
                  THEN [SetMode(d, lun, l.pio) EXCEPT !.chip = l.chip]
                  ELSE lun

(* SATA: the interface has no timings; the mode only tells PIO from DMA.   *)
SataInit(x, d, lun, p, w, u) ==
  LET fast == u >= 5 \/ (u >= 0 /\ lun.top >= SA150)
      best == Lower(lun.limit, d.orig)
      slow == fast /\ ~d.sata /\ u > 2 /\ x.cable40
      v == IF slow THEN 2 ELSE Lower(u, 6)
      q == IF slow THEN Lower(p, lun.limit - PIO0) ELSE p
      m == IF v >= 0 THEN UDMA0 + v
           ELSE IF w >= 0 THEN WDMA0 + w ELSE PIO0 + q
  IN  IF fast /\ d.sata /\ SetsMode(d, best)
      THEN [SetMode(d, lun, best) EXCEPT !.chip = Snoop]
      ELSE [SetMode(d, lun, m) EXCEPT !.chip = Snoop]

(* The best modes below a limit (of the channel, then of the device). *)
Cap(t, m) ==
  CASE m >= UDMA0 -> [t EXCEPT !.u = Lower(@, m - UDMA0)]
    [] m >= WDMA0 /\ m < UDMA0 -> [t EXCEPT !.u = -1, !.w = Lower(@, m - WDMA0)]
    [] m >= PIO0 /\ m < WDMA0 ->
         [t EXCEPT !.u = -1, !.w = -1, !.p = Lower(@, m - PIO0)]
    [] OTHER -> [p |-> 0, w |-> -1, u |-> -1]

(* AtapiDmaInit(p, w, u) when the drive is idle or not (it gives up then,  *)
(* with the device in PIO).                                                *)
DmaInit(x, d, lun0, p0, w0, u0, idle) ==
  LET asked == [p |-> p0, w |-> IF x.bm THEN w0 ELSE -1,
                u |-> IF x.bm THEN u0 ELSE -1]
      t    == Cap(Cap(asked, lun0.top), lun0.limit)
      lun  == [lun0 EXCEPT !.mode = PIO, !.reinit = FALSE]
      cut  == t.u > 2 /\ x.cable40 /\ ~d.sata
      u    == IF cut THEN 2 ELSE t.u
      p    == IF cut THEN Lower(t.p, lun.limit - PIO) ELSE t.p
      both == x.family = "aliold" /\ (u >= 0 \/ t.w >= 0) /\ x.twoAtapi
      lowered == [lun EXCEPT !.top = Lower(@, PIO0 + 4)]
  IN  IF ~idle THEN lun
      ELSE IF x.family = "sata" \/ lun.top >= SA150
           THEN SataInit(x, d, lun, t.p, t.w, t.u)
      ELSE IF x.family = "unknown" THEN Generic(x, d, lun, t.p, t.w, t.u)
      ELSE IF both THEN Generic(x, d, lowered, p, -1, -1)
      ELSE GoDown(x, d, lun, p, t.w, u)

(* AtapiDmaInit__: with the best modes the drive reports. *)
DmaInitFull(x, d, lun, idle) ==
  IF d.supportsDma THEN DmaInit(x, d, lun, d.pio, d.wdma, d.udma, idle)
                   ELSE DmaInit(x, d, lun, d.pio, -1, -1, idle)

----------------------------------------------------------------------------
ModeClass(m) == CASE m >= UDMA0 -> "udma"
                  [] m >= WDMA0 /\ m < UDMA0 -> "wdma"
                  [] m >= DMA /\ m < WDMA0 -> "dma"
                  [] OTHER -> "pio"

(* The controller is not faster than the drive and of the same kind. *)
Fits(chip, drive) == \/ chip = Snoop
                     \/ chip >= 0 /\ ModeClass(chip) = ModeClass(drive)
                                  /\ chip <= drive
=============================================================================
