------------------------------ MODULE DiskXfer ------------------------------
(***************************************************************************)
(* One hard disk and its reads and writes (IdeReadWrite), from the choice  *)
(* of the transfer mode at start to the retries in slower modes: the chain *)
(* of parts a request is cut into when the drive has no LBA, the DMA table *)
(* of each part, the errors that make the driver step down, the resets     *)
(* whose retry count outlives the request, and the settings that are to be *)
(* in force when a command runs.                                           *)
(*                                                                         *)
(* A block is the unit of transfers; block i of a buffer holds data i.     *)
(***************************************************************************)
EXTENDS Integers, Sequences, SequencesExt, FiniteSets, XferModes, DmaTable

CONSTANTS Cases,      \* the controllers and drives: records
                      \*   [x, d, lba, no80, h, pages, off, removable]
          Requests,   \* what is asked for: records [first, count, high]
          Track,      \* blocks of a track
          MaxRetries, \* MAX_RETRIES
          MaxResets   \* bound on bus resets

(* The last retry a request gets by itself is in PIO (see retry_Wdma).     *)
ASSUME DiskAssumption == /\ Track \in Nat \ {0}
                         /\ MaxRetries \in 4 .. 6
                         /\ MaxResets \in Nat

(* Three families have chips up to UDMA5 or SATA ones, none with UDMA6;    *)
(* no controller has boundaries within a page or segments shorter than one.*)
ASSUME CasesAssumption ==
  \A c \in Cases :
    /\ c.x \in Controllers /\ c.d \in Drives /\ c.top \in PIO .. SA150
    /\ c.x.family \in {"aliold", "viabar", "serverworks"} => c.top # UDMA6
    /\ {c.lba, c.no80, c.removable, c.h.host64} \subseteq BOOLEAN
    /\ {c.h.max, c.h.frag, c.h.bound, c.h.bounce, c.h.longest} \subseteq Nat
    /\ c.h.max > 0 /\ c.h.frag >= PageUnits /\ c.h.bound % PageUnits = 0
    /\ c.pages \in Seq([hi : Nat, no : Nat])
    /\ c.off \in 0 .. PageUnits - 1

(* The buffer of a request is there for all of it. *)
ASSUME RequestsAssumption ==
  \A r \in Requests :
    /\ r.first \in Nat /\ r.count \in Nat \ {0} /\ r.high \in BOOLEAN
    /\ \A c \in Cases : c.off + r.count <= Len(c.pages) * PageUnits

VARIABLES case,    \* which of Cases
          lun,     \* the modes, see XferModes
          flags,   \* DeviceFlags and what a reset saves (LunExt->err...)
          req,     \* the request and its ATA_REQ
          medium,  \* what commands have done: pairs <<block, data>>
          resets

vars == <<case, lun, flags, req, medium, resets>>

(* Up to the slots that have an initialiser; the next one holds 0. *)
retry_Wdma == <<2, 2, 2, -1, -1, -1, 0>>
retry_Udma == <<6, 2, -1, -1, -1, -1, 0>>

NoReq == [state |-> "NONE"]

(* The registers of a block: UniAtaCalculateLBARegs and its inverse. *)
LBARegs(b) == IF case.lba THEN [lba |-> b]
              ELSE [cyl |-> b \div Track, sector |-> (b % Track) + 1]

LBARegsBack(r) == IF case.lba THEN r.lba ELSE r.cyl * Track + r.sector - 1

(* The blocks a command may transfer from block b: what is left of the     *)
(* track; no limit that matters with LBA.                                  *)
MaxCount(b, n) == IF case.lba THEN n ELSE Lower(n, Track - (b % Track))

Init == /\ case \in Cases
        /\ lun = [mode |-> PIO, limit |-> PIO, top |-> case.top, drive |-> PIO0,
                  chip |-> Snoop, reinit |-> FALSE]
        /\ flags = [init |-> FALSE, removable |-> case.removable,
                    noLba48 |-> FALSE, errRetry |-> 0, errLba |-> LBARegs(0),
                    errCount |-> 0, dmaActive |-> FALSE]
        /\ req = NoReq
        /\ medium = <<>>
        /\ resets = 0

(* HwInitialize: the modes the drive takes become its limit. *)
HwInitialize ==
  /\ ~flags.init
  /\ LET set == DmaInitFull(case.x, case.d,
                            [lun EXCEPT !.limit = lun.top, !.mode = lun.top],
                            TRUE)
     IN  lun' = [set EXCEPT !.limit = set.mode]
  /\ flags' = [flags EXCEPT !.init = TRUE]
  /\ UNCHANGED <<case, req, medium, resets>>

NewRequest(r) ==
  /\ flags.init /\ req.state = "NONE"
  /\ r.high => case.lba
  /\ req' = [state |-> "QUEUED", first |-> r.first, count |-> r.count,
             high |-> r.high, retry |-> 0, force |-> FALSE, dma |-> FALSE,
             done |-> 0, left |-> 0, lba |-> LBARegs(0), bcount |-> 0,
             table |-> NoTable, from |-> 0, copied |-> 0, ok |-> FALSE,
             last |-> PIO]
  /\ medium' = <<>>
  /\ UNCHANGED <<case, lun, flags, resets>>

(* The table of the part that starts with data done. A table that is there *)
(* is taken as it is.                                                      *)
DmaSetup(r) ==
  IF r.table.ok THEN [r EXCEPT !.dma = TRUE]
  ELSE LET pos == case.off + r.done
           t == Setup(case.h, SubSeq(case.pages, pos \div PageUnits + 1,
                                     Len(case.pages)),
                      pos % PageUnits, r.bcount, TRUE)
       IN  [r EXCEPT !.table = t, !.from = r.done, !.dma = t.ok]

(* A part that starts where the last one started. *)
NextPartInPlace(r) ==
  LET b == IF r.done > 0 THEN LBARegsBack(r.lba) ELSE r.first
      n == MaxCount(b, r.count - r.done)
  IN  [r EXCEPT !.lba = LBARegs(b), !.bcount = n, !.left = n, !.dma = FALSE]

(* The part of a request that is to be carried out next. *)
NextPart(r) ==
  LET b == IF r.done > 0 THEN LBARegsBack(r.lba) + r.bcount ELSE r.first
      n == MaxCount(b, r.count - r.done)
  IN  [r EXCEPT !.lba = LBARegs(b), !.bcount = n, !.left = n, !.dma = FALSE]

(* The retry count that a reset saved goes to the request that asks for    *)
(* the same blocks.                                                        *)
Remembered(r) == /\ flags.errRetry # 0
                 /\ r.lba = flags.errLba /\ r.bcount = flags.errCount

Prepare ==
  /\ req.state \in {"QUEUED", "NEXT"}
  /\ LET part == NextPart(req)
         again == Remembered(part)
         counted == IF again /\ part.retry < MaxRetries
                    THEN [part EXCEPT !.retry = flags.errRetry, !.force = TRUE]
                    ELSE part
     IN  /\ req' = [(IF lun.limit >= DMA THEN DmaSetup(counted) ELSE counted)
                      EXCEPT !.state = "READY"]
         /\ flags' = [flags EXCEPT !.errRetry = IF again THEN 0 ELSE @]
  /\ UNCHANGED <<case, lun, medium, resets>>

----------------------------------------------------------------------------
(* AtapiDmaReinit: the mode a command is to run in. *)
ToPio(idle) ==
  IF lun.mode > PIO0 + 5 /\ lun.mode # PIO0 + case.d.pio
  THEN DmaInit(case.x, case.d, lun, case.d.pio, -1, -1, idle)
  ELSE IF lun.limit < lun.mode
       THEN DmaInit(case.x, case.d, lun, lun.limit - PIO0, -1, -1, idle)
       ELSE lun

(* The table of WDMA modes is not followed. *)
StepDownOnce(idle) ==
  DmaInit(case.x, case.d, lun, case.d.pio, Lower(retry_Wdma[1], case.d.wdma),
          Lower(retry_Udma[req.retry + 1], case.d.udma), idle)

StepDown(idle) ==
  DmaInit(case.x, case.d, lun, case.d.pio,
          Lower(retry_Wdma[req.retry + 1], case.d.wdma),
          Lower(retry_Udma[req.retry + 1], case.d.udma), idle)

LimitLba48 == \/ flags.noLba48 /\ req.high /\ lun.mode > PIO0 + 5
              \/ req.force /\ req.high

(* A reset does not make the mode be set again. *)
ReinitForgotten(idle) ==
  IF ~req.dma \/ LimitLba48 THEN ToPio(idle)
  ELSE IF req.force THEN StepDown(idle)
  ELSE IF lun.limit > lun.mode
       THEN DmaInitFull(case.x, case.d, lun, idle)
       ELSE lun

Reinit(idle) ==
  IF ~req.dma \/ LimitLba48 THEN ToPio(idle)
  ELSE IF req.force THEN StepDown(idle)
  ELSE IF lun.limit > lun.mode \/ lun.reinit
       THEN DmaInitFull(case.x, case.d, lun, idle)
       ELSE lun

(* AtapiDmaDBPreSync: the data of a write go to the bounce buffer. *)
PreSync(r) == IF r.dma /\ r.table.bounced THEN [r EXCEPT !.copied = r.done]
              ELSE r

(* AtapiDmaStart and AtapiDmaDone: the bus master engine. *)
DmaStart(f, r) == [f EXCEPT !.dmaActive = @ \/ r.dma]
DmaDone(f) == [f EXCEPT !.dmaActive = FALSE]

(* The command is sent.  For a block beyond the reach of LBA28 a flag of   *)
(* the request is set in the flags of the device, where the bit means a    *)
(* removable drive.                                                        *)
Exec(idle) ==
  /\ req.state = "READY"
  /\ lun' = Reinit(idle)
  /\ LET sent == [req EXCEPT !.state = "EXPECTING",
                             !.dma = @ /\ lun'.mode >= DMA,
                             !.last = lun'.mode]
     IN  /\ req' = PreSync(sent)
         /\ flags' = DmaStart([flags EXCEPT !.removable =
                                 @ \/ (req.dma /\ LimitLba48)], sent)
  /\ UNCHANGED <<case, medium, resets>>

----------------------------------------------------------------------------
(* What a command writes: data come from the buffer in order, or from      *)
(* where the table points, the bounce buffer perhaps.                      *)
Command == LET b == LBARegsBack(req.lba)
               d == IF ~req.dma THEN req.done
                    ELSE IF req.table.bounced THEN req.copied ELSE req.from
           IN  [k \in 1 .. req.bcount |-> <<b + k - 1, d + k>>]

(* The statistics decide whether the slower mode is kept. *)
Learn(often) == IF req.force /\ (often \/ case.no80)
                THEN [lun EXCEPT !.limit = lun.mode] ELSE lun

Moved == IF req.dma THEN req.left ELSE req.done + req.left

Done(often) ==
  /\ req.state = "EXPECTING"
  /\ Len(medium) <= 2 * req.count
  /\ often => req.force
  /\ medium' = medium \o Command
  /\ lun' = Learn(often)
  /\ req' = [req EXCEPT !.done = Moved, !.left = 0, !.ok = Moved >= req.count,
                        !.dma = @ /\ Moved >= req.count,
                        !.state = IF Moved < req.count THEN "NEXT"
                                  ELSE "COMPLETE"]
  /\ flags' = DmaDone(flags)
  /\ UNCHANGED <<case, resets>>

(* The engine is not stopped when a command ends with an error. *)
ErrorRunsOn ==
  /\ req.state = "EXPECTING"
  /\ LET tried == [req EXCEPT !.retry = @ + 1]
         again == tried.retry < MaxRetries /\ req.dma
     IN  req' = IF again THEN [tried EXCEPT !.force = TRUE, !.state = "QUEUED"]
                ELSE [tried EXCEPT !.state = "COMPLETE"]
  /\ UNCHANGED <<case, lun, flags, medium, resets>>

(* The drive reports an error: a DMA request is queued again, to be done   *)
(* in a slower mode.                                                       *)
Error ==
  /\ req.state = "EXPECTING"
  /\ LET tried == [req EXCEPT !.retry = @ + 1]
         again == tried.retry < MaxRetries /\ req.dma
     IN  req' = IF again THEN [tried EXCEPT !.force = TRUE, !.state = "QUEUED"]
                ELSE [tried EXCEPT !.state = "COMPLETE"]
  /\ flags' = DmaDone(flags)
  /\ UNCHANGED <<case, lun, medium, resets>>

(* A bus reset: the request goes back to its issuer, its retry count is    *)
(* kept for when it comes again; the drive may forget its mode.            *)
Reset(forgets) ==
  /\ req.state = "EXPECTING" /\ resets < MaxResets
  /\ resets' = resets + 1
  /\ flags' = IF req.bcount # 0 /\ req.retry < MaxRetries
              THEN [DmaDone(flags) EXCEPT !.errLba = req.lba,
                                          !.errCount = req.bcount,
                                          !.errRetry = req.retry + 1]
              ELSE [DmaDone(flags) EXCEPT !.errRetry = 0]
  /\ lun' = [lun EXCEPT !.reinit = TRUE,
                        !.drive = IF forgets THEN PIO0 ELSE @]
  /\ req' = NoReq
  /\ UNCHANGED <<case, medium>>

Return == /\ req.state = "COMPLETE"
          /\ req' = NoReq
          /\ UNCHANGED <<case, lun, flags, medium, resets>>

Next == \/ HwInitialize
        \/ \E r \in Requests : NewRequest(r)
        \/ Prepare
        \/ \E idle \in BOOLEAN : Exec(idle)
        \/ \E often \in BOOLEAN : Done(often)
        \/ Error
        \/ \E forgets \in BOOLEAN : Reset(forgets)
        \/ Return

Spec == Init /\ [][Next]_vars

----------------------------------------------------------------------------
(* The settings are modes, and a request that waits for its interrupt has  *)
(* a part to transfer.                                                     *)
TypeOK ==
  /\ lun.mode \in PIO .. SA150 /\ lun.limit \in PIO .. SA150
  /\ lun.drive \in PIO .. SA150 /\ lun.chip \in Foreign .. SA150
  /\ flags.errRetry \in 0 .. MaxRetries
  /\ req.state # "NONE" =>
       /\ req.state \in {"QUEUED", "READY", "EXPECTING", "NEXT", "COMPLETE"}
       /\ req.retry \in 0 .. MaxRetries + 1
       /\ req.state = "EXPECTING" => req.bcount \in 1 .. req.count
  /\ flags.dmaActive => req.state = "EXPECTING" /\ req.dma

(* A request that succeeds has put every block where it belongs, once and  *)
(* in order, whatever it was cut into and however often it was retried     *)
(* (IdeReadWrite computes each part from the part before it).  A drive     *)
(* without LBA that does DMA is left out, see the README.                  *)
Placed ==
  req.state = "COMPLETE" /\ req.ok /\ (case.lba \/ case.top < DMA) =>
    medium = [k \in 1 .. req.count |-> <<req.first + k - 1, k>>]

(* A DMA table describes the part of the buffer the command transfers, or  *)
(* the bounce buffer, in entries the controller can do: not too long and   *)
(* not across a boundary (the merging in AtapiDmaSetup).  With 64 bit      *)
(* addresses only the lower halves are looked at, see the README.          *)
Wanted ==
  [k \in 1 .. req.bcount |->
     IF req.table.bounced THEN Unit(0, case.h.bounce * PageUnits + k - 1)
     ELSE UnitAt(case.pages, case.off + req.done + k - 1)]

TableFits ==
  req.state = "READY" /\ req.dma /\ case.lba =>
    /\ Units(req.table.table) = Wanted
    /\ Len(req.table.table) <= case.h.max
    /\ \A e \in Range(req.table.table) :
         /\ e.len <= case.h.frag
         /\ case.h.bound # 0 =>
              e.lo \div case.h.bound = (e.lo + e.len - 1) \div case.h.bound

(* While a DMA command runs the drive is in a DMA mode and the controller  *)
(* has a timing for it that is not too fast, also after a reset that made  *)
(* the drive forget its mode; but for the controllers for which            *)
(* AtapiDmaInit writes another one or none.                                *)
Misprogrammed(x, drive) ==
  \/ x.family \in {"cyrix3x", "piix4e", "hpt370"}
  \/ x.family \in {"serverworks", "ati"} /\ ModeClass(drive) = "wdma"
  \/ x.family = "hpt" /\ drive = DMA
  \/ x.family \in {"promiseold", "promisetx"} /\ drive \in {WDMA0, UDMA6}
  \/ x.family \in {"alinew", "amd", "ati"} /\ drive = UDMA6

Suited(x, l) == Fits(l.chip, l.drive) \/ Misprogrammed(x, l.drive)

ChipFits ==
  req.state = "EXPECTING" /\ req.dma =>
    lun.drive >= DMA /\ Suited(case.x, lun)

(* A request is given up only after it was tried in PIO; but for one whose *)
(* restored retry count reads the slot without an initialiser: it goes     *)
(* back to UDMA0 and may fail there for good.                              *)
FailedInPio == req.state = "COMPLETE" /\ ~req.ok /\ req.retry <= MaxRetries =>
                 req.last < DMA
=============================================================================
