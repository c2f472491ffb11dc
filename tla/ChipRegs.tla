------------------------------ MODULE ChipRegs ------------------------------
(***************************************************************************)
(* What the driver makes of a PCI controller before it uses it: the table  *)
(* row that describes the chip, the number of channels it is given, the    *)
(* size of the arrays they are kept in, and the addresses of the registers *)
(* of every channel (UniataChipDetect and UniataChipDetectChannels of      *)
(* id_init.cpp, the UniataInit... helpers, AtapiGetIoRange of              *)
(* id_probe.cpp).                                                          *)
(*                                                                         *)
(* A chip is a record: vendor, type and flags are those of its row in the  *)
(* tables, dev names a device the code asks for by its number, row says    *)
(* how the row is found ("listed", "bridge" when the table is searched for *)
(* the south bridge, "none"), bars is the set of base addresses it         *)
(* implements, sub its subclass, cfg the set of bits the code reads from   *)
(* the configuration space or the registers, nop and pi the number and the *)
(* map of ports an AHCI adapter reports (nop is 0 when the detection of    *)
(* AHCI fails).                                                            *)
(* A register is a pair: the base address it is relative to and an offset. *)
(***************************************************************************)
EXTENDS Integers, FiniteSets, FiniteSetsExt

DefaultChannels == 2

\* A base address of its own for the registers reached through an index and a data register.
IndexedBar == 6

Has(chip, flag) == flag \in chip.flags

(***************************************************************************)
(* The row of the chip.                                                    *)
(***************************************************************************)

\* Devices of SiS and the IDE function of VIA share one number; the row is that of the first bridge on the bus which the
\* table lists.
SearchesBridge(chip) == chip.vendor = "sis" \/ chip.dev = "viaIde"

HasRow(chip) == chip.row = IF SearchesBridge(chip) THEN "bridge" ELSE "listed"

\* AHCI in the row counts unless the subclass says IDE or the sixth base address is missing.
UsesAhci(chip) ==
    IF HasRow(chip)
    THEN /\ Has(chip, "AHCI")
         /\ IF chip.vendor \in {"nvidia", "ati"} THEN chip.sub # "ide" ELSE 5 \in chip.bars
    ELSE chip.sub = "ahci"

SimplexChip(chip) == HasRow(chip) /\ Has(chip, "SIMPLEX")

(***************************************************************************)
(* The number of channels.                                                 *)
(***************************************************************************)

\* The width of a port map or mask: the position of its highest bit.
Width(ports) == IF ports = {} THEN 0 ELSE 1 + Max(ports)

AhciLimit(chip) ==
    CASE chip.dev \in {"jmb361", "m88se6111"}              -> 1
      [] chip.dev = "m88se6121"                            -> 2
      [] chip.dev \in {"m88se6141", "m88se6145", "m88se9123"} -> 4
      [] OTHER                                             -> 32

\* An adapter reports how many ports it has and which ones are there; the higher of the two counts, up to the limit of the
\* device. The registers cannot be read without the sixth base address.
AhciPorts(chip) ==
    IF chip.nop = 0 \/ 5 \notin chip.bars THEN 0 ELSE Min({Max({chip.nop, Width(chip.pi)}), AhciLimit(chip)})

\* One function of a controller in compatibility mode is two adapters of a channel each.
StartCount(chip, compat) ==
    IF compat THEN 1 ELSE IF UsesAhci(chip) THEN AhciPorts(chip) ELSE DefaultChannels

\* The position of the highest bit of the option PortMask. Its default has a bit for every channel, the ones which are
\* excluded one by one too.
MaskWidth(opts, n) == IF opts.mask = {} THEN n ELSE Width(opts.mask)

\* Chips without a second channel refuse the adapter of it.
OneChannelOnly(chip) ==
    HasRow(chip) /\ (chip.dev \in {"marvell6101", "ixp600", "ite8213"} \/ (chip.dev = "ixp700" /\ chip.cfg = {0}))

ChannelRefused(chip, channel) ==
    \/ OneChannelOnly(chip) /\ channel # 0
    \/ HasRow(chip) /\ chip.type = "CYRIX_OLD" /\ channel \notin chip.cfg

\* What the vendor's code makes of the number.
VendorCount(chip, n) ==
    IF ~HasRow(chip) THEN n
    ELSE CASE OneChannelOnly(chip)                                                        -> 1
           [] chip.dev \in {"ali5287", "ali5288"}                                         -> 4
           [] chip.vendor = "promise" /\ chip.type = "PRMIO"                              ->
                  IF Has(chip, "SATA") /\ Has(chip, "PRCMBO") THEN 3 ELSE 4
           [] chip.vendor \in {"sii", "ati"} /\ chip.type = "SIIMIO" /\ Has(chip, "SII4CH") -> 4
           [] chip.dev = "ixp700"                                                         -> 2
           [] chip.vendor = "via" /\ Has(chip, "VIABAR")                                  -> 3
           [] OTHER                                                                       -> n

\* The mask is counted before the vendor's code: no chip gets more channels than it started with.
ChannelCount(chip, compat, opts) ==
    LET n      == StartCount(chip, compat)
        width  == MaskWidth(opts, n)
        wanted == IF opts.number = 0 THEN width ELSE opts.number
    IN  Min({wanted, VendorCount(chip, n)})

\* AHCI found by its row takes what the detection of AHCI says.
Channels(chip, compat, opts) ==
    IF HasRow(chip) /\ UsesAhci(chip) THEN AhciPorts(chip) ELSE ChannelCount(chip, compat, opts)

\* The arrays hold a channel more than the count they were allocated for.
Allocated(chip, compat, opts) == Channels(chip, compat, opts) + 1

(***************************************************************************)
(* The registers.                                                          *)
(***************************************************************************)

\* A missing base address reads as zero.
HasBase(chip, bar) == bar \in chip.bars

Block(bar, from, step, n) == {<<bar, from + i * step>> : i \in 0 .. n - 1}

\* A register with the address zero is no register.
InitIoRes(reg) == IF reg[2] = 0 THEN {} ELSE {reg}

None == [cmd |-> {}, bm |-> {}, sata |-> {}]

SataAt(bar, base) == {<<bar, base>>, <<bar, base + 4>>, <<bar, base + 8>>}

\* Task file in the first base address, of which the channels 0 and 1 take the same half.
AliRegs(c) ==
    LET half == IF c \in {2, 3} THEN 1 ELSE 0 IN
    [cmd  |-> Block(0, 8 * half, 1, 8) \cup {<<1, 2 + 4 * half>>},
     bm   |-> Block(4, 8 * c, 1, 5),
     sata |-> {<<4, 8 * c + 5>>}]

PromiseRegs(chip, c) ==
    [cmd  |-> Block(3, 512 + 256 * c, 4, 8) \cup {<<3, 568 + 128 * c>>},
     bm   |-> {<<3, 608 + 128 * c>>, <<3, 580 + 128 * c>>, <<3, 4 * c>>},
     sata |-> IF Has(chip, "PRSATA") \/ (Has(chip, "PRCMBO") /\ c < 2) THEN SataAt(3, 1024 + 128 * c) ELSE {}]

\* The error and the control register of the second channel are four bytes after those of the first.
SiliconRegs(chip, c) ==
    LET u01 == c % 2  u10 == 512 * (c \div 2) IN
    [cmd  |-> Block(5, 128 + 64 * u01 + u10, 1, 8) \cup {<<5, 138 + 64 * u01 + u10>>},
     bm   |-> {<<5, r + 8 * u01 + u10>> : r \in {0, 2, 4, 16}} \cup {<<5, 64 + 4 * u01 + u10>>},
     sata |-> IF Has(chip, "SATA")
              THEN {<<5, 260 + 128 * u01 + u10>>, <<5, 264 + 4 * u01 + u10>>, <<5, 256 + 4 * u01 + u10>>} ELSE {}]

ServerWorksRegs(c) ==
    LET offs == 256 * c IN
    [cmd  |-> Block(5, offs, 4, 8) \cup {<<5, offs + 32>>},
     bm   |-> {<<5, offs + r>> : r \in {48, 50, 52}},
     sata |-> SataAt(5, offs + 64)]

\* Two devices have their SATA registers in the sixth base address.
ViaSataBase(chip) ==
    chip.vendor = "via" /\ chip.dev \in {"via3149", "via3249"} /\ Has(chip, "SATA") /\ ~Has(chip, "VIASATA") /\ HasBase(chip, 5)

\* A base address per channel; the SATA registers are apart from them.
ViaBarRegs(c) == [cmd |-> Block(c, 0, 1, 8) \cup {<<c, 10>>}, bm |-> Block(4, 8 * c, 1, 5), sata |-> {}]

ViaSata(chip, c) ==
    LET size == IF chip.dev = "via3149" THEN 128 ELSE 64 IN
    IF Has(chip, "VIABAR") /\ c = 2 THEN {} ELSE SataAt(5, c * size)

\* Which of the two functions of a combined controller has the disks of the serial ports.
IsPata(chip, c) ==
    IF Has(chip, "ICH5")
    THEN 2 \in chip.cfg /\ c # IF 1 \in chip.cfg THEN 1 ELSE 0
    ELSE ~Has(chip, "I6CH2") /\ ((chip.cfg \cap {0, 1} = {1} /\ c # 0) \/ (chip.cfg \cap {0, 1} = {0} /\ c # 1))

\* The ports of an AHCI adapter follow its global registers: task file and signature, the command engine, the SATA registers.
AhciRegs(c) ==
    LET port == 256 + 128 * c IN
    [cmd  |-> {<<5, port + r>> : r \in {32, 33, 36, 37, 39}},
     bm   |-> {<<5, port + r>> : r \in {0, 8, 16, 20, 24, 56}},
     sata |-> Block(5, port + 40, 4, 4)]

\* Indexed registers: the status of the first channel has the index zero and is lost.
IntelSata(chip, c) ==
    IF ~IsPata(chip, c) /\ (Has(chip, "ICH5") \/ (~Has(chip, "AHCI") /\ HasBase(chip, 5)))
    THEN UNION {InitIoRes(<<IndexedBar, 512 * c + r>>) : r \in 0 .. 2}
    ELSE {}

SisSata(chip, c) ==
    IF Has(chip, "SIS_BASE") /\ HasBase(chip, 5) THEN SataAt(5, c * (IF chip.dev = "sis182" THEN 32 ELSE 64)) ELSE {}

\* Channels of chips with a register map of their own; the others have their ports in base addresses 0 to 3.
OwnMap(chip) ==
    /\ HasRow(chip)
    /\ \/ chip.vendor = "ali" /\ Has(chip, "SATA")
       \/ chip.vendor = "promise" /\ chip.type = "PRMIO"
       \/ chip.vendor \in {"sii", "ati"} /\ chip.type = "SIIMIO"
       \/ chip.vendor = "serverworks" /\ chip.type = "SWKSMIO"
       \/ ViaSataBase(chip) /\ Has(chip, "VIABAR")

OwnRegs(chip, c) ==
    CASE chip.vendor = "ali"            -> AliRegs(c)
      [] chip.vendor = "promise"        -> PromiseRegs(chip, c)
      [] chip.vendor \in {"sii", "ati"} -> SiliconRegs(chip, c)
      [] chip.vendor = "serverworks"    -> ServerWorksRegs(c)
      [] chip.vendor = "via"            -> [ViaBarRegs(c) EXCEPT !.sata = ViaSata(chip, c)]

\* SATA registers of the chips with ordinary ports.
SataRegs(chip, c) ==
    IF ~HasRow(chip) \/ ~Has(chip, "SATA") THEN {}
    ELSE CASE chip.vendor = "nvidia" -> SataAt(5, 64 * c)
           [] chip.vendor = "sis"    -> SisSata(chip, c)
           [] ViaSataBase(chip)      -> ViaSata(chip, c)
           [] chip.vendor = "intel"  -> IntelSata(chip, c)
           [] OTHER                  -> {}

\* Chips of which the detection ends without a base address it needs.
LacksBase(chip) ==
    /\ HasRow(chip)
    /\ \/ chip.vendor = "nvidia" /\ Has(chip, "SATA") /\ ~HasBase(chip, 5)
       \/ OwnMap(chip) /\ chip.vendor = "promise" /\ ~(HasBase(chip, 4) /\ HasBase(chip, 3))
       \/ OwnMap(chip) /\ chip.vendor \in {"sii", "ati", "serverworks"} /\ ~HasBase(chip, 5)

\* The Promise chips without SATA count their channels again, after the arrays have been allocated.
PromiseRecount(chip) ==
    HasRow(chip) /\ chip.vendor = "promise" /\ chip.type = "PRMIO" /\ ~Has(chip, "SATA")

UsedChannels(chip, compat, opts) ==
    IF PromiseRecount(chip) THEN 2 + Cardinality(chip.cfg \cap {0, 1}) ELSE Channels(chip, compat, opts)

\* The result of the detection for the adapter of a channel.
ChipDetect(chip, compat, channel, opts) ==
    [ok       |-> /\ UsesAhci(chip) => AhciPorts(chip) > 0
                  /\ (HasRow(chip) /\ UsesAhci(chip)) \/ ~ChannelRefused(chip, channel)
                  /\ Channels(chip, compat, opts) > 0
                  /\ ~LacksBase(chip),
     channels |-> UsedChannels(chip, compat, opts),
     arrays   |-> Allocated(chip, compat, opts),
     simplex  |-> SimplexChip(chip),
     ahci     |-> UsesAhci(chip),
     own      |-> OwnMap(chip)]
=============================================================================
