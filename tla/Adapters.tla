------------------------------ MODULE Adapters ------------------------------
(***************************************************************************)
(* How the driver finds its controllers and shares the ports of the        *)
(* machine out among adapters: the three passes over the functions of the  *)
(* PCI bus (UniataEnumBusMasterController__), the order in which           *)
(* DriverEntry starts controllers in compatibility mode, native            *)
(* controllers and the addresses of the ISA bus, and what                  *)
(* UniataFindBusMasterController and AtapiFindIsaController make of each.  *)
(*                                                                         *)
(* A machine is a record.  os is the family of the system; fns its PCI     *)
(* functions in the order of the bus; taken the legacy ports other drivers *)
(* have claimed; disks the ports where an ISA disk controller answers; bus *)
(* the kind of its legacy bus; hal what the HAL says of the resources of a *)
(* controller in compatibility mode; opts the options of the registry.     *)
(* A function has an identifier, a slot, its kind ("storage", "other",     *)
(* "empty": its configuration space reads short), a chip, whether it is in *)
(* compatibility mode, whether its native ports are the legacy ones (std), *)
(* and what the switch to native mode does to it (mode).                   *)
(* The port driver, the HAL and other drivers are outside this source.     *)
(***************************************************************************)
EXTENDS ChipRegs, Sequences

CONSTANTS Machines,   \* the machines
          MaxFaults   \* bound: refused resources on the way

ASSUME FaultsAssumption == MaxFaults \in Nat

(* The port map of AHCI and the masks of the options have 32 bits, and the *)
(* ISA search knows four addresses.                                        *)
ASSUME MachinesAssumption ==
    \A m \in Machines :
        /\ Len(m.fns) \in Nat
        /\ m.disks \subseteq {"P1", "P2", "P3", "P4"}
        /\ m.bus \in {"isa", "mca"}
        /\ m.opts.number \in Nat /\ m.opts.mask \subseteq 0 .. 31
        /\ \A k \in 1 .. Len(m.fns) : m.fns[k].chip.nop \in Nat /\ m.fns[k].chip.pi \subseteq 0 .. 31

VARIABLES machine,    \* the machine
          phase,      \* "enum", "master", "try", "native", "isa", "mca" or "done"
          pass,       \* the pass of the enumeration, the alternative of a try, the address of the ISA search
          pos,        \* the function of the enumeration, the channel of a try
          short,      \* NeedPciAltInit of the enumeration
          mapped,     \* PciDevMap
          list,       \* BMList
          i,          \* the position in it
          seen,       \* PrimaryClaimed, SecondaryClaimed of DriverEntry
          pref,       \* pref_alt
          started,    \* ChanInitOk of the controller tried
          pciide,     \* the entry with the device \Device\uniata_PCIIDE, or 0
          sys,        \* AtDisk...AddressClaimed of the system
          own,        \* AtdiskPrimaryClaimed, AtdiskSecondaryClaimed of the driver
          firstOk,    \* FirstMasterOk
          adapters,   \* the adapters of the driver
          given,      \* functions the port driver has given to an adapter
          hit         \* functions whose start met a refusal

vars == <<machine, phase, pass, pos, short, mapped, list, i, seen, pref, started, pciide, sys, own, firstOk,
          adapters, given, hit>>

AdapterAddresses == <<"P1", "P2", "P3", "P4">>

Legacy == {"P1", "P2"}
Port(c) == AdapterAddresses[c + 1]

Fns == 1 .. Len(machine.fns)
Fn(k) == machine.fns[k]
Chip(k) == Fn(k).chip
Option(name) == name \in machine.opts.set
IsNt == machine.os = "nt"

(***************************************************************************)
(* The enumeration.                                                        *)
(***************************************************************************)

\* The option NativePCIMode asks every function for native mode; the function may stay as it is, or have no interrupt and
\* be put back.
Switched(k) == Option("NativePCIMode") /\ Fn(k).mode = "switches"

\* IsMasterDev, before and after the first pass which may switch the function.
Compat(k) == Fn(k).compat /\ ~Switched(k)

CheckPCISubclass(chip) ==
    IF chip.row # "none"
    THEN ~(Has(chip, "RAID") /\ Option("SkipRaids"))
    ELSE chip.sub \in {"ide", "ata", "sata", "ahci"} \/ (chip.sub = "raid" /\ ~Option("SkipRaids"))

Candidate(k) ==
    /\ Fn(k).kind = "storage"
    /\ Fn(k).id \notin machine.opts.exclude
    /\ CheckPCISubclass(Chip(k))
    /\ Chip(k).bars # {}

ListedIn(k, p) ==
    \/ p = 1 /\ Compat(k)
    \/ p = 2 /\ ~Compat(k)

Entry(k, alt) == [fn |-> k, master |-> Compat(k), alt |-> alt]

\* One function of one pass. The first pass fills the map, the others look only at functions of the map.
EnumFunction ==
    /\ phase = "enum" /\ pos \in Fns
    /\ LET before == short /\ pos > 1 /\ Fn(pos - 1).slot = Fn(pos).slot IN
       IF pass = 0
       THEN /\ mapped' = IF Candidate(pos) THEN mapped \cup {pos} ELSE mapped
            /\ short' = (before \/ Fn(pos).kind = "empty")
            /\ UNCHANGED list
       ELSE /\ list' = IF pos \in mapped /\ ListedIn(pos, pass) THEN Append(list, Entry(pos, before)) ELSE list
            /\ short' = before
            /\ UNCHANGED mapped
    /\ pos' = pos + 1
    /\ UNCHANGED <<machine, phase, pass, i, seen, pref, started, pciide, sys, own, firstOk, adapters, given, hit>>

EnumPass ==
    /\ phase = "enum" /\ pos \notin Fns
    /\ pos' = 1 /\ short' = FALSE
    /\ IF pass = 2 \/ mapped = {}
       THEN phase' = "master" /\ pass' = 0 /\ i' = 1
       ELSE pass' = pass + 1 /\ UNCHANGED <<phase, i>>
    /\ UNCHANGED <<machine, mapped, list, seen, pref, started, pciide, sys, own, firstOk, adapters, given, hit>>

(***************************************************************************)
(* UniataFindBusMasterController.                                          *)
(***************************************************************************)

Tag(owner, regs) == {<<owner, r[1], r[2]>> : r \in regs}

LegacyRegs(p) == {<<p, 0, 0>>}

\* Ranges in memory and the ports of native channels are the ones the port driver offers; the others are read from the
\* configuration space of the function of the list.
Ranges(k, offered, regs) ==
    LET inMemory(r) == r[1] = 5 \/ (OwnMap(Chip(k)) /\ Chip(k).vendor = "promise")
        ported(r)   == r[1] < 4 /\ ~OwnMap(Chip(k))
        ours(r)     == ~inMemory(r) /\ ~ported(r)
    IN  Tag(Fn(k).id, {r \in regs : ours(r)}) \cup Tag(Fn(offered).id, {r \in regs : ~ours(r)})

\* The bus master registers of a channel: in compatibility mode the adapter of the second channel has the second half.
BusMaster(chip, c, first) == IF HasBase(chip, 4) THEN Block(4, 8 * c + (IF first = 1 THEN 8 ELSE 0), 1, 5) ELSE {}

\* The c-th channel of the adapter that begins with channel first.
ChannelRegs(k, offered, c, first) ==
    LET chip == Chip(k)
        at(r) == Ranges(k, offered, r)
        map  == IF UsesAhci(chip) THEN AhciRegs(c) ELSE OwnRegs(chip, c)
    IN  IF UsesAhci(chip) \/ OwnMap(chip)
        THEN [port |-> {}, cmd |-> at(map.cmd), bm |-> at(map.bm), sata |-> at(map.sata)]
        ELSE [port |-> IF Compat(k) \/ Fn(k).std THEN {Port(first + c)} ELSE {},
              cmd  |-> IF Compat(k) \/ Fn(k).std THEN LegacyRegs(Port(first + c))
                       ELSE at(Block(2 * c, 0, 1, 8) \cup {<<2 * c + 1, 2>>}),
              bm   |-> at(BusMaster(chip, c, first)),
              sata |-> at(SataRegs(chip, c))]

\* A channel that cannot be used has no registers.
NoChannel == [port |-> {}, cmd |-> {}, bm |-> {}, sata |-> {}]

HasPorts(k, c) == Compat(k) \/ OwnMap(Chip(k)) \/ UsesAhci(Chip(k)) \/ {2 * c, 2 * c + 1} \subseteq Chip(k).bars

OneForBoth(k) == SimplexChip(Chip(k)) \/ Option("ForceSimplex") \/ (~Compat(k) /\ Fn(k).simplex)

\* A simplex controller in compatibility mode is one adapter with both channels.
AdapterChannels(k) ==
    LET n == UsedChannels(Chip(k), Compat(k), machine.opts)
    IN  IF Compat(k) /\ OneForBoth(k) THEN Max({n, DefaultChannels}) ELSE n

\* Mutant: native controllers look at the claims of the legacy ports too.
ClaimedForAll(k, channel, altInit, claims) == ~(IsNt /\ altInit /\ firstOk) /\ Port(channel) \in claims

\* Ports other drivers have claimed refuse a start, unless it is the second of the driver itself under NT.
Claimed(k, channel, altInit, claims) ==
    Compat(k) /\ ~(IsNt /\ altInit /\ firstOk) /\ Port(channel) \in claims

\* The channel an adapter may lose: its ports refused, or its control block, after which the whole start fails.
Refusals(k, n) ==
    IF OwnMap(Chip(k)) \/ UsesAhci(Chip(k)) THEN {} ELSE {"ports", "control"} \X {c \in 0 .. n - 1 : HasPorts(k, c)}

\* The second interrupt routine is connected for native controllers with several channels which work on their own.
SecondInterrupt(k, n) == ~Compat(k) /\ n > 1 /\ ~OneForBoth(k)

NotFound == [found |-> FALSE, adapter |-> <<>>, own |-> own, firstOk |-> firstOk, bad |-> FALSE]

\* Mutant: the first channel claims both ports.
ClaimsBoth(k, c, channel) == IF Compat(k) THEN Legacy ELSE {}

\* Claims are made channel by channel and stay if the start fails after them.
Claims(k, c, channel) ==
    IF Compat(k) THEN {Port(channel + c)}
    ELSE IF Fn(k).std /\ ~OwnMap(Chip(k)) /\ ~UsesAhci(Chip(k)) THEN {Port(c)} ELSE {}

\* The channels in their order, with at most one refusal.
MapChannels(k, offered, channel, n, refusal) ==
    LET stop   == IF refusal[1] = "control" THEN refusal[2] ELSE n
        usable == {c \in 0 .. n - 1 : c < stop /\ HasPorts(k, c) /\ refusal # <<"ports", c>>}
        ok     == usable # {} /\ stop = n /\ refusal[1] # "interrupt"
    IN  [found   |-> ok,
         adapter |-> [c \in 1 .. n |-> IF c - 1 \in usable THEN ChannelRegs(k, offered, c - 1, channel) ELSE NoChannel],
         own     |-> own \cup UNION {Claims(k, c, channel) : c \in usable},
         firstOk |-> firstOk \/ (Compat(k) /\ usable # {}),
         bad     |-> refusal[1] # "none"]

FindController(k, offered, channel, altInit, claims) ==
    LET n == AdapterChannels(k) IN
    IF \/ ~ChipDetect(Chip(k), Compat(k), channel, machine.opts).ok
       \/ Compat(k) /\ channel \in machine.opts.channels
       \/ Claimed(k, channel, altInit, claims)
    THEN {NotFound}
    ELSE IF channel > 0 /\ n > 1
    THEN {[NotFound EXCEPT !.found = TRUE, !.firstOk = TRUE]}
    ELSE {MapChannels(k, offered, channel, n, r) :
              r \in {<<"none", 0>>}
                    \cup (IF Cardinality(hit) < MaxFaults
                          THEN Refusals(k, n) \cup (IF SecondInterrupt(k, n) THEN {<<"interrupt", 0>>} ELSE {}) ELSE {})}

(***************************************************************************)
(* What the port driver does with the adapter of a start. It refuses ports *)
(* of other drivers, may refuse for reasons of its own, and initialises    *)
(* the adapter at once or, under Windows 2000, later.                      *)
(***************************************************************************)

PortsOf(channels) == UNION {channels[c].port : c \in DOMAIN channels}

Conflict(channels) == PortsOf(channels) \cap machine.taken # {}

Answers(found) ==
    (IF found.found /\ ~Conflict(found.adapter) THEN {"now"} \cup (IF IsNt THEN {} ELSE {"later"}) ELSE {"no"})
    \cup (IF found.found /\ ~found.bad /\ Cardinality(hit) < MaxFaults THEN {"no"} ELSE {})

\* The claims the system knows after the start.
Told(channels, before) == before \cup (PortsOf(channels) \cap Legacy)

Adapter(k, channels, how) == [fn |-> k, channels |-> channels, how |-> how]

Accept(k, found, answer, before) ==
    /\ own' = found.own /\ firstOk' = found.firstOk
    /\ adapters' = IF answer = "no" THEN adapters ELSE Append(adapters, Adapter(k, found.adapter, answer))
    /\ sys' = IF answer = "no" THEN before ELSE Told(found.adapter, before)
    /\ hit' = IF found.bad \/ (found.found /\ answer = "no") THEN hit \cup {k} ELSE hit

(***************************************************************************)
(* Controllers in compatibility mode.                                      *)
(***************************************************************************)

ToNative == phase' = "native" /\ UNCHANGED <<pass, pos, pref, started, pciide, given, i>>

\* The claim makes a device with a name of its own, of which there can be one.
Claim ==
    IF pciide # 0 THEN "fails" ELSE machine.hal

\* A controller is claimed once while nobody has its ports. Without the claim, the loop ends and the native loop goes on
\* with the same entry.
MasterHead ==
    /\ phase = "master"
    /\ LET now == seen \cup sys IN
       IF i > Len(list) \/ ~list[i].master \/ Option("IgnoreIsaCompatiblePci")
       THEN ToNative /\ UNCHANGED <<seen, hit>>
       ELSE /\ seen' = now
            /\ IF now # {}
               THEN /\ phase' = "try" /\ pass' = 0 /\ pos' = 0 /\ pref' = 0 /\ started' = {}
                    /\ UNCHANGED <<i, pciide, given, hit>>
               ELSE \/ /\ Claim = "ok" \/ (Claim = "conflict" /\ IsNt)
                       /\ phase' = "try" /\ pass' = 0 /\ pos' = 0 /\ started' = {}
                       /\ pref' = IF Claim = "ok" THEN 0 ELSE 1
                       /\ pciide' = IF Claim = "ok" THEN i ELSE pciide
                       /\ given' = IF Claim = "ok" THEN given \cup {list[i].fn} ELSE given
                       /\ UNCHANGED <<i, hit>>
                    \/ /\ Claim = "fails" \/ (Claim = "conflict" /\ ~IsNt)
                       /\ ToNative /\ UNCHANGED hit
    /\ UNCHANGED <<machine, short, mapped, list, sys, own, firstOk, adapters>>

\* After the second channel: the next controller, or the alternative way if no channel has been initialised.
NextTry(ok) ==
    IF pos = 0 THEN pos' = 1 /\ UNCHANGED <<pass, i, phase>>
    ELSE /\ pos' = 0
         /\ IF ok # {} \/ pass = 1
            THEN pass' = 0 /\ i' = i + 1 /\ phase' = "master"
            ELSE pass' = 1 /\ UNCHANGED <<i, phase>>

\* Start one channel of a controller in compatibility mode. Under NT the system's claim of the port is withdrawn before.
TryChannel ==
    /\ phase = "try"
    /\ LET k == list[i].fn
           before == IF IsNt THEN sys \ {Port(pos)} ELSE sys
       IN  IF Port(pos) \in seen
           THEN NextTry(started) /\ UNCHANGED <<started, sys, own, firstOk, adapters, hit>>
           ELSE \E found \in FindController(k, k, pos, pass # pref, before) : \E answer \in Answers(found) :
                    /\ started' = IF answer = "now" THEN started \cup {pos} ELSE started
                    /\ Accept(k, found, answer, before)
                    /\ NextTry(started')
    /\ UNCHANGED <<machine, short, mapped, list, seen, pref, pciide, given>>

(***************************************************************************)
(* Native controllers. The port driver looks for a function with the       *)
(* identification of the entry which it has not given away; it stops at an *)
(* empty function of a slot.                                               *)
(***************************************************************************)

Reachable(k) == ~\E e \in Fns : e < k /\ Fn(e).slot = Fn(k).slot /\ Fn(e).kind = "empty"

Twin(f, k) == Fn(f).kind = "storage" /\ Chip(f).vendor = Chip(k).vendor /\ Chip(f).dev = Chip(k).dev

Offers(k) == {f \in Fns : Twin(f, k) /\ f \notin given /\ Reachable(f)}

\* Controllers the port driver does not find are started without it if the enumeration has marked them.
StartNative ==
    /\ phase = "native"
    /\ IF i > Len(list) \/ Option("IgnoreNativePci")
       THEN /\ phase' = "isa" /\ pass' = 0
            /\ UNCHANGED <<i, sys, own, firstOk, adapters, given, hit>>
       ELSE LET k    == list[i].fn
                work == IF Offers(k) = {} /\ list[i].alt THEN {k} ELSE Offers(k)
            IN  /\ i' = i + 1
                /\ IF work = {}
                   THEN UNCHANGED <<sys, own, firstOk, adapters, given, hit>>
                   ELSE \E found \in FindController(k, Min(work), 0, Offers(k) = {}, sys) : \E answer \in Answers(found) :
                            /\ Accept(k, found, answer, sys)
                            /\ given' = IF answer = "no" THEN given ELSE given \cup {Min(work)}
                /\ UNCHANGED <<phase, pass>>
    /\ UNCHANGED <<machine, pos, short, mapped, list, seen, pref, started, pciide>>

(***************************************************************************)
(* The addresses of the legacy bus.                                        *)
(***************************************************************************)

\* Mutant: only the claims of the system count.
SystemClaimsOnly(p) == p \in Legacy /\ p \in sys

\* Addresses claimed by the system or by the driver itself are passed over.
CheckIOInterference(p) == p \in Legacy /\ p \in sys \cup own

Searched(bus) == machine.bus = bus /\ ~Option(IF bus = "isa" THEN "IgnoreIsa" ELSE "IgnoreMca")

IsaChannel(p) == [port |-> {p}, cmd |-> LegacyRegs(p), bm |-> {}, sata |-> {}]

Tried(p) == Searched(phase) /\ ~CheckIOInterference(p)

\* Either device keeps what is written to its cylinder register.
Responds(p) == p \in machine.disks

\* One address of the search; an address where a disk controller answers is an adapter.
FindIsaController ==
    /\ phase \in {"isa", "mca"} /\ pass < Len(AdapterAddresses)
    /\ LET p == AdapterAddresses[pass + 1] IN
       IF Tried(p) /\ Responds(p)
       THEN /\ adapters' = Append(adapters, Adapter(0, <<IsaChannel(p)>>, "now"))
            /\ sys' = Told(<<IsaChannel(p)>>, sys)
       ELSE UNCHANGED <<adapters, sys>>
    /\ pass' = pass + 1
    /\ UNCHANGED <<machine, phase, pos, short, mapped, list, i, seen, pref, started, pciide, own, firstOk, given, hit>>

EndOfBus ==
    /\ phase \in {"isa", "mca"} /\ pass = Len(AdapterAddresses)
    /\ phase' = IF phase = "isa" THEN "mca" ELSE "done"
    /\ pass' = 0
    /\ UNCHANGED <<machine, pos, short, mapped, list, i, seen, pref, started, pciide, sys, own, firstOk, adapters, given, hit>>

Init ==
    /\ machine \in Machines
    /\ phase = "enum" /\ pass = 0 /\ pos = 1 /\ short = FALSE /\ mapped = {} /\ list = <<>>
    /\ i = 0 /\ seen = {} /\ pref = 0 /\ started = {} /\ pciide = 0
    /\ sys = machine.taken /\ own = {} /\ firstOk = FALSE
    /\ adapters = <<>> /\ given = {} /\ hit = {}

Next ==
    \/ EnumFunction \/ EnumPass
    \/ MasterHead \/ TryChannel
    \/ StartNative
    \/ FindIsaController \/ EndOfBus

Spec == Init /\ [][Next]_vars
-----------------------------------------------------------------------------
ChannelSet == UNION {{<<a, c>> : c \in DOMAIN adapters[a].channels} : a \in DOMAIN adapters}

Channel(x) == adapters[x[1]].channels[x[2]]

Uses(x) == Channel(x).cmd \cup Channel(x).bm

\* Chips whose channels share registers by the addresses the driver computes.
OnChip(x, y, vendors) ==
    x[1] = y[1] /\ adapters[x[1]].fn # 0 /\ OwnMap(Chip(adapters[x[1]].fn)) /\ Chip(adapters[x[1]].fn).vendor \in vendors

OfCompat(x) == adapters[x[1]].fn # 0 /\ Compat(adapters[x[1]].fn)

\* The driver looks at the claim of the first port only: an adapter with both ports whose first channel was refused is
\* started again.
StartedAgain(x, y) ==
    LET k == adapters[x[1]].fn IN
    x[1] # y[1] /\ k = adapters[y[1]].fn /\ k \in hit /\ OfCompat(x) /\ AdapterChannels(k) > 1

\* For the same reason an adapter with both ports takes the second from another controller in compatibility mode. Under NT it
\* may lose its own: the start of the second channel withdraws the claim and finds that there is nothing to do.
SecondPort(x, y) ==
    /\ OfCompat(x) /\ OfCompat(y)
    /\ \E a, b \in {x[1], y[1]} :
          a < b /\ (Len(adapters[b].channels) > 1 \/ (IsNt /\ Len(adapters[a].channels) > 1))

\* The two adapters of a controller in compatibility mode, or that controller and a twin to which the port driver has given
\* its ranges.
SameBase(x, y) ==
    /\ OfCompat(x) \/ OfCompat(y)
    /\ adapters[x[1]].fn # 0 /\ adapters[y[1]].fn # 0 /\ Twin(adapters[x[1]].fn, adapters[y[1]].fn)

(* No register is used by two channels, whether of one adapter or of two:  *)
(* the ports a controller in compatibility mode, a native one and the ISA  *)
(* search could each take have one user (the claims of                     *)
(* UniataFindBusMasterController and AtapiCheckIOInterference), the ranges *)
(* of a function are offered once, and the register maps of                *)
(* UniataChipDetect keep the channels of a chip apart.                     *)
(* The driver's exceptions: StartedAgain and SecondPort, of adapters with  *)
(* both ports in compatibility mode; the SATA registers of such a          *)
(* controller have several users (SameBase); the first two channels of     *)
(* ALi's SATA chips have one task file; the SATA registers of the channels *)
(* of Silicon Image overlap; and the task files of the third and fourth    *)
(* channel of Promise's, which the option NumberChannels makes, are at the *)
(* SATA registers of the first and third.                                  *)
OneOwner ==
    \A x, y \in ChannelSet : x # y /\ ~StartedAgain(x, y) =>
        /\ \/ Uses(x) \cap Uses(y) = {} \/ OnChip(x, y, {"ali"})
           \/ SecondPort(x, y) /\ Uses(x) \cap Uses(y) = LegacyRegs("P2")
        /\ Channel(x).bm \cap Channel(y).bm = {}
        /\ Channel(x).sata \cap Channel(y).sata = {} \/ OnChip(x, y, {"sii", "ati"}) \/ SameBase(x, y)
        /\ Channel(x).sata \cap Uses(y) = {} \/ (OnChip(x, y, {"promise"}) /\ y[2] > DefaultChannels)

Served(p) == \E a \in DOMAIN adapters : p \in PortsOf(adapters[a].channels)

(* A disk controller that answers at a legacy address is served by some    *)
(* adapter in the end, whatever became of the controller the address       *)
(* belongs to: it could not be claimed, it was left to the native loop, a  *)
(* channel of it was excluded (DriverEntry: "try as pure ISA later").      *)
(* Excepted are addresses of other drivers, and machines where a start was *)
(* refused: its claims of the ports stay.                                  *)
LegacyServed ==
    phase = "done" /\ hit = {} /\ (Searched("isa") \/ Searched("mca"))
        => \A p \in machine.disks \ machine.taken : Served(p)

Startable(k) ==
    /\ ChipDetect(Chip(k), FALSE, 0, machine.opts).ok
    /\ \E c \in 0 .. AdapterChannels(k) - 1 : HasPorts(k, c)
    /\ Fn(k).std => machine.taken = {}

\* The port driver finds another function of the same identification in its place: one that is not started, or not in its
\* turn.
Displaced(k) ==
    \E f \in Fns \ {k} :
        /\ Twin(f, k)
        /\ \/ f \in hit \/ Compat(f) \/ ~Startable(f) \/ ~Reachable(f)
           \/ \A j \in DOMAIN list : list[j].fn # f

OwnAdapter(k) ==
    \E a \in DOMAIN adapters :
        /\ adapters[a].fn = k
        /\ \A c \in DOMAIN adapters[a].channels : \A r \in Uses(<<a, c>>) : r[1] \in {Fn(k).id} \cup Legacy

(* Every native controller that can be started has an adapter in the end,  *)
(* with the registers of its own function, though the port driver looks    *)
(* for the function by its identification only, and the driver for the     *)
(* function by its place in the list.  Excepted are controllers whose      *)
(* start is refused, those behind an empty function of their slot, and     *)
(* those with a twin that is not started by the native loop in its turn.   *)
AllStarted ==
    phase = "done" /\ ~Option("IgnoreNativePci") =>
        \A j \in DOMAIN list :
            LET k == list[j].fn IN
            ~list[j].master /\ Startable(k) /\ Reachable(k) /\ ~Displaced(k) => OwnAdapter(k) \/ k \in hit

(* A native controller behind an empty function of its slot is started     *)
(* too: DriverEntry has a workaround for the port driver, which stops      *)
(* scanning at the empty function (the comment "UniATA will perform all    *)
(* staff instead of ScsiPort under NT").                                   *)
GapStarted ==
    phase = "done" =>
        \A j \in DOMAIN list : ~list[j].master /\ Startable(list[j].fn) => OwnAdapter(list[j].fn) \/ list[j].fn \in hit
-----------------------------------------------------------------------------
(***************************************************************************)
(* What the theorems assume of a machine.                                  *)
(***************************************************************************)

Storage(m) == {k \in 1 .. Len(m.fns) : m.fns[k].kind = "storage"}

\* A chip whose channels have their ports in base addresses 0 to 3, or at the legacy addresses.
AtHome(chip) == ~OwnMap(chip) /\ ~UsesAhci(chip)

\* Controllers in compatibility mode are at the legacy addresses and have no map of their own.
PortsAtHome(m) == \A k \in 1 .. Len(m.fns) : m.fns[k].compat => AtHome(m.fns[k].chip)

\* The chips of the tables with ordinary ports have two channels at most.
Pairs(m) ==
    \A k \in 1 .. Len(m.fns) :
        LET chip == m.fns[k].chip IN
        AtHome(chip) => UsedChannels(chip, FALSE, m.opts) <= 2 /\ UsedChannels(chip, TRUE, m.opts) <= 2

\* Functions have identifications of their own, which are no legacy ports.
Distinct(m) ==
    \A k, l \in Storage(m) :
        /\ m.fns[k].id \notin {"P1", "P2", "P3", "P4"}
        /\ m.fns[k].id = m.fns[l].id => k = l

\* Chips with one vendor and device number have one kind of map.
SameMaps(m) ==
    \A k, l \in Storage(m) :
        LET c == m.fns[k].chip
            d == m.fns[l].chip
        IN  c.vendor = d.vendor /\ c.dev = d.dev => OwnMap(c) = OwnMap(d) /\ UsesAhci(c) = UsesAhci(d)

\* A native controller whose own ports are the legacy ones has them alone: no other decodes them.
OneAtHome(m) ==
    \A k, l \in Storage(m) :
        k # l /\ m.fns[k].std /\ AtHome(m.fns[k].chip) => ~m.fns[l].std /\ ~m.fns[l].compat

Wired(m) == PortsAtHome(m) /\ Pairs(m) /\ Distinct(m) /\ SameMaps(m) /\ OneAtHome(m)
=============================================================================
