----------------------------- MODULE MCAdapters -----------------------------
(* Small machines for Adapters: every kind of register map alone, and the  *)
(* machines where controllers meet.                                        *)
EXTENDS Adapters, TLC

NoOpts == [set |-> {}, exclude |-> {}, channels |-> {}, mask |-> {}, number |-> 0]

With(names) == [NoOpts EXCEPT !.set = names]

Chip0(vendor, dev, type, flags, bars) ==
    [vendor |-> vendor, dev |-> dev, type |-> type, flags |-> flags, row |-> "listed", bars |-> bars,
     sub |-> "ide", cfg |-> {}, nop |-> 0, pi |-> {}]

Plain == Chip0("other", "plain", "none", {}, 0 .. 4)
Unknown == [Plain EXCEPT !.row = "none", !.dev = "unknown"]
Simplex == Chip0("sii", "cmd640", "SIIOLD", {"SIMPLEX"}, 0 .. 4)
Ich5 == Chip0("intel", "ich5", "none", {"SATA", "ICH5"}, 0 .. 5)
Ahci(dev, nop, pi) ==
    [Chip0("marvell", dev, "none", {"SATA", "AHCI"}, {5}) EXCEPT !.sub = "ahci", !.nop = nop, !.pi = pi]
AhciByClass == [Ahci("ahci", 2, {0, 2}) EXCEPT !.row = "none"]
Ixp600 == Chip0("ati", "ixp600", "ATI700", {}, 0 .. 4)
Cyrix == [Chip0("cyrix", "cs5530", "CYRIX_OLD", {}, {4}) EXCEPT !.cfg = {0}]

NvidiaSata == Chip0("nvidia", "mcp", "none", {"SATA"}, 0 .. 5)

NativeChips ==
    {Plain, Unknown, Simplex, Ixp600, Ich5, AhciByClass, Ahci("m88se6111", 2, {0, 1}), Ahci("m88se6141", 3, {0, 1, 2}),
     [Ich5 EXCEPT !.cfg = {1, 2}], [Ich5 EXCEPT !.flags = {"SATA", "I6CH2"}],
     [Ich5 EXCEPT !.flags = {"SATA"}, !.cfg = {1}],
     [Plain EXCEPT !.bars = {0, 1, 4}, !.dev = "half"],
     [Plain EXCEPT !.sub = "raid", !.row = "none"], [Plain EXCEPT !.flags = {"RAID"}],
     NvidiaSata, Chip0("nvidia", "mcp", "none", {"SATA"}, 0 .. 4),
     Chip0("ali", "ali5288", "none", {"SATA"}, 0 .. 4),
     Chip0("promise", "pdc20617", "PRMIO", {"RAID"}, {3, 4}),
     [Chip0("promise", "pdc20617", "PRMIO", {"RAID"}, {3, 4}) EXCEPT !.cfg = {0}],
     Chip0("promise", "pdc20371", "PRMIO", {"SATA", "PRCMBO"}, {3, 4}),
     Chip0("promise", "pdc20318", "PRMIO", {"SATA", "PRSATA"}, {3, 4}),
     Chip0("sii", "sii3114", "SIIMIO", {"SATA", "SII4CH"}, 0 .. 5), Chip0("sii", "sii680", "SIIMIO", {}, 0 .. 5),
     Chip0("serverworks", "ht1000", "SWKSMIO", {"SATA"}, {5}),
     Chip0("via", "via3249", "none", {"SATA", "VIABAR"}, 0 .. 5), Chip0("via", "via3149", "none", {"SATA"}, 0 .. 5),
     [Chip0("sis", "sis182", "none", {"SATA", "SIS_BASE"}, 0 .. 5) EXCEPT !.row = "bridge"]}

Function(id, slot, chip) ==
    [id |-> id, slot |-> slot, kind |-> "storage", chip |-> chip, compat |-> FALSE, std |-> FALSE, simplex |-> FALSE,
     mode |-> "stays"]
InCompat(fn) == [fn EXCEPT !.compat = TRUE]
Empty(slot) == [Function("none", slot, Plain) EXCEPT !.kind = "empty"]
Bridge(slot) == [Function("bridge", slot, Plain) EXCEPT !.kind = "other"]

Machine(os, fns, disks, taken, opts) ==
    [os |-> os, fns |-> fns, disks |-> disks, taken |-> taken, opts |-> opts, bus |-> "isa", hal |-> "ok"]

Systems == {"nt", "w2k"}

\* Every chip alone, with the options that change the number of its channels.
Alone ==
    {Machine(os, <<Function("A", 1, chip)>>, {}, {}, opts) :
        os \in Systems, chip \in NativeChips,
        opts \in {NoOpts, With({"SkipRaids"}), [NoOpts EXCEPT !.number = 1], [NoOpts EXCEPT !.number = 4], [NoOpts EXCEPT !.mask = {1}]}}
    \cup {Machine(os, <<[Function("A", 1, chip) EXCEPT !.simplex = TRUE]>>, {}, {}, NoOpts) :
             os \in Systems, chip \in {Plain, Simplex}}

CompatChips == {Plain, Simplex, Ich5, Ixp600, Cyrix}

\* A controller in compatibility mode: disks on one channel or on both, ports of another driver, an HAL that cannot assign
\* the resources, options.
InCompatMode ==
    {[Machine(os, <<Bridge(1), InCompat(Function("A", 1, chip))>>, disks, taken, opts) EXCEPT !.hal = hal] :
        os \in Systems, chip \in CompatChips, disks \in {{"P1"}, {"P1", "P2"}, {"P2", "P3"}},
        taken \in {{}, {"P1"}, {"P2"}}, hal \in {"ok", "conflict", "fails"},
        opts \in {NoOpts, With({"ForceSimplex"}), With({"IgnoreIsaCompatiblePci"}), [NoOpts EXCEPT !.channels = {1}],
                  [NoOpts EXCEPT !.exclude = {"A"}]}}

\* The switch to native mode.
Modes ==
    {Machine("w2k", <<[InCompat(Function("A", 1, Plain)) EXCEPT !.mode = mode]>>, {"P1"}, {},
             With({"NativePCIMode"})) : mode \in {"stays", "switches", "noirq"}}

\* Two controllers.
SomeNative == {Plain, Unknown, Simplex, AhciByClass, Chip0("sii", "sii3112", "SIIMIO", {"SATA"}, 0 .. 5)}

Two ==
    {Machine(os, <<InCompat(Function("A", 1, c1)), second>>, {"P1", "P2", "P4"}, {}, opts) :
        os \in Systems, c1 \in {Plain, Simplex},
        second \in {Function("B", 2, c) : c \in SomeNative} \cup {InCompat(Function("B", 2, c)) : c \in {Plain, Unknown}},
        opts \in {NoOpts, With({"IgnoreNativePci"}), [NoOpts EXCEPT !.exclude = {"A"}]}}
    \cup {Machine(os, <<Function("A", 1, c1), [Function("B", 2, c2) EXCEPT !.std = std]>>, IF std THEN {"P1", "P2"} ELSE {},
                  taken, NoOpts) :
             os \in Systems, c1 \in SomeNative, c2 \in SomeNative, std \in BOOLEAN, taken \in {{}, {"P1"}}}
    \cup {Machine(os, <<Function("A", 1, Plain), Function("B", 2, Plain)>>, {}, {}, [NoOpts EXCEPT !.exclude = {"A"}]) :
             os \in Systems}
    \cup {Machine(os, <<InCompat(Function("A", 1, c)), Function("B", 2, c), Function("C", 3, c)>>, {"P1"}, taken, NoOpts) :
             os \in Systems, c \in {Plain, NvidiaSata}, taken \in {{}, {"P1"}}}
    \cup {Machine(os, <<InCompat(Function("A", 1, c1)), InCompat(Function("B", 2, c2))>>, {"P1", "P2"}, {}, NoOpts) :
             os \in Systems, c1 \in {[Cyrix EXCEPT !.cfg = {1}], Simplex}, c2 \in {Plain, Simplex}}

Mca == {[Machine("nt", <<>>, {"P1", "P3"}, {}, opts) EXCEPT !.bus = bus] :
           bus \in {"isa", "mca"}, opts \in {NoOpts, With({"IgnoreIsa"}), With({"IgnoreMca"})}}

Gaps ==
    {Machine("nt", <<Bridge(1), Empty(1), Function("A", 1, chip), Function("B", 2, Unknown)>>, {}, {}, NoOpts) :
        chip \in {Plain, AhciByClass}}

SomeMachines == Alone \cup InCompatMode \cup Modes \cup Two \cup Mca \cup Gaps

(* The machines are as the theorems assume.                                *)
ASSUME MachinesWired == \A m \in SomeMachines : Wired(m)
=============================================================================
