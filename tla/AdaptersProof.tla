--------------------------- MODULE AdaptersProof ---------------------------
(***************************************************************************)
(* Proofs about Adapters, for any machines and any number of refusals.     *)
(***************************************************************************)
EXTENDS Adapters, FiniteSetTheorems, WellFoundedInduction, TLAPS

(* Every set of natural numbers that is not empty has a least element.     *)
LEMMA LeastNat ==
  ASSUME NEW S \in SUBSET Nat, S # {}
  PROVE  \E m \in S : \A k \in S : m <= k
PROOF
<1>1. \E m \in S : \A k \in S : ~(<<k, m>> \in OpToRel(<, Nat))
  BY NatLessThanWellFounded, WFMin
<1>2. ASSUME NEW m \in S, NEW k \in S, ~(<<k, m>> \in OpToRel(<, Nat))
      PROVE  m <= k
  BY <1>2 DEF OpToRel
<1> QED BY <1>1, <1>2

(* Min is that element. *)
LEMMA MinIs ==
  ASSUME NEW S \in SUBSET Nat, S # {}
  PROVE  Min(S) \in S /\ \A y \in S : Min(S) <= y
  BY LeastNat DEF Min

(* Max of the bits of a register is one of them. *)
LEMMA MaxIs ==
  ASSUME NEW n \in Nat, NEW S \in SUBSET (0 .. n), S # {}
  PROVE  Max(S) \in S
PROOF
<1> DEFINE T == {n - x : x \in S}
<1>1. T \in SUBSET Nat /\ T # {}
  <2>1. \A x \in S : x \in Int /\ n - x \in Nat
    OBVIOUS
  <2>2. PICK x : x \in S
    OBVIOUS
  <2>3. n - x \in T
    BY <2>2
  <2> QED BY <2>1, <2>3
<1>2. PICK m \in T : \A k \in T : m <= k
  BY <1>1, LeastNat
<1>3. PICK x \in S : m = n - x
  BY <1>2
<1>4. ASSUME NEW y \in S PROVE x >= y
  <2>1. n - y \in T
    OBVIOUS
  <2>2. n - x <= n - y
    BY <1>2, <1>3, <2>1
  <2>3. x \in 0 .. n /\ y \in 0 .. n
    OBVIOUS
  <2> QED BY <2>2, <2>3
<1> QED BY <1>4 DEF Max

(* The same of two numbers. *)
LEMMA OfTwo ==
  ASSUME NEW a \in Int, NEW b \in Int
  PROVE  Max({a, b}) \in {a, b} /\ Min({a, b}) \in {a, b} /\ Min({a, b}) <= b
PROOF
<1>1. \E x \in {a, b} : \A y \in {a, b} : x >= y
  OBVIOUS
<1>2. \E x \in {a, b} : \A y \in {a, b} : x <= y
  OBVIOUS
<1> QED BY <1>1, <1>2 DEF Max, Min

-----------------------------------------------------------------------------
(* What is assumed of a machine m, of its function k. *)
LEMMA MachineIs ==
  ASSUME NEW m \in Machines
  PROVE  /\ Len(m.fns) \in Nat /\ m.disks \subseteq {"P1", "P2", "P3", "P4"}
         /\ m.bus \in {"isa", "mca"}
         /\ m.opts.number \in Nat /\ m.opts.mask \in SUBSET (0 .. 31)
         /\ \A k \in 1 .. Len(m.fns) : /\ m.fns[k].chip.nop \in Nat
                                       /\ m.fns[k].chip.pi \in SUBSET (0 .. 31)
  BY MachinesAssumption

(* The number of channels of an adapter is a number; a native controller   *)
(* that is no AHCI adapter has four at most (UniataChipDetectChannels).    *)
LEMMA CountIs ==
  ASSUME machine \in Machines, NEW k \in Fns
  PROVE  /\ AdapterChannels(k) \in Int
         /\ UsedChannels(Chip(k), Compat(k), machine.opts) \in Int
         /\ ~UsesAhci(Chip(k)) /\ ~Compat(k) => AdapterChannels(k) <= 4
PROOF
<1> DEFINE chip == Chip(k)
           opts == machine.opts
<1>1. /\ chip.nop \in Nat /\ chip.pi \in SUBSET (0 .. 31)
      /\ opts.number \in Nat /\ opts.mask \in SUBSET (0 .. 31)
  BY MachineIs DEF Fns, Chip, Fn
<1> HIDE DEF chip, opts
<1>2. ASSUME NEW s \in SUBSET (0 .. 31) PROVE Width(s) \in Nat
  <2>1. CASE s = {}
    BY <2>1 DEF Width
  <2>2. CASE s # {}
    <3>1. Max(s) \in s /\ s \subseteq 0 .. 31
      BY <2>2, MaxIs
    <3>2. Max(s) \in Nat
      <4>1. \A x \in s : x \in Nat
        OBVIOUS
      <4> QED BY <3>1, <4>1
    <3> QED BY <2>2, <3>2 DEF Width
  <2> QED BY <2>1, <2>2
<1>3. AhciLimit(chip) \in Int
  BY DEF AhciLimit
<1>4. AhciPorts(chip) \in Int
  <2>1. Width(chip.pi) \in Int /\ chip.nop \in Int
    BY <1>1, <1>2
  <2>2. Max({chip.nop, Width(chip.pi)}) \in Int
    BY <2>1, OfTwo
  <2>3. Min({Max({chip.nop, Width(chip.pi)}), AhciLimit(chip)}) \in Int
    BY <1>3, <2>2, OfTwo
  <2> QED BY <2>3 DEF AhciPorts
<1>5. ASSUME NEW compat PROVE StartCount(chip, compat) \in Int
  BY <1>4 DEF StartCount, DefaultChannels
<1>6. ASSUME NEW n \in Int PROVE VendorCount(chip, n) \in Int
  BY DEF VendorCount
<1>7. ASSUME NEW compat
      PROVE  /\ Channels(chip, compat, opts) \in Int
             /\ ~compat /\ ~UsesAhci(chip) => Channels(chip, compat, opts) <= 4
  <2> DEFINE n == StartCount(chip, compat)
             wanted == IF opts.number = 0 THEN MaskWidth(opts, n) ELSE opts.number
  <2>1. n \in Int
    BY <1>5
  <2> HIDE DEF n
  <2>2. MaskWidth(opts, n) \in Int
    BY <1>1, <1>2, <2>1 DEF MaskWidth
  <2>3. wanted \in Int /\ VendorCount(chip, n) \in Int
    BY <1>1, <1>6, <2>1, <2>2
  <2> DEFINE v == VendorCount(chip, n)
  <2>4. Min({wanted, v}) \in Int /\ Min({wanted, v}) <= v
    <3>1. wanted \in Int /\ v \in Int
      BY <2>3
    <3> HIDE DEF wanted, v
    <3>2. Min({wanted, v}) \in {wanted, v} /\ Min({wanted, v}) <= v
      BY <3>1, OfTwo
    <3> QED BY <3>1, <3>2
  <2>5. ChannelCount(chip, compat, opts) = Min({wanted, v})
    BY DEF ChannelCount, n
  <2>6. ASSUME ~compat, ~UsesAhci(chip) PROVE v <= 4
    <3>1. n = 2
      BY <2>6 DEF n, StartCount, DefaultChannels
    <3> QED BY <3>1 DEF VendorCount
  <2> HIDE DEF wanted, v
  <2>7. ~compat /\ ~UsesAhci(chip) => Min({wanted, v}) <= 4
    BY <2>3, <2>4, <2>6 DEF v
  <2> QED BY <1>4, <2>4, <2>5, <2>7 DEF Channels
<1>8. ASSUME NEW compat
      PROVE  /\ UsedChannels(chip, compat, opts) \in Int
             /\ ~compat /\ ~UsesAhci(chip) => UsedChannels(chip, compat, opts) <= 4
  <2>1. Cardinality(chip.cfg \cap {0, 1}) \in 0 .. 2
    <3>1. IsFiniteSet({0, 1})
      <4>1. IsFiniteSet({0} \cup {1}) /\ {0, 1} = {0} \cup {1}
        BY FS_AddElement, FS_Singleton
      <4> QED BY <4>1
    <3>2. IsFiniteSet(chip.cfg \cap {0, 1}) /\ Cardinality(chip.cfg \cap {0, 1}) <= Cardinality({0, 1})
      BY <3>1, FS_Subset
    <3>3. Cardinality({0, 1}) = 2
      <4>1. {0, 1} = {0} \cup {1} /\ 1 \notin {0}
        OBVIOUS
      <4>2. IsFiniteSet({0}) /\ Cardinality({0}) = 1
        BY FS_Singleton
      <4>3. Cardinality({0} \cup {1}) = Cardinality({0}) + 1
        BY <4>1, <4>2, FS_AddElement
      <4> QED BY <4>1, <4>2, <4>3
    <3>4. Cardinality(chip.cfg \cap {0, 1}) \in Nat
      BY <3>2, FS_CardinalityType
    <3> QED BY <3>2, <3>3, <3>4
  <2> QED BY <1>7, <2>1 DEF UsedChannels
<1>9. UsedChannels(chip, Compat(k), opts) \in Int
  BY <1>8
<1>10. Max({UsedChannels(chip, Compat(k), opts), DefaultChannels}) \in Int
  BY <1>9, OfTwo DEF DefaultChannels
<1>11. ~UsesAhci(chip) /\ ~Compat(k) => UsedChannels(chip, Compat(k), opts) <= 4
  BY <1>8
<1> QED BY <1>9, <1>10, <1>11 DEF AdapterChannels, chip, opts

-----------------------------------------------------------------------------
(* Adapters are added at the end and stay. *)
IsSeq(s) == \E S : s \in Seq(S)

(* What Append does to a sequence of anything. *)
LEMMA AppendIs ==
  ASSUME NEW s, IsSeq(s), NEW e
  PROVE  LET t == Append(s, e)
         IN  /\ IsSeq(t) /\ Len(s) \in Nat /\ Len(t) = Len(s) + 1
             /\ DOMAIN s = 1 .. Len(s) /\ DOMAIN t = 1 .. Len(s) + 1
             /\ \A a \in 1 .. Len(s) : t[a] = s[a]
             /\ t[Len(s) + 1] = e
PROOF
<1>1. PICK S : s \in Seq(S)
  BY DEF IsSeq
<1> DEFINE U == S \cup {e}
           t == Append(s, e)
<1>2. s \in Seq(U)
  BY <1>1
<1>3. e \in U
  OBVIOUS
<1> HIDE DEF U
<1>4. t \in Seq(U) /\ Len(s) \in Nat /\ Len(t) = Len(s) + 1
      /\ \A a \in 1 .. Len(s) : t[a] = s[a]
      /\ t[Len(s) + 1] = e
  BY <1>2, <1>3
<1> QED BY <1>2, <1>4 DEF IsSeq

(* The ports that some adapter serves. *)
ServedPorts == UNION {PortsOf(adapters[a].channels) : a \in DOMAIN adapters}

(* Those of one more adapter are served, and no port is lost. *)
LEMMA MoreServed ==
  ASSUME IsSeq(adapters), NEW d, adapters' = Append(adapters, d)
  PROVE  /\ IsSeq(adapters')
         /\ ServedPorts \cup PortsOf(d.channels) \subseteq ServedPorts'
PROOF
<1>1. /\ IsSeq(adapters') /\ Len(adapters) \in Nat
      /\ DOMAIN adapters = 1 .. Len(adapters) /\ DOMAIN adapters' = 1 .. Len(adapters) + 1
      /\ \A a \in 1 .. Len(adapters) : adapters'[a] = adapters[a]
      /\ adapters'[Len(adapters) + 1] = d
  BY AppendIs
<1>2. ASSUME NEW p \in ServedPorts PROVE p \in ServedPorts'
  <2>1. PICK a \in DOMAIN adapters : p \in PortsOf(adapters[a].channels)
    BY DEF ServedPorts
  <2>2. a \in DOMAIN adapters' /\ adapters'[a] = adapters[a]
    BY <1>1, <2>1
  <2>3. p \in PortsOf(adapters'[a].channels)
    BY <2>1, <2>2
  <2> QED BY <2>2, <2>3 DEF ServedPorts, PortsOf
<1>3. ASSUME NEW p \in PortsOf(d.channels) PROVE p \in ServedPorts'
  <2>1. Len(adapters) + 1 \in DOMAIN adapters'
    BY <1>1
  <2>2. p \in PortsOf(adapters'[Len(adapters) + 1].channels)
    BY <1>1
  <2> QED BY <2>1, <2>2 DEF ServedPorts, PortsOf
<1> QED BY <1>1, <1>2, <1>3

(* A start that meets no refusal claims the ports of the adapter it makes  *)
(* (UniataFindBusMasterController).                                        *)
LEMMA ClaimedPorts ==
  ASSUME machine \in Machines, PortsAtHome(machine), NEW k \in Fns, NEW offered,
         NEW channel \in 0 .. 1, NEW alt, NEW claims,
         Compat(k) \/ channel = 0,
         NEW found \in FindController(k, offered, channel, alt, claims), ~found.bad
  PROVE  /\ found.own \subseteq own \cup PortsOf(found.adapter)
         /\ found.found \/ found.own = own
PROOF
<1> DEFINE n == AdapterChannels(k)
           free == <<"none", 0>>
<1>1. n \in Int
  BY CountIs
<1>2. CASE found = NotFound \/ found = [NotFound EXCEPT !.found = TRUE, !.firstOk = TRUE]
  <2>1. NotFound.own = own /\ [NotFound EXCEPT !.found = TRUE, !.firstOk = TRUE].own = own
    BY DEF NotFound
  <2>2. found.own = own
    BY <1>2, <2>1
  <2> QED BY <2>2
<1>3. CASE \E r : found = MapChannels(k, offered, channel, n, r)
  <2>1. PICK r : found = MapChannels(k, offered, channel, n, r)
    BY <1>3
  <2> DEFINE stop == IF r[1] = "control" THEN r[2] ELSE n
             usable == {c \in 0 .. n - 1 : c < stop /\ HasPorts(k, c) /\ r # <<"ports", c>>}
             chans == [c \in 1 .. n |-> IF c - 1 \in usable
                                        THEN ChannelRegs(k, offered, c - 1, channel)
                                        ELSE NoChannel]
  <2>2. /\ found.own = own \cup UNION {Claims(k, c, channel) : c \in usable}
        /\ found.adapter = chans /\ found.bad = (r[1] # "none")
        /\ found.found = (usable # {} /\ stop = n /\ r[1] # "interrupt")
    BY <2>1 DEF MapChannels
  <2>3. r[1] = "none" /\ stop = n
    BY <2>2
  <2>4. ASSUME NEW c \in usable, NEW p \in Claims(k, c, channel)
        PROVE  p \in PortsOf(chans)
    <3>1. c \in 0 .. n - 1 /\ c + 1 \in 1 .. n /\ (c + 1) - 1 = c
      BY <1>1
    <3>2. chans[c + 1] = ChannelRegs(k, offered, c, channel) /\ c + 1 \in DOMAIN chans
      BY <3>1
    <3> HIDE DEF chans, usable, stop
    <3>3. p \in ChannelRegs(k, offered, c, channel).port
      <4>1. CASE Compat(k)
        <5>1. ~OwnMap(Chip(k)) /\ ~UsesAhci(Chip(k))
          BY <4>1 DEF PortsAtHome, AtHome, Compat, Fns, Fn, Chip
        <5> QED BY <4>1, <5>1 DEF Claims, ChannelRegs
      <4>2. CASE ~Compat(k)
        <5>1. channel = 0 /\ channel + c = c
          BY <3>1, <4>2
        <5>2. Fn(k).std /\ ~OwnMap(Chip(k)) /\ ~UsesAhci(Chip(k)) /\ p \in {Port(c)}
          BY <4>2 DEF Claims
        <5> QED BY <5>1, <5>2 DEF ChannelRegs
      <4> QED BY <4>1, <4>2
    <3> QED BY <3>2, <3>3 DEF PortsOf
  <2> HIDE DEF chans, usable, stop
  <2> QED BY <2>2, <2>3, <2>4
<1> QED BY <1>2, <1>3 DEF FindController


-----------------------------------------------------------------------------
(* The shape of a state: the entries of the list are functions of the      *)
(* machine, marked as what they are; a try is of a controller in           *)
(* compatibility mode, one of its two channels.                            *)
Phases == {"enum", "master", "try", "native", "isa", "mca", "done"}

Entries(fns) == \A j \in DOMAIN list : list[j].fn \in fns /\ list[j].master = Compat(list[j].fn)

Typed ==
  /\ machine \in Machines /\ phase \in Phases
  /\ IsSeq(list) /\ IsSeq(adapters)
  /\ Entries(Fns)
  /\ phase = "enum" => pass \in 0 .. 2 /\ pos \in 1 .. Len(machine.fns) + 1
  /\ phase # "enum" => i \in Nat \ {0}
  /\ phase = "try" => pos \in {0, 1} /\ i \in DOMAIN list /\ list[i].master
  /\ phase \in {"isa", "mca"} => pass \in 0 .. 4

(* No step changes the machine, and nothing that is read from it. *)
LEMMA SameMachine ==
  ASSUME [Next]_vars
  PROVE  /\ machine' = machine /\ Fns' = Fns
         /\ \A k : Compat(k)' = Compat(k)
PROOF
<1>1. machine' = machine
  <2>1. CASE EnumFunction
    BY <2>1 DEF EnumFunction
  <2>2. CASE EnumPass
    BY <2>2 DEF EnumPass
  <2>3. CASE MasterHead
    BY <2>3 DEF MasterHead
  <2>4. CASE TryChannel
    BY <2>4 DEF TryChannel
  <2>5. CASE StartNative
    BY <2>5 DEF StartNative
  <2>6. CASE FindIsaController
    BY <2>6 DEF FindIsaController
  <2>7. CASE EndOfBus
    BY <2>7 DEF EndOfBus
  <2>8. CASE UNCHANGED vars
    BY <2>8 DEF vars
  <2> QED BY <2>1, <2>2, <2>3, <2>4, <2>5, <2>6, <2>7, <2>8 DEF Next
<1> QED BY <1>1 DEF Fns, Compat, Fn, Switched, Option

(* The initial states have that shape. *)
LEMMA InitTyped ==
  ASSUME Init
  PROVE  Typed
PROOF
<1>1. /\ machine \in Machines /\ phase = "enum" /\ pass = 0 /\ pos = 1
      /\ list = <<>> /\ adapters = <<>>
  BY DEF Init
<1>2. IsSeq(<<>>)
  <2>1. <<>> \in Seq({})
    OBVIOUS
  <2> QED BY <2>1 DEF IsSeq
<1>3. DOMAIN list = {}
  BY <1>1
<1>4. Len(machine.fns) \in Nat
  BY <1>1, MachineIs
<1>5. Entries(Fns)
  BY <1>3 DEF Entries
<1>6. pass \in 0 .. 2 /\ pos \in 1 .. Len(machine.fns) + 1
  BY <1>1, <1>4
<1> QED BY <1>1, <1>2, <1>5, <1>6 DEF Typed, Phases

(* The number of functions of a machine, and the list, as they are read in *)
(* a state of this shape.                                                  *)
LEMMA TypedIs ==
  ASSUME Typed
  PROVE  /\ Len(machine.fns) \in Nat /\ Len(list) \in Nat /\ DOMAIN list = 1 .. Len(list)
PROOF
<1>1. Len(list) \in Nat /\ DOMAIN list = 1 .. Len(list)
  BY AppendIs DEF Typed
<1> QED BY <1>1, MachineIs DEF Typed

(* Every step keeps the shape. *)
LEMMA StepTyped ==
  ASSUME Typed, [Next]_vars
  PROVE  Typed'
PROOF
<1>m. /\ machine' = machine /\ Fns' = Fns
      /\ \A k : Compat(k)' = Compat(k)
  BY SameMachine
<1>t. Len(machine.fns) \in Nat /\ Len(list) \in Nat /\ DOMAIN list = 1 .. Len(list)
  BY TypedIs
<1>p. machine' \in Machines
  BY <1>m DEF Typed
<1>l. ASSUME UNCHANGED list
      PROVE  IsSeq(list') /\ Entries(Fns)'
  BY <1>l, <1>m DEF Typed, Entries
<1>a. ASSUME adapters' = adapters \/ \E d : adapters' = Append(adapters, d)
      PROVE  IsSeq(adapters')
  <2>1. IsSeq(adapters)
    BY DEF Typed
  <2>2. CASE adapters' = adapters
    BY <2>1, <2>2
  <2>3. CASE \E d : adapters' = Append(adapters, d)
    <3>1. PICK d : adapters' = Append(adapters, d)
      BY <2>3
    <3>2. IsSeq(Append(adapters, d))
      BY <2>1, AppendIs
    <3> QED BY <3>1, <3>2
  <2> QED BY <1>a, <2>2, <2>3
<1>1. CASE EnumFunction
  <2>1. /\ phase = "enum" /\ pos \in Fns /\ pos' = pos + 1
        /\ phase' = phase /\ pass' = pass /\ adapters' = adapters
    BY <1>1 DEF EnumFunction
  <2>2. pos' \in 1 .. Len(machine'.fns) + 1
    BY <1>m, <1>t, <2>1 DEF Fns
  <2>3. IsSeq(list') /\ Entries(Fns)'
    <3>1. CASE UNCHANGED list
      BY <1>l, <3>1
    <3>2. CASE \E alt : list' = Append(list, Entry(pos, alt))
      <4>1. PICK alt : list' = Append(list, Entry(pos, alt))
        BY <3>2
      <4>2. /\ IsSeq(list') /\ DOMAIN list' = 1 .. Len(list) + 1
            /\ \A a \in 1 .. Len(list) : list'[a] = list[a]
            /\ list'[Len(list) + 1] = Entry(pos, alt)
        BY <4>1, AppendIs DEF Typed
      <4>3. Entry(pos, alt).fn = pos /\ Entry(pos, alt).master = Compat(pos)
        BY DEF Entry
      <4>4. ASSUME NEW j \in DOMAIN list'
            PROVE  list'[j].fn \in Fns /\ list'[j].master = Compat(list'[j].fn)
        <5>1. CASE j \in 1 .. Len(list)
          BY <1>t, <4>2, <5>1 DEF Typed, Entries
        <5>2. CASE j = Len(list) + 1
          BY <2>1, <4>2, <4>3, <5>2
        <5> QED BY <1>t, <4>2, <5>1, <5>2
      <4> QED BY <1>m, <4>2, <4>4 DEF Entries
    <3> QED BY <1>1, <3>1, <3>2 DEF EnumFunction
  <2>4. phase' = "enum" /\ pass' \in 0 .. 2
    BY <2>1 DEF Typed
  <2>5. IsSeq(adapters')
    BY <2>1 DEF Typed
  <2> QED BY <1>p, <2>2, <2>3, <2>4, <2>5 DEF Typed, Phases
<1>2. CASE EnumPass
  <2>1. /\ phase = "enum" /\ pos' = 1 /\ UNCHANGED <<list, adapters>>
        /\ \/ phase' = "master" /\ i' = 1
           \/ pass # 2 /\ pass' = pass + 1 /\ phase' = phase
    BY <1>2 DEF EnumPass
  <2>2. IsSeq(list') /\ Entries(Fns)' /\ IsSeq(adapters')
    BY <1>l, <2>1 DEF Typed
  <2>3. pos' \in 1 .. Len(machine'.fns) + 1
    BY <1>m, <1>t, <2>1
  <2>4. CASE phase' = "master" /\ i' = 1
    BY <1>p, <2>2, <2>4 DEF Typed, Phases
  <2>5. CASE pass # 2 /\ pass' = pass + 1 /\ phase' = phase
    <3>1. pass' \in 0 .. 2 /\ phase' = "enum"
      BY <2>1, <2>5 DEF Typed
    <3> QED BY <1>p, <2>2, <2>3, <3>1 DEF Typed, Phases
  <2> QED BY <2>1, <2>4, <2>5
<1>3. CASE MasterHead
  <2>1. /\ phase = "master" /\ UNCHANGED <<list, adapters>> /\ i' = i
        /\ \/ phase' = "native"
           \/ /\ phase' = "try" /\ pos' = 0 /\ ~(i > Len(list)) /\ list[i].master
    BY <1>3 DEF MasterHead, ToNative
  <2>2. IsSeq(list') /\ Entries(Fns)' /\ IsSeq(adapters')
    BY <1>l, <2>1 DEF Typed
  <2>3. i' \in Nat \ {0}
    BY <2>1 DEF Typed
  <2>4. CASE phase' = "native"
    BY <1>p, <2>2, <2>3, <2>4 DEF Typed, Phases
  <2>5. CASE phase' = "try" /\ pos' = 0 /\ ~(i > Len(list)) /\ list[i].master
    <3>1. i' \in DOMAIN list' /\ list'[i'].master
      BY <1>t, <2>1, <2>3, <2>5
    <3> QED BY <1>p, <2>2, <2>3, <2>5, <3>1 DEF Typed, Phases
  <2> QED BY <2>1, <2>4, <2>5
<1>4. CASE TryChannel
  <2>1. /\ phase = "try" /\ UNCHANGED list /\ \E ok : NextTry(ok)
        /\ adapters' = adapters \/ \E d : adapters' = Append(adapters, d)
    BY <1>4 DEF TryChannel, Accept
  <2>2. IsSeq(list') /\ Entries(Fns)'
    BY <1>l, <2>1 DEF Typed
  <2>3. IsSeq(adapters')
    BY <1>a, <2>1
  <2>4. pos \in {0, 1} /\ i \in DOMAIN list /\ list[i].master /\ i \in Nat \ {0}
    BY <2>1 DEF Typed
  <2>5. \/ pos' \in {0, 1} /\ i' = i /\ phase' = phase
        \/ i' = i + 1 /\ phase' = "master"
    BY <2>1, <2>4 DEF NextTry
  <2>6. CASE pos' \in {0, 1} /\ i' = i /\ phase' = phase
    <3>1. phase' = "try" /\ i' \in DOMAIN list' /\ list'[i'].master /\ i' \in Nat \ {0}
      BY <2>1, <2>4, <2>6
    <3> QED BY <1>p, <2>2, <2>3, <2>6, <3>1 DEF Typed, Phases
  <2>7. CASE i' = i + 1 /\ phase' = "master"
    <3>1. i' \in Nat \ {0}
      BY <2>4, <2>7
    <3> QED BY <1>p, <2>2, <2>3, <2>7, <3>1 DEF Typed, Phases
  <2> QED BY <2>5, <2>6, <2>7
<1>5. CASE StartNative
  <2>1. /\ phase = "native" /\ UNCHANGED list
        /\ \/ phase' = "isa" /\ pass' = 0 /\ i' = i
           \/ phase' = phase /\ i' = i + 1
        /\ adapters' = adapters \/ \E d : adapters' = Append(adapters, d)
    BY <1>5 DEF StartNative, Accept
  <2>2. IsSeq(list') /\ Entries(Fns)'
    BY <1>l, <2>1 DEF Typed
  <2>3. IsSeq(adapters')
    BY <1>a, <2>1
  <2>4. i' \in Nat \ {0}
    BY <2>1 DEF Typed
  <2>5. CASE phase' = "isa" /\ pass' = 0
    <3>1. pass' \in 0 .. 4
      BY <2>5
    <3> QED BY <1>p, <2>2, <2>3, <2>4, <2>5, <3>1 DEF Typed, Phases
  <2>6. CASE phase' = phase
    <3>1. phase' = "native"
      BY <2>1, <2>6
    <3> QED BY <1>p, <2>2, <2>3, <2>4, <3>1 DEF Typed, Phases
  <2> QED BY <2>1, <2>5, <2>6
<1>6. CASE FindIsaController
  <2>1. /\ phase \in {"isa", "mca"} /\ pass < 4 /\ pass' = pass + 1
        /\ UNCHANGED <<list, phase, i>>
        /\ adapters' = adapters \/ \E d : adapters' = Append(adapters, d)
    BY <1>6 DEF FindIsaController, AdapterAddresses
  <2>2. IsSeq(list') /\ Entries(Fns)'
    BY <1>l, <2>1 DEF Typed
  <2>3. IsSeq(adapters')
    BY <1>a, <2>1
  <2>4. i' \in Nat \ {0} /\ pass' \in 0 .. 4 /\ phase' \in {"isa", "mca"}
    BY <2>1 DEF Typed
  <2> QED BY <1>p, <2>2, <2>3, <2>4 DEF Typed, Phases
<1>7. CASE EndOfBus
  <2>1. /\ phase \in {"isa", "mca"} /\ pass' = 0 /\ phase' \in {"mca", "done"}
        /\ UNCHANGED <<list, adapters, i>>
    BY <1>7 DEF EndOfBus
  <2>2. IsSeq(list') /\ Entries(Fns)' /\ IsSeq(adapters')
    BY <1>l, <2>1 DEF Typed
  <2>3. i' \in Nat \ {0} /\ pass' \in 0 .. 4
    BY <2>1 DEF Typed
  <2> QED BY <1>p, <2>1, <2>2, <2>3 DEF Typed, Phases
<1>8. CASE UNCHANGED vars
  <2>1. UNCHANGED <<machine, phase, list, adapters, pass, pos, i>>
    BY <1>8 DEF vars
  <2>2. IsSeq(list') /\ Entries(Fns)' /\ IsSeq(adapters')
    BY <1>l, <2>1 DEF Typed
  <2> QED BY <1>p, <2>1, <2>2 DEF Typed, Phases
<1> QED BY <1>1, <1>2, <1>3, <1>4, <1>5, <1>6, <1>7, <1>8 DEF Next

-----------------------------------------------------------------------------
(* The first n addresses of the search: where a disk controller answers,   *)
(* the port is another driver's or some adapter serves it.                 *)
Passed(n) ==
  \A q \in 1 .. n : AdapterAddresses[q] \in machine.disks => AdapterAddresses[q] \in machine.taken \cup ServedPorts

(* While no start meets a refusal, every claim, of the system or of the    *)
(* driver itself, is another driver's or has an adapter behind it.         *)
ClaimsServed ==
  hit = {} =>
    /\ own \cup sys \subseteq machine.taken \cup ServedPorts
    /\ phase = "isa" /\ Searched("isa") => Passed(pass)
    /\ phase \in {"mca", "done"} /\ Searched("isa") => Passed(4)
    /\ phase = "mca" /\ Searched("mca") => Passed(pass)
    /\ phase = "done" /\ Searched("mca") => Passed(4)

(* A start that meets no refusal leaves no claim without an adapter.       *)
LEMMA StartServes ==
  ASSUME Typed, PortsAtHome(machine), NEW k \in Fns, NEW offered,
         NEW channel \in 0 .. 1, NEW alt, NEW before,
         Compat(k) \/ channel = 0,
         own \cup before \subseteq machine.taken \cup ServedPorts,
         NEW found \in FindController(k, offered, channel, alt, before),
         NEW answer, Accept(k, found, answer, before), hit' = {}
  PROVE  hit = {} /\ own' \cup sys' \subseteq machine.taken \cup ServedPorts'
PROOF
<1>1. hit' = IF found.bad \/ (found.found /\ answer = "no") THEN hit \cup {k} ELSE hit
  BY DEF Accept
<1>2. ~(found.bad \/ (found.found /\ answer = "no")) /\ hit = {}
  <2>1. k \in hit \cup {k}
    OBVIOUS
  <2>2. ~(found.bad \/ (found.found /\ answer = "no"))
    BY <1>1, <2>1
  <2> QED BY <1>1, <2>2
<1>3. /\ found.own \subseteq own \cup PortsOf(found.adapter)
      /\ found.found \/ found.own = own
  BY <1>2, ClaimedPorts DEF Typed
<1>4. own' = found.own
  BY DEF Accept
<1>5. CASE answer = "no"
  <2>1. adapters' = adapters /\ sys' = before /\ own' = own
    BY <1>2, <1>3, <1>4, <1>5 DEF Accept
  <2>2. ServedPorts' = ServedPorts
    BY <2>1 DEF ServedPorts
  <2> QED BY <1>2, <2>1, <2>2
<1>6. CASE answer # "no"
  <2> DEFINE d == Adapter(k, found.adapter, answer)
  <2>1. adapters' = Append(adapters, d) /\ sys' = before \cup (PortsOf(found.adapter) \cap Legacy)
    BY <1>6 DEF Accept, Told
  <2>2. d.channels = found.adapter
    BY DEF Adapter
  <2>3. ServedPorts \cup PortsOf(d.channels) \subseteq ServedPorts'
    BY <2>1, MoreServed DEF Typed
  <2> HIDE DEF d
  <2>4. PortsOf(found.adapter) \subseteq ServedPorts' /\ ServedPorts \subseteq ServedPorts'
    BY <2>2, <2>3
  <2> QED BY <1>2, <1>3, <1>4, <2>1, <2>4
<1> QED BY <1>5, <1>6

(* Every step keeps it. *)
LEMMA StepServed ==
  ASSUME Typed, PortsAtHome(machine), ClaimsServed, [Next]_vars
  PROVE  ClaimsServed'
PROOF
<1>m. machine' = machine
  BY SameMachine
<1>t. Len(list) \in Nat /\ DOMAIN list = 1 .. Len(list)
  BY TypedIs
<1>0. SUFFICES ASSUME hit' = {} PROVE ClaimsServed'
  BY DEF ClaimsServed
<1>s. \A b : Searched(b)' = Searched(b)
  BY <1>m DEF Searched, Option
<1>a. ASSUME adapters' = adapters
      PROVE  ServedPorts' = ServedPorts
  BY <1>a DEF ServedPorts
<1>e. ASSUME own' \cup sys' \subseteq machine.taken \cup ServedPorts',
             phase' \in {"enum", "master", "try", "native"}
      PROVE  ClaimsServed'
  BY <1>e, <1>m DEF ClaimsServed
<1>1. CASE EnumFunction \/ EnumPass \/ MasterHead
  <2>1. /\ UNCHANGED <<own, sys, adapters>> /\ hit' = hit
        /\ phase' \in {"enum", "master", "try", "native"}
    BY <1>1 DEF EnumFunction, EnumPass, MasterHead, ToNative
  <2>2. own' \cup sys' \subseteq machine.taken \cup ServedPorts'
    BY <1>0, <1>a, <2>1 DEF ClaimsServed
  <2> QED BY <1>e, <2>1, <2>2
<1>4. CASE TryChannel
  <2> DEFINE k == list[i].fn
             before == IF IsNt THEN sys \ {Port(pos)} ELSE sys
  <2>1. /\ pos \in 0 .. 1 /\ i \in DOMAIN list /\ k \in Fns /\ Compat(k)
    <3>1. phase = "try"
      BY <1>4 DEF TryChannel
    <3>2. pos \in {0, 1} /\ i \in DOMAIN list /\ list[i].master /\ Entries(Fns)
      BY <3>1 DEF Typed
    <3> QED BY <3>2 DEF Entries
  <2>2. phase' \in {"try", "master"}
    <3>1. phase = "try" /\ \E ok : NextTry(ok)
      BY <1>4 DEF TryChannel
    <3> QED BY <3>1 DEF NextTry
  <2>3. \/ UNCHANGED <<sys, own, adapters, hit>>
        \/ \E found \in FindController(k, k, pos, pass # pref, before) : \E answer \in Answers(found) :
             Accept(k, found, answer, before)
    BY <1>4 DEF TryChannel
  <2>4. before \subseteq sys
    OBVIOUS
  <2> HIDE DEF k, before
  <2>5. CASE UNCHANGED <<sys, own, adapters, hit>>
    <3>1. own' \cup sys' \subseteq machine.taken \cup ServedPorts'
      BY <1>0, <1>a, <2>5 DEF ClaimsServed
    <3> QED BY <1>e, <2>2, <3>1
  <2>6. CASE \E found \in FindController(k, k, pos, pass # pref, before) : \E answer \in Answers(found) :
               Accept(k, found, answer, before)
    <3>1. PICK found \in FindController(k, k, pos, pass # pref, before) : \E answer \in Answers(found) :
                 Accept(k, found, answer, before)
      BY <2>6
    <3>2. PICK answer : Accept(k, found, answer, before)
      BY <3>1
    <3>3. hit = {}
      BY <1>0, <3>2 DEF Accept
    <3>4. own \cup before \subseteq machine.taken \cup ServedPorts
      BY <2>4, <3>3 DEF ClaimsServed
    <3>5. own' \cup sys' \subseteq machine.taken \cup ServedPorts'
      BY <1>0, <2>1, <3>1, <3>2, <3>4, StartServes
    <3> QED BY <1>e, <2>2, <3>5
  <2> QED BY <2>3, <2>5, <2>6
<1>5. CASE StartNative
  <2> DEFINE k == list[i].fn
             work == IF Offers(k) = {} /\ list[i].alt THEN {k} ELSE Offers(k)
  <2>1. CASE UNCHANGED <<sys, own, adapters, hit>>
    <3>1. own' \cup sys' \subseteq machine.taken \cup ServedPorts'
      BY <1>0, <1>a, <2>1 DEF ClaimsServed
    <3>2. phase' = "native" \/ (phase' = "isa" /\ pass' = 0)
      BY <1>5 DEF StartNative
    <3>3. CASE phase' = "native"
      BY <1>e, <3>1, <3>3
    <3>4. CASE phase' = "isa" /\ pass' = 0
      <4>1. Passed(pass)'
        BY <3>4 DEF Passed
      <4> QED BY <1>m, <3>1, <3>4, <4>1 DEF ClaimsServed
    <3> QED BY <3>2, <3>3, <3>4
  <2>2. CASE ~UNCHANGED <<sys, own, adapters, hit>>
    <3>1. /\ ~(i > Len(list)) /\ phase' = phase /\ phase = "native"
          /\ \E found \in FindController(k, Min(work), 0, Offers(k) = {}, sys) : \E answer \in Answers(found) :
               Accept(k, found, answer, sys)
      BY <1>5, <2>2 DEF StartNative
    <3>2. k \in Fns
      <4>1. i \in Nat \ {0} /\ Entries(Fns)
        BY <3>1 DEF Typed
      <4>2. i \in DOMAIN list
        BY <1>t, <3>1, <4>1
      <4> QED BY <4>1, <4>2 DEF Entries
    <3> HIDE DEF k, work
    <3>3. PICK found \in FindController(k, Min(work), 0, Offers(k) = {}, sys) : \E answer \in Answers(found) :
               Accept(k, found, answer, sys)
      BY <3>1
    <3>4. PICK answer : Accept(k, found, answer, sys)
      BY <3>3
    <3>5. hit = {}
      BY <1>0, <3>4 DEF Accept
    <3>6. own \cup sys \subseteq machine.taken \cup ServedPorts
      BY <3>5 DEF ClaimsServed
    <3>7. 0 \in 0 .. 1
      OBVIOUS
    <3>8. own' \cup sys' \subseteq machine.taken \cup ServedPorts'
      BY <1>0, <3>2, <3>3, <3>4, <3>6, <3>7, StartServes
    <3> QED BY <1>e, <3>1, <3>8
  <2> QED BY <2>1, <2>2
<1>6. CASE FindIsaController
  <2> DEFINE p == AdapterAddresses[pass + 1]
  <2>1. /\ phase \in {"isa", "mca"} /\ phase' = phase /\ pass' = pass + 1 /\ pass \in 0 .. 3
        /\ own' = own /\ hit = {}
    <3>1. phase \in {"isa", "mca"} /\ pass < 4
      BY <1>6 DEF FindIsaController, AdapterAddresses
    <3>2. pass \in 0 .. 4
      BY <3>1 DEF Typed
    <3> QED BY <1>0, <1>6, <3>1, <3>2 DEF FindIsaController
  <2>2. own \cup sys \subseteq machine.taken \cup ServedPorts
    BY <2>1 DEF ClaimsServed
  <2>3. /\ own' \cup sys' \subseteq machine.taken \cup ServedPorts'
        /\ ServedPorts \subseteq ServedPorts'
        /\ (Searched(phase) /\ p \in machine.disks) => p \in machine.taken \cup ServedPorts'
    <3>1. CASE Tried(p) /\ Responds(p)
      <4> DEFINE d == Adapter(0, <<IsaChannel(p)>>, "now")
      <4>1. adapters' = Append(adapters, d) /\ sys' = sys \cup (PortsOf(<<IsaChannel(p)>>) \cap Legacy)
        BY <1>6, <3>1 DEF FindIsaController, Told
      <4>2. d.channels = <<IsaChannel(p)>>
        BY DEF Adapter
      <4>3. ServedPorts \cup PortsOf(d.channels) \subseteq ServedPorts'
        BY <4>1, MoreServed DEF Typed
      <4>4. PortsOf(<<IsaChannel(p)>>) = {p}
        BY DEF PortsOf, IsaChannel
      <4> HIDE DEF d, p
      <4> QED BY <2>1, <2>2, <4>1, <4>2, <4>3, <4>4
    <3>2. CASE ~(Tried(p) /\ Responds(p))
      <4>1. adapters' = adapters /\ sys' = sys
        BY <1>6, <3>2 DEF FindIsaController
      <4>2. ServedPorts' = ServedPorts
        BY <1>a, <4>1
      <4>3. (Searched(phase) /\ p \in machine.disks) => p \in sys \cup own
        BY <3>2 DEF Tried, Responds, CheckIOInterference
      <4> HIDE DEF p
      <4> QED BY <2>1, <2>2, <4>1, <4>2, <4>3
    <3> QED BY <3>1, <3>2
  <2>4. ASSUME NEW n, Passed(n)
        PROVE  Passed(n)'
    BY <1>m, <2>3, <2>4 DEF Passed
  <2>5. ASSUME Searched(phase), Passed(pass)
        PROVE  Passed(pass)'
    <3>1. ASSUME NEW q \in 1 .. pass + 1, AdapterAddresses[q] \in machine.disks
          PROVE  AdapterAddresses[q] \in machine.taken \cup ServedPorts'
      <4>1. CASE q \in 1 .. pass
        BY <2>3, <2>5, <3>1, <4>1 DEF Passed
      <4>2. CASE q = pass + 1
        BY <2>3, <2>5, <3>1, <4>2
      <4> QED BY <2>1, <4>1, <4>2
    <3> QED BY <1>m, <2>1, <3>1 DEF Passed
  <2>6. CASE phase = "isa"
    <3>1. Searched("isa") => Passed(pass)'
      BY <2>1, <2>5, <2>6 DEF ClaimsServed
    <3> QED BY <1>m, <1>s, <2>1, <2>3, <2>6, <3>1 DEF ClaimsServed
  <2>7. CASE phase = "mca"
    <3>1. Searched("mca") => Passed(pass)'
      BY <2>1, <2>5, <2>7 DEF ClaimsServed
    <3>2. Searched("isa") => Passed(4)'
      BY <2>1, <2>4, <2>7 DEF ClaimsServed
    <3> QED BY <1>m, <1>s, <2>1, <2>3, <2>7, <3>1, <3>2 DEF ClaimsServed
  <2> QED BY <2>1, <2>6, <2>7
<1>7. CASE EndOfBus
  <2>1. /\ UNCHANGED <<own, sys, adapters>> /\ hit = {} /\ pass = 4 /\ pass' = 0
        /\ \/ phase = "isa" /\ phase' = "mca"
           \/ phase = "mca" /\ phase' = "done"
    BY <1>0, <1>7 DEF EndOfBus, AdapterAddresses
  <2>2. own' \cup sys' \subseteq machine.taken \cup ServedPorts'
    BY <1>a, <2>1 DEF ClaimsServed
  <2>3. ASSUME NEW n, Passed(n)
        PROVE  Passed(n)'
    BY <1>a, <1>m, <2>1, <2>3 DEF Passed
  <2>4. Passed(pass)'
    BY <2>1 DEF Passed
  <2>5. CASE phase = "isa" /\ phase' = "mca"
    <3>1. Searched("isa") => Passed(4)'
      BY <2>1, <2>3, <2>5 DEF ClaimsServed
    <3> QED BY <1>m, <1>s, <2>2, <2>4, <2>5, <3>1 DEF ClaimsServed
  <2>6. CASE phase = "mca" /\ phase' = "done"
    <3>1. /\ Searched("isa") => Passed(4)'
          /\ Searched("mca") => Passed(4)'
      BY <2>1, <2>3, <2>6 DEF ClaimsServed
    <3> QED BY <1>m, <1>s, <2>2, <2>6, <3>1 DEF ClaimsServed
  <2> QED BY <2>1, <2>5, <2>6
<1>8. CASE UNCHANGED vars
  <2>1. UNCHANGED <<own, sys, adapters, hit, phase, pass>>
    BY <1>8 DEF vars
  <2>2. ServedPorts' = ServedPorts
    BY <1>a, <2>1
  <2>3. \A n : Passed(n)' = Passed(n)
    BY <1>m, <2>2 DEF Passed
  <2>4. Passed(pass)' = Passed(pass)
    BY <1>m, <2>1, <2>2 DEF Passed
  <2> QED BY <1>m, <1>s, <2>1, <2>2, <2>3, <2>4 DEF ClaimsServed
<1> QED BY <1>1, <1>4, <1>5, <1>6, <1>7, <1>8 DEF Next

(* LegacyServed follows: the search passes over an address only where it   *)
(* meets a claim (AtapiCheckIOInterference), and behind a claim is an      *)
(* adapter or another driver.                                              *)
LEMMA ServedInTheEnd ==
  ASSUME Typed, ClaimsServed
  PROVE  LegacyServed
PROOF
<1>1. SUFFICES ASSUME phase = "done", hit = {}, Searched("isa") \/ Searched("mca"),
                      NEW p \in machine.disks \ machine.taken
               PROVE  Served(p)
  BY DEF LegacyServed
<1>2. Passed(4)
  BY <1>1 DEF ClaimsServed
<1>3. machine.disks \subseteq {"P1", "P2", "P3", "P4"}
  BY MachineIs DEF Typed
<1>4. \E q \in 1 .. 4 : p = AdapterAddresses[q]
  <2>1. /\ AdapterAddresses[1] = "P1" /\ AdapterAddresses[2] = "P2"
        /\ AdapterAddresses[3] = "P3" /\ AdapterAddresses[4] = "P4"
    BY DEF AdapterAddresses
  <2>2. 1 \in 1 .. 4 /\ 2 \in 1 .. 4 /\ 3 \in 1 .. 4 /\ 4 \in 1 .. 4
    OBVIOUS
  <2>3. p \in {"P1", "P2", "P3", "P4"}
    BY <1>3
  <2> QED BY <2>1, <2>2, <2>3
<1>5. p \in ServedPorts
  BY <1>2, <1>4 DEF Passed
<1>6. PICK a \in DOMAIN adapters : p \in PortsOf(adapters[a].channels)
  BY <1>5 DEF ServedPorts
<1> QED BY <1>6 DEF Served

(* A disk controller that answers at a legacy address of no other driver   *)
(* has an adapter in the end, on every machine whose controllers in        *)
(* compatibility mode have their ports there, unless a start is refused.   *)
THEOREM AddressesServed ==
  ASSUME \A m \in Machines : PortsAtHome(m)
  PROVE  Spec => []LegacyServed
PROOF
<1> DEFINE Inv == Typed /\ ClaimsServed
<1>1. Init => Inv
  <2> SUFFICES ASSUME Init PROVE Inv
    OBVIOUS
  <2>1. Typed
    BY InitTyped
  <2>2. own = {} /\ sys = machine.taken /\ phase = "enum"
    BY DEF Init
  <2>3. ClaimsServed
    BY <2>2 DEF ClaimsServed
  <2> QED BY <2>1, <2>3
<1>2. Inv /\ [Next]_vars => Inv'
  <2> SUFFICES ASSUME Inv, [Next]_vars PROVE Inv'
    OBVIOUS
  <2>1. PortsAtHome(machine)
    BY DEF Typed
  <2> QED BY <2>1, StepTyped, StepServed
<1>3. Inv => LegacyServed
  BY ServedInTheEnd
<1> QED BY <1>1, <1>2, <1>3, PTL DEF Spec

-----------------------------------------------------------------------------
(* A controller is in compatibility mode or it is not. *)
LEMMA NotCompat ==
  \A k : ~Compat(k) => Compat(k) = FALSE
  BY DEF Compat

(* Twins have the same twins. *)
LEMMA Twins ==
  ASSUME NEW f, NEW k, Twin(f, k), Fn(k).kind = "storage"
  PROVE  Twin(k, f) /\ \A g : Twin(g, f) <=> Twin(g, k)
  BY DEF Twin

(* What a native controller that can be started becomes, when the port     *)
(* driver offers the function of the list: a refusal, or an adapter with   *)
(* its own registers.                                                      *)
OwnChannels(k, chans) ==
  \A c \in DOMAIN chans : \A r \in chans[c].cmd \cup chans[c].bm : r[1] \in {Fn(k).id} \cup Legacy

(* What a native controller that can be started becomes when the port      *)
(* driver offers the function of the list: it is found, with its own       *)
(* registers, unless a range is refused.                                   *)
LEMMA NativeStart ==
  ASSUME machine \in Machines, Pairs(machine), NEW k \in Fns, ~Compat(k), Startable(k),
         NEW alt, NEW claims,
         NEW found \in FindController(k, k, 0, alt, claims), ~found.bad
  PROVE  found.found /\ OwnChannels(k, found.adapter)
PROOF
<1> DEFINE n == AdapterChannels(k)
<1>1. n \in Int
  BY CountIs
<1>0. Compat(k) = FALSE
  BY NotCompat
<1>2. \E r : found = MapChannels(k, k, 0, n, r)
  <2>1. ChipDetect(Chip(k), Compat(k), 0, machine.opts).ok
    BY <1>0 DEF Startable
  <2>2. ~Claimed(k, 0, alt, claims)
    BY DEF Claimed
  <2>3. ~(0 > 0 /\ n > 1)
    OBVIOUS
  <2> QED BY <2>1, <2>2, <2>3 DEF FindController
<1>3. PICK r : found = MapChannels(k, k, 0, n, r)
  BY <1>2
<1> DEFINE stop == IF r[1] = "control" THEN r[2] ELSE n
           usable == {c \in 0 .. n - 1 : c < stop /\ HasPorts(k, c) /\ r # <<"ports", c>>}
           chans == [c \in 1 .. n |-> IF c - 1 \in usable
                                      THEN ChannelRegs(k, k, c - 1, 0)
                                      ELSE NoChannel]
<1>4. /\ found.adapter = chans /\ found.bad = (r[1] # "none")
      /\ found.found = (usable # {} /\ stop = n /\ r[1] # "interrupt")
  BY <1>3 DEF MapChannels
<1>5. r[1] = "none" /\ stop = n
  BY <1>4
<1>6. usable # {}
  <2>1. PICK c \in 0 .. n - 1 : HasPorts(k, c)
    BY DEF Startable
  <2>2. c < stop
    BY <1>1, <1>5, <2>1
  <2>3. r # <<"ports", c>>
    BY <1>5
  <2> HIDE DEF n, stop
  <2> QED BY <2>1, <2>2, <2>3
<1>7. ASSUME NEW regs, NEW x \in Ranges(k, k, regs)
      PROVE  x[1] = Fn(k).id
  <2>1. \E s : x \in Tag(Fn(k).id, s)
    BY <1>7 DEF Ranges
  <2> QED BY <2>1 DEF Tag
<1>8. ASSUME NEW c \in 0 .. n - 1, NEW x \in ChannelRegs(k, k, c, 0).cmd \cup ChannelRegs(k, k, c, 0).bm
      PROVE  x[1] \in {Fn(k).id} \cup Legacy
  <2>1. CASE UsesAhci(Chip(k)) \/ OwnMap(Chip(k))
    <3>1. \E regs : x \in Ranges(k, k, regs)
      BY <1>8, <2>1 DEF ChannelRegs
    <3> QED BY <1>7, <3>1
  <2>2. CASE ~(UsesAhci(Chip(k)) \/ OwnMap(Chip(k)))
    <3>1. CASE x \in ChannelRegs(k, k, c, 0).bm \/ ~Fn(k).std
      <4>1. \E regs : x \in Ranges(k, k, regs)
        BY <1>8, <2>2, <3>1 DEF ChannelRegs
      <4> QED BY <1>7, <4>1
    <3>2. CASE x \in ChannelRegs(k, k, c, 0).cmd /\ Fn(k).std
      <4>1. x \in LegacyRegs(Port(0 + c))
        BY <2>2, <3>2 DEF ChannelRegs
      <4>2. n <= 2
        <5>1. UsedChannels(Chip(k), FALSE, machine.opts) <= 2
          BY <2>2, <3>2 DEF Pairs, AtHome, Fns, Fn, Chip
        <5>2. n = UsedChannels(Chip(k), FALSE, machine.opts)
          BY <1>0 DEF AdapterChannels
        <5> QED BY <5>1, <5>2
      <4>3. c = 0 \/ c = 1
        BY <1>1, <4>2
      <4>4. Port(0 + c) \in Legacy
        BY <4>3 DEF Port, Legacy, AdapterAddresses
      <4> QED BY <4>1, <4>4 DEF LegacyRegs
    <3> QED BY <1>8, <3>1, <3>2
  <2> QED BY <2>1, <2>2
<1>9. OwnChannels(k, chans)
  <2>1. SUFFICES ASSUME NEW c \in DOMAIN chans, NEW x \in chans[c].cmd \cup chans[c].bm
                 PROVE  x[1] \in {Fn(k).id} \cup Legacy
    BY DEF OwnChannels
  <2>2. c \in 1 .. n /\ c - 1 \in 0 .. n - 1
    BY <1>1
  <2>3. chans[c] = ChannelRegs(k, k, c - 1, 0) \/ chans[c] = NoChannel
    BY <2>2
  <2>4. NoChannel.cmd \cup NoChannel.bm = {}
    BY DEF NoChannel
  <2> HIDE DEF chans, n
  <2>5. chans[c] # NoChannel
    BY <2>1, <2>4
  <2> QED BY <1>8, <2>1, <2>2, <2>3, <2>5
<1> QED
  <2> HIDE DEF usable, chans
  <2> QED BY <1>4, <1>5, <1>6, <1>9

-----------------------------------------------------------------------------
(* Controllers in compatibility mode come first in the list, then the      *)
(* native ones in the order of the bus.                                    *)
InOrder ==
  /\ \A j \in DOMAIN list : Fn(list[j].fn).kind = "storage"
  /\ \A j, l \in DOMAIN list : j < l /\ ~list[j].master => ~list[l].master /\ list[j].fn < list[l].fn

(* The enumeration lists what the first pass has mapped. *)
Enumerated ==
  phase = "enum" =>
    /\ hit = {} /\ given = {}
    /\ \A k \in mapped : Fn(k).kind = "storage"
    /\ \A j \in DOMAIN list : ~list[j].master => pass = 2 /\ list[j].fn < pos

(* The loop over controllers in compatibility mode stops at the first      *)
(* native one.                                                             *)
MasterFirst ==
  phase \in {"master", "try"} =>
    /\ \A j \in DOMAIN list : j < i => list[j].master
    /\ \A k \in given \cup hit : Compat(k)

(* The native loop: what is refused has been tried; a controller not tried *)
(* yet is still to be given, one that has been tried has an adapter.       *)
TriedOnly == \A k \in hit : Compat(k) \/ \E j \in DOMAIN list : j < i /\ list[j].fn = k

InTurn(j) ==
  LET k == list[j].fn IN
  ~list[j].master /\ ~Displaced(k) /\ Startable(k) /\ Reachable(k) =>
    /\ j >= i => k \notin given
    /\ j < i => k \in hit \/ (k \in given /\ OwnAdapter(k))

StartedInOrder == phase = "native" => TriedOnly /\ \A j \in DOMAIN list : InTurn(j)

(* After it, all of them have. *)
StartedAll ==
  phase \in {"isa", "mca", "done"} /\ ~Option("IgnoreNativePci") =>
    \A j \in DOMAIN list :
      LET k == list[j].fn IN
      ~list[j].master /\ ~Displaced(k) /\ Startable(k) /\ Reachable(k) => k \in hit \/ OwnAdapter(k)

(* What does not change with the machine. *)
LEMMA SameFunctions ==
  ASSUME machine' = machine
  PROVE  /\ \A k : Fn(k)' = Fn(k)
         /\ \A o : Option(o)' <=> Option(o)
         /\ \A k : Startable(k)' <=> Startable(k)
         /\ \A k : Reachable(k)' <=> Reachable(k)
         /\ \A f, k : Twin(f, k)' <=> Twin(f, k)
PROOF
<1>1. \A k : Fn(k)' = Fn(k) /\ Chip(k)' = Chip(k)
  BY DEF Fn, Chip
<1>2. \A o : Option(o)' <=> Option(o)
  BY DEF Option
<1>3. \A k : Reachable(k)' <=> Reachable(k)
  BY DEF Reachable, Fns, Fn
<1>4. \A f, k : Twin(f, k)' <=> Twin(f, k)
  BY <1>1 DEF Twin
<1>5. \A k : Compat(k)' = Compat(k)
  BY DEF Compat, Switched, Option, Fn
<1>6. \A k : AdapterChannels(k)' = AdapterChannels(k)
  BY <1>1, <1>5 DEF AdapterChannels, OneForBoth, Option
<1>7. \A k, c : HasPorts(k, c)' <=> HasPorts(k, c)
  BY <1>1, <1>5 DEF HasPorts
<1>8. \A k : Startable(k)' <=> Startable(k)
  BY <1>1, <1>6, <1>7 DEF Startable
<1> QED BY <1>1, <1>2, <1>3, <1>4, <1>8

(* An adapter is not lost. *)
LEMMA OwnKept ==
  ASSUME IsSeq(adapters), machine' = machine,
         adapters' = adapters \/ \E d : adapters' = Append(adapters, d),
         NEW k, OwnAdapter(k)
  PROVE  OwnAdapter(k)'
PROOF
<1>1. PICK a \in DOMAIN adapters :
        /\ adapters[a].fn = k
        /\ \A c \in DOMAIN adapters[a].channels : \A r \in Uses(<<a, c>>) : r[1] \in {Fn(k).id} \cup Legacy
  BY DEF OwnAdapter
<1>2. a \in DOMAIN adapters' /\ adapters'[a] = adapters[a]
  <2>1. CASE adapters' = adapters
    BY <2>1
  <2>2. CASE \E d : adapters' = Append(adapters, d)
    <3>1. PICK d : adapters' = Append(adapters, d)
      BY <2>2
    <3>2. /\ Len(adapters) \in Nat
          /\ DOMAIN adapters = 1 .. Len(adapters) /\ DOMAIN adapters' = 1 .. Len(adapters) + 1
          /\ \A x \in 1 .. Len(adapters) : adapters'[x] = adapters[x]
      BY <3>1, AppendIs
    <3> QED BY <3>2
  <2> QED BY <2>1, <2>2
<1>3. Fn(k)' = Fn(k)
  BY DEF Fn
<1>4. \A c : Uses(<<a, c>>)' = Uses(<<a, c>>)
  BY <1>2 DEF Uses, Channel
<1> QED BY <1>1, <1>2, <1>3, <1>4 DEF OwnAdapter

(* A new adapter with registers of its own is one. *)
LEMMA OwnMade ==
  ASSUME IsSeq(adapters), machine' = machine, NEW k, NEW chans, NEW how,
         adapters' = Append(adapters, Adapter(k, chans, how)), OwnChannels(k, chans)
  PROVE  OwnAdapter(k)'
PROOF
<1>1. PICK a \in DOMAIN adapters' : adapters'[a] = Adapter(k, chans, how)
  <2>1. /\ Len(adapters) \in Nat /\ DOMAIN adapters' = 1 .. Len(adapters) + 1
        /\ adapters'[Len(adapters) + 1] = Adapter(k, chans, how)
    BY AppendIs
  <2> QED BY <2>1
<1>2. Adapter(k, chans, how).fn = k /\ Adapter(k, chans, how).channels = chans
  BY DEF Adapter
<1>3. Fn(k)' = Fn(k)
  BY DEF Fn
<1>4. \A c : Uses(<<a, c>>)' = chans[c].cmd \cup chans[c].bm
  BY <1>1, <1>2 DEF Uses, Channel
<1>5. adapters'[a].fn = k /\ adapters'[a].channels = chans
  BY <1>1, <1>2
<1>6. \A c \in DOMAIN adapters'[a].channels : \A r \in Uses(<<a, c>>)' : r[1] \in {Fn(k)'.id} \cup Legacy
  BY <1>3, <1>4, <1>5 DEF OwnChannels
<1> QED BY <1>1, <1>5, <1>6 DEF OwnAdapter

(* A native controller stands at one place of the list. *)
LEMMA OnePlace ==
  ASSUME Typed, InOrder, NEW j \in DOMAIN list, NEW l \in DOMAIN list,
         ~list[j].master, list[j].fn = list[l].fn
  PROVE  j = l
PROOF
<1>1. /\ DOMAIN list = 1 .. Len(list) /\ Len(list) \in Nat /\ Len(machine.fns) \in Nat
  BY TypedIs
<1>2. /\ list[j].fn \in Fns /\ list[j].master = Compat(list[j].fn)
      /\ list[l].master = Compat(list[l].fn)
  BY DEF Typed, Entries
<1>3. ~list[l].master
  BY <1>2
<1>4. ~(list[j].fn < list[l].fn) /\ ~(list[l].fn < list[j].fn)
  <2>1. list[j].fn \in Int
    BY <1>1, <1>2 DEF Fns
  <2> QED BY <2>1
<1>5. ~(j < l) /\ ~(l < j)
  BY <1>3, <1>4 DEF InOrder
<1> QED BY <1>1, <1>5

(* A native controller of the list, as an entry and as a function. *)
LEMMA NativeIs ==
  ASSUME Typed, InOrder, NEW j \in DOMAIN list, ~list[j].master
  PROVE  LET k == list[j].fn
         IN  k \in Fns /\ k \in Int /\ ~Compat(k) /\ Fn(k).kind = "storage" /\ Twin(k, k) /\ j \in Int
PROOF
<1>1. /\ list[j].fn \in Fns /\ list[j].master = Compat(list[j].fn) /\ Fn(list[j].fn).kind = "storage"
  BY DEF Typed, Entries, InOrder
<1>2. /\ DOMAIN list = 1 .. Len(list) /\ Len(list) \in Nat /\ Len(machine.fns) \in Nat
  BY TypedIs
<1>3. list[j].fn \in Int /\ j \in Int
  BY <1>1, <1>2 DEF Fns
<1> QED BY <1>1, <1>3 DEF Twin

(* The twins of a controller that is not displaced are not either. *)
LEMMA TwinInTurn ==
  ASSUME Typed, InOrder, NEW j \in DOMAIN list, ~list[j].master, list[j].fn \notin hit,
         ~Displaced(list[j].fn), Startable(list[j].fn), Reachable(list[j].fn),
         NEW f \in Fns, f # list[j].fn, Twin(f, list[j].fn)
  PROVE  /\ ~Displaced(f) /\ f \notin hit /\ Startable(f) /\ Reachable(f)
         /\ \E l \in DOMAIN list : list[l].fn = f /\ ~list[l].master
PROOF
<1> DEFINE k == list[j].fn
<1>1. k \in Fns /\ ~Compat(k) /\ Fn(k).kind = "storage"
  BY NativeIs
<1>2. /\ f \notin hit /\ ~Compat(f) /\ Startable(f) /\ Reachable(f)
      /\ \E l \in DOMAIN list : list[l].fn = f
  BY DEF Displaced
<1> HIDE DEF k
<1>3. \A g : Twin(g, f) <=> Twin(g, k)
  BY <1>1, Twins DEF k
<1>4. PICK l \in DOMAIN list : list[l].fn = f
  BY <1>2
<1>5. ~list[l].master
  <2>1. list[l].master = Compat(f)
    BY <1>4 DEF Typed, Entries
  <2> QED BY <1>2, <2>1
<1>6. ~Displaced(f)
  <2> SUFFICES ASSUME NEW g \in Fns \ {f}, Twin(g, f)
               PROVE  /\ g \notin hit /\ ~Compat(g) /\ Startable(g) /\ Reachable(g)
                      /\ \E q \in DOMAIN list : list[q].fn = g
    BY DEF Displaced
  <2>1. CASE g = k
    BY <1>1, <2>1 DEF k
  <2>2. CASE g # k
    <3>1. Twin(g, k)
      BY <1>3
    <3> QED BY <2>2, <3>1 DEF Displaced, k
  <2> QED BY <2>1, <2>2
<1> QED BY <1>2, <1>4, <1>5, <1>6

(* What is offered. *)
LEMMA OffersAre ==
  ASSUME Typed, NEW k
  PROVE  /\ Offers(k) \in SUBSET Nat /\ Offers(k) \subseteq Fns
         /\ Offers(k) # {} => /\ Min(Offers(k)) \in Offers(k)
                              /\ \A f \in Offers(k) : Min(Offers(k)) <= f
PROOF
<1>1. Offers(k) \subseteq Fns
  BY DEF Offers
<1>2. Fns \in SUBSET Nat
  BY TypedIs DEF Fns
<1>3. Offers(k) \in SUBSET Nat
  BY <1>1, <1>2
<1> QED BY <1>1, <1>3, MinIs

(* The port driver offers the function of the entry itself: the twins      *)
(* before it have been started and given away.                             *)
LEMMA OwnOffered ==
  ASSUME Typed, InOrder, TriedOnly, \A j \in DOMAIN list : InTurn(j),
         i \in DOMAIN list, ~list[i].master,
         ~Displaced(list[i].fn), Startable(list[i].fn), Reachable(list[i].fn)
  PROVE  Offers(list[i].fn) # {} /\ Min(Offers(list[i].fn)) = list[i].fn
PROOF
<1> DEFINE k == list[i].fn
           m == Min(Offers(k))
<1>1. /\ k \in Fns /\ k \in Int /\ ~Compat(k) /\ Fn(k).kind = "storage" /\ Twin(k, k)
      /\ machine \in Machines /\ i \in Int
  BY NativeIs DEF Typed
<1>2. k \notin hit
  <2> SUFFICES ASSUME k \in hit PROVE FALSE
    OBVIOUS
  <2>1. PICK j \in DOMAIN list : j < i /\ list[j].fn = k
    BY <1>1 DEF TriedOnly
  <2>2. i = j
    BY <2>1, OnePlace
  <2> QED BY <1>1, <2>1, <2>2
<1>3. k \notin given
  <2>1. i >= i
    BY <1>1
  <2> QED BY <2>1 DEF InTurn
<1>4. k \in Offers(k)
  BY <1>1, <1>3 DEF Offers
<1>5. m \in Offers(k) /\ m <= k /\ m \in Nat /\ m \in Fns
  BY <1>4, OffersAre
<1>6. Twin(m, k) /\ m \notin given
  BY <1>5 DEF Offers
<1>7. m = k
  <2> SUFFICES ASSUME m # k PROVE FALSE
    OBVIOUS
  <2> HIDE DEF m
  <2>1. /\ ~Displaced(m) /\ m \notin hit /\ Startable(m) /\ Reachable(m)
        /\ \E l \in DOMAIN list : list[l].fn = m /\ ~list[l].master
    <3>1. m \in Fns /\ m # list[i].fn /\ Twin(m, list[i].fn) /\ list[i].fn \notin hit
      BY <1>2, <1>5, <1>6
    <3> QED BY <3>1, TwinInTurn
  <2>2. PICK l \in DOMAIN list : list[l].fn = m /\ ~list[l].master
    BY <2>1
  <2>3. l \in Int /\ l # i /\ ~(i < l)
    <3>1. l \in Int
      BY <2>2, NativeIs
    <3>2. i < l => k < m
      BY <2>2 DEF InOrder
    <3> QED BY <1>1, <1>5, <2>2, <3>1, <3>2
  <2>4. l < i
    BY <1>1, <2>3
  <2>6. m \in hit \/ m \in given
    BY <2>1, <2>2, <2>4 DEF InTurn
  <2> QED BY <1>6, <2>1, <2>6
<1> QED BY <1>4, <1>7

(* It offers no controller whose turn comes later. *)
LEMMA OthersWait ==
  ASSUME Typed, InOrder, TriedOnly, \A l \in DOMAIN list : InTurn(l),
         i \in DOMAIN list, NEW j \in DOMAIN list, i < j, ~list[j].master,
         ~Displaced(list[j].fn), Startable(list[j].fn), Offers(list[i].fn) # {}
  PROVE  Min(Offers(list[i].fn)) # list[j].fn
PROOF
<1> DEFINE b == list[i].fn
           k == list[j].fn
           m == Min(Offers(b))
<1>1. /\ k \in Fns /\ k \in Int /\ ~Compat(k) /\ Fn(k).kind = "storage" /\ Twin(k, k)
      /\ machine \in Machines /\ j \in Int
  BY NativeIs DEF Typed
<1>2. b \in Fns /\ list[i].master = Compat(b) /\ Fn(b).kind = "storage"
  BY DEF Typed, Entries, InOrder
<1> SUFFICES ASSUME m = k PROVE FALSE
  OBVIOUS
<1>3. /\ m \in Offers(b) /\ \A f \in Offers(b) : m <= f
  BY OffersAre
<1>4. Twin(k, b) /\ Reachable(k)
  BY <1>3 DEF Offers
<1>5. Twin(b, k)
  BY <1>2, <1>4 DEF Twin
<1>6. ~Compat(b) /\ Reachable(b) /\ Startable(b)
  <2>1. b # k
    <3>1. b = k => i = j
      BY OnePlace
    <3> QED BY <1>1, <3>1
  <2> QED BY <1>2, <1>5, <2>1 DEF Displaced
<1>7. b < k /\ b \in Int
  <2>1. ~list[i].master
    BY <1>2, <1>6
  <2>2. b < k
    BY <2>1 DEF InOrder
  <2>3. b \in Int
    BY <2>1, NativeIs
  <2> QED BY <2>2, <2>3
<1>8. b # k
  BY <1>1, <1>7
<1>9. k \notin hit
  <2> SUFFICES ASSUME k \in hit PROVE FALSE
    OBVIOUS
  <2>1. PICK l \in DOMAIN list : l < i /\ list[l].fn = k
    BY <1>1 DEF TriedOnly
  <2>2. j = l
    BY <2>1, OnePlace
  <2>3. i \in Int
    BY <1>2, <1>6, NativeIs
  <2> QED BY <1>1, <2>1, <2>2, <2>3
<1>10. ~Displaced(b)
  <2>1. b \in Fns /\ b # list[j].fn /\ Twin(b, list[j].fn) /\ list[j].fn \notin hit /\ Reachable(list[j].fn)
    BY <1>2, <1>4, <1>5, <1>8, <1>9
  <2> QED BY <2>1, TwinInTurn
<1>11. b \notin given
  <2>1. i \in Int
    BY <1>2, <1>6, NativeIs
  <2>2. i >= i
    BY <2>1
  <2> QED BY <1>2, <1>6, <1>10, <2>2 DEF InTurn
<1>12. b \in Offers(b)
  <2>1. Twin(b, b)
    BY <1>2 DEF Twin
  <2> QED BY <1>2, <1>6, <1>11, <2>1 DEF Offers
<1>13. k <= b
  BY <1>3, <1>12
<1> QED BY <1>1, <1>7, <1>13

(* A refusal displaces twins, and nothing puts them back. *)
LEMMA DisplacedStays ==
  ASSUME machine' = machine, list' = list, hit \subseteq hit'
  PROVE  \A k : Displaced(k) => Displaced(k)'
PROOF
<1>1. /\ Fns' = Fns
      /\ \A f, k : Twin(f, k)' <=> Twin(f, k)
      /\ \A f : Startable(f)' <=> Startable(f)
      /\ \A f : Reachable(f)' <=> Reachable(f)
  BY SameFunctions DEF Fns
<1>2. \A f : Compat(f)' = Compat(f)
  BY DEF Compat, Switched, Option, Fn
<1> QED BY <1>1, <1>2 DEF Displaced

(* One start of the native loop (DriverEntry, UniataFindBusMasterController). *)
LEMMA NativeStep ==
  ASSUME Typed, Pairs(machine), InOrder, StartedInOrder,
         StartNative, phase' = "native"
  PROVE  StartedInOrder'
PROOF
<1> DEFINE b == list[i].fn
           work == IF Offers(b) = {} /\ list[i].alt THEN {b} ELSE Offers(b)
           Starts == \E found \in FindController(b, Min(work), 0, Offers(b) = {}, sys) :
                       \E answer \in Answers(found) :
                         /\ Accept(b, found, answer, sys)
                         /\ given' = IF answer = "no" THEN given ELSE given \cup {Min(work)}
<1>1. /\ phase = "native" /\ ~(i > Len(list)) /\ i' = i + 1 /\ machine' = machine /\ list' = list
      /\ \/ UNCHANGED <<adapters, given, hit>> /\ work = {}
         \/ work # {} /\ Starts
  BY DEF StartNative
<1>2. /\ DOMAIN list = 1 .. Len(list) /\ Len(list) \in Nat /\ i \in Nat \ {0} /\ i \in DOMAIN list
      /\ machine \in Machines /\ IsSeq(adapters)
  <2>1. DOMAIN list = 1 .. Len(list) /\ Len(list) \in Nat
    BY TypedIs
  <2>2. i \in Nat \ {0} /\ machine \in Machines /\ IsSeq(adapters)
    BY <1>1 DEF Typed
  <2> QED BY <1>1, <2>1, <2>2
<1>3. TriedOnly /\ \A j \in DOMAIN list : InTurn(j)
  BY <1>1 DEF StartedInOrder
<1>4. /\ \A k : Compat(k)' = Compat(k)
      /\ \A k : Startable(k)' <=> Startable(k)
      /\ \A k : Reachable(k)' <=> Reachable(k)
  <2>1. \A k : Compat(k)' = Compat(k)
    BY <1>1 DEF Compat, Switched, Option, Fn
  <2> QED BY <1>1, <2>1, SameFunctions
<1>5. b \in Fns /\ list[i].master = Compat(b)
  BY <1>2 DEF Typed, Entries
<1>6. /\ hit' = hit \/ hit' = hit \cup {b}
      /\ given' = given \/ (work # {} /\ given' = given \cup {Min(work)})
      /\ adapters' = adapters \/ \E d : adapters' = Append(adapters, d)
  <2>1. CASE UNCHANGED <<adapters, given, hit>>
    BY <2>1
  <2>2. CASE work # {} /\ Starts
    <3> HIDE DEF b, work
    <3>1. PICK found : \E answer :
                         /\ Accept(b, found, answer, sys)
                         /\ given' = IF answer = "no" THEN given ELSE given \cup {Min(work)}
      BY <2>2
    <3>2. PICK answer :
                 /\ Accept(b, found, answer, sys)
                 /\ given' = IF answer = "no" THEN given ELSE given \cup {Min(work)}
      BY <3>1
    <3> QED BY <2>2, <3>2 DEF Accept
  <2> QED BY <1>1, <2>1, <2>2
<1>7. hit \subseteq hit' /\ given \subseteq given'
  BY <1>6
<1>8. \A k : ~Displaced(k)' => ~Displaced(k)
  BY <1>1, <1>7, DisplacedStays
<1>9. ASSUME NEW k \in hit'
      PROVE  Compat(k) \/ \E j \in DOMAIN list : j < i + 1 /\ list[j].fn = k
  <2>1. CASE k \in hit
    <3>1. CASE Compat(k)
      BY <3>1
    <3>2. CASE \E j \in DOMAIN list : j < i /\ list[j].fn = k
      <4>1. PICK j \in DOMAIN list : j < i /\ list[j].fn = k
        BY <3>2
      <4>2. j < i + 1
        BY <1>2, <4>1
      <4> QED BY <4>1, <4>2
    <3> QED BY <1>3, <2>1, <3>1, <3>2 DEF TriedOnly
  <2>2. CASE k = b
    <3>1. i < i + 1
      BY <1>2
    <3> QED BY <1>2, <2>2, <3>1
  <2> QED BY <1>6, <1>9, <2>1, <2>2
<1>10. TriedOnly'
  <2>1. \A k \in hit' : Compat(k)' \/ \E j \in DOMAIN list : j < i + 1 /\ list[j].fn = k
    BY <1>4, <1>9
  <2> QED BY <1>1, <2>1 DEF TriedOnly
<1>11. ASSUME NEW j \in DOMAIN list, ~list[j].master, ~Displaced(list[j].fn),
              Startable(list[j].fn), Reachable(list[j].fn), j >= i + 1
       PROVE  list[j].fn \notin given'
  <2>1. j \in Int /\ i < j /\ j >= i
    <3>1. j \in Int
      BY <1>11, NativeIs
    <3> QED BY <1>2, <1>11, <3>1
  <2>2. list[j].fn \notin given
    BY <1>3, <1>11, <2>1 DEF InTurn
  <2>3. ASSUME work # {} PROVE Min(work) # list[j].fn
    <3>1. CASE Offers(b) = {} /\ list[i].alt
      <4>1. work = {b}
        BY <3>1
      <4>2. b \in Nat
        BY <1>5, TypedIs DEF Fns
      <4>3. Min(work) = b
        <5>1. {b} \in SUBSET Nat /\ {b} # {}
          BY <4>2
        <5>2. Min({b}) \in {b}
          BY <5>1, MinIs
        <5> HIDE DEF work
        <5> QED BY <4>1, <5>2
      <4>4. b # list[j].fn
        <5> SUFFICES ASSUME list[j].fn = b PROVE FALSE
          OBVIOUS
        <5>1. j = i
          BY <1>2, <1>11, OnePlace
        <5> QED BY <1>2, <2>1, <5>1
      <4> QED BY <4>3, <4>4
    <3>2. CASE ~(Offers(b) = {} /\ list[i].alt)
      <4>1. work = Offers(b)
        BY <3>2
      <4>2. Offers(list[i].fn) # {}
        BY <2>3, <4>1
      <4>3. Min(Offers(list[i].fn)) # list[j].fn
        BY <1>2, <1>3, <1>11, <2>1, <4>2, OthersWait
      <4> QED BY <4>1, <4>3
    <3> QED BY <3>1, <3>2
  <2> QED BY <1>6, <2>2, <2>3
<1>12. ASSUME NEW k, k = b, ~list[i].master, ~Displaced(b), Startable(b), Reachable(b)
       PROVE  k \in hit' \/ (k \in given' /\ OwnAdapter(k)')
  <2>1. Offers(b) # {} /\ Min(Offers(b)) = b
    BY <1>2, <1>3, <1>12, OwnOffered
  <2>2. work = Offers(b)
    BY <2>1
  <2>3. ~Compat(b)
    BY <1>5, <1>12
  <2>4. Starts /\ Min(work) = b
    BY <1>1, <2>1, <2>2
  <2> HIDE DEF b, work
  <2>5. PICK found \in FindController(b, Min(work), 0, Offers(b) = {}, sys) :
               \E answer \in Answers(found) :
                 /\ Accept(b, found, answer, sys)
                 /\ given' = IF answer = "no" THEN given ELSE given \cup {Min(work)}
    BY <2>4
  <2>6. PICK answer :
               /\ Accept(b, found, answer, sys)
               /\ given' = IF answer = "no" THEN given ELSE given \cup {Min(work)}
    BY <2>5
  <2>7. found \in FindController(b, b, 0, Offers(b) = {}, sys)
    BY <2>4, <2>5
  <2>8. CASE found.bad
    BY <1>12, <2>6, <2>8 DEF Accept
  <2>9. CASE ~found.bad
    <3>1. found.found /\ OwnChannels(b, found.adapter)
      BY <1>2, <1>5, <1>12, <2>3, <2>7, <2>9, NativeStart
    <3>2. CASE answer = "no"
      BY <1>12, <2>6, <3>1, <3>2 DEF Accept
    <3>3. CASE answer # "no"
      <4>1. adapters' = Append(adapters, Adapter(k, found.adapter, answer)) /\ k \in given'
        BY <1>12, <2>4, <2>6, <3>3 DEF Accept
      <4>2. OwnChannels(k, found.adapter)
        BY <1>12, <3>1
      <4>3. OwnAdapter(k)'
        BY <1>1, <1>2, <4>1, <4>2, OwnMade
      <4> QED BY <4>1, <4>3
    <3> QED BY <3>2, <3>3
  <2> QED BY <2>8, <2>9
<1>13. ASSUME NEW j \in DOMAIN list
       PROVE  InTurn(j)'
  <2>0. SUFFICES ASSUME NEW k, k = list[j].fn, ~list[j].master, ~Displaced(k)', Startable(k), Reachable(k)
                 PROVE  /\ j >= i + 1 => k \notin given'
                        /\ j < i + 1 => k \in hit' \/ (k \in given' /\ OwnAdapter(k)')
    BY <1>1, <1>4 DEF InTurn
  <2>1. ~Displaced(k) /\ j \in Int
    BY <1>8, <2>0, NativeIs
  <2>2. j >= i + 1 => k \notin given'
    BY <1>11, <2>0, <2>1
  <2>3. ASSUME j < i + 1
        PROVE  k \in hit' \/ (k \in given' /\ OwnAdapter(k)')
    <3>1. CASE j < i
      <4>1. k \in hit \/ (k \in given /\ OwnAdapter(k))
        BY <1>3, <2>0, <2>1, <2>3, <3>1 DEF InTurn
      <4>2. OwnAdapter(k) => OwnAdapter(k)'
        BY <1>1, <1>2, <1>6, OwnKept
      <4> QED BY <1>7, <4>1, <4>2
    <3>2. CASE j = i
      BY <1>12, <2>0, <2>1, <2>3, <3>2
    <3> QED BY <1>2, <2>1, <2>3, <3>1, <3>2
  <2> QED BY <2>2, <2>3
<1> QED BY <1>1, <1>10, <1>13 DEF StartedInOrder

(* The enumeration keeps the list in order
   (UniataEnumBusMasterController__). *)
LEMMA OrderStep ==
  ASSUME Typed, InOrder, Enumerated, [Next]_vars
  PROVE  InOrder' /\ Enumerated'
PROOF
<1>m. machine' = machine /\ \A k : Fn(k)' = Fn(k)
  BY SameMachine, SameFunctions
<1>t. Len(list) \in Nat /\ DOMAIN list = 1 .. Len(list)
  BY TypedIs
<1>l. ASSUME list' = list
      PROVE  InOrder'
  BY <1>l, <1>m DEF InOrder
<1>1. CASE EnumFunction
  <2>1. /\ phase = "enum" /\ pos \in Fns /\ pos' = pos + 1
        /\ UNCHANGED <<phase, pass, given, hit>>
        /\ hit = {} /\ given = {}
    BY <1>1 DEF EnumFunction, Enumerated
  <2>2. pos \in Nat /\ pass \in 0 .. 2
    BY <2>1, TypedIs DEF Typed, Fns
  <2>3. \A j \in DOMAIN list : ~list[j].master => pass = 2 /\ list[j].fn < pos
    BY <2>1 DEF Enumerated
  <2>4. \A j \in DOMAIN list : ~list[j].master => list[j].fn < pos + 1
    <3>1. \A j \in DOMAIN list : ~list[j].master => list[j].fn \in Int
      BY NativeIs
    <3> QED BY <2>2, <2>3, <3>1
  <2>5. CASE pass = 0
    <3>1. list' = list /\ (mapped' = mapped \/ (mapped' = mapped \cup {pos} /\ Candidate(pos)))
      BY <1>1, <2>5 DEF EnumFunction
    <3>2. \A k \in mapped' : Fn(k).kind = "storage"
      BY <2>1, <3>1 DEF Enumerated, Candidate
    <3> QED BY <1>l, <1>m, <2>1, <2>3, <2>4, <3>1, <3>2 DEF Enumerated
  <2>6. CASE pass # 0
    <3>1. /\ mapped' = mapped
          /\ \/ list' = list
             \/ \E alt : list' = Append(list, Entry(pos, alt)) /\ pos \in mapped /\ ListedIn(pos, pass)
      BY <1>1, <2>6 DEF EnumFunction
    <3>2. \A k \in mapped' : Fn(k).kind = "storage"
      BY <2>1, <3>1 DEF Enumerated
    <3>3. CASE list' = list
      BY <1>l, <1>m, <2>1, <2>3, <2>4, <3>2, <3>3 DEF Enumerated
    <3>4. CASE \E alt : list' = Append(list, Entry(pos, alt)) /\ pos \in mapped /\ ListedIn(pos, pass)
      <4>1. PICK alt : list' = Append(list, Entry(pos, alt)) /\ pos \in mapped /\ ListedIn(pos, pass)
        BY <3>4
      <4>2. /\ DOMAIN list' = 1 .. Len(list) + 1
            /\ \A a \in 1 .. Len(list) : list'[a] = list[a]
            /\ list'[Len(list) + 1] = Entry(pos, alt)
        BY <4>1, AppendIs DEF Typed
      <4>3. Entry(pos, alt).fn = pos /\ Entry(pos, alt).master = Compat(pos)
        BY DEF Entry
      <4>4. Fn(pos).kind = "storage"
        BY <2>1, <4>1 DEF Enumerated
      <4>5. ASSUME NEW j \in DOMAIN list'
            PROVE  /\ Fn(list'[j].fn).kind = "storage"
                   /\ ~list'[j].master => pass = 2 /\ list'[j].fn < pos + 1
        <5>1. CASE j \in 1 .. Len(list)
          BY <1>t, <2>3, <2>4, <4>2, <5>1 DEF InOrder
        <5>2. CASE j = Len(list) + 1
          <6>1. list'[j].fn = pos /\ list'[j].master = Compat(pos)
            BY <4>2, <4>3, <5>2
          <6>2. ~Compat(pos) => pass = 2
            BY <4>1 DEF ListedIn
          <6> QED BY <2>2, <4>4, <6>1, <6>2
        <5> QED BY <1>t, <4>2, <5>1, <5>2
      <4>6. ASSUME NEW j \in DOMAIN list', NEW l \in DOMAIN list', j < l, ~list'[j].master
            PROVE  ~list'[l].master /\ list'[j].fn < list'[l].fn
        <5>1. j \in 1 .. Len(list)
          BY <1>t, <4>2, <4>6
        <5>2. j \in DOMAIN list /\ list'[j] = list[j]
          BY <1>t, <4>2, <5>1
        <5>3. CASE l \in 1 .. Len(list)
          BY <1>t, <4>2, <4>6, <5>2, <5>3 DEF InOrder
        <5>4. CASE l = Len(list) + 1
          <6>1. pass = 2 /\ list[j].fn < pos
            BY <2>3, <4>6, <5>2
          <6>2. ~Compat(pos)
            BY <4>1, <6>1 DEF ListedIn
          <6> QED BY <4>2, <4>3, <5>2, <5>4, <6>1, <6>2
        <5> QED BY <1>t, <4>2, <5>3, <5>4
      <4>7. InOrder'
        BY <1>m, <4>5, <4>6 DEF InOrder
      <4> QED BY <1>m, <2>1, <3>2, <4>5, <4>7 DEF Enumerated
    <3> QED BY <3>1, <3>3, <3>4
  <2> QED BY <2>5, <2>6
<1>2. CASE EnumPass
  <2>1. /\ phase = "enum" /\ UNCHANGED <<list, mapped, hit, given>>
        /\ \/ phase' = "master"
           \/ pass # 2
    BY <1>2 DEF EnumPass
  <2>2. ASSUME pass # 2, NEW j \in DOMAIN list
        PROVE  list[j].master
    BY <2>1, <2>2 DEF Enumerated
  <2> QED BY <1>l, <1>m, <2>1, <2>2 DEF Enumerated
<1>3. CASE MasterHead \/ TryChannel \/ StartNative \/ FindIsaController \/ EndOfBus
  <2>1. list' = list /\ phase' # "enum"
    BY <1>3 DEF MasterHead, ToNative, TryChannel, NextTry, StartNative, FindIsaController, EndOfBus
  <2> QED BY <1>l, <2>1 DEF Enumerated
<1>8. CASE UNCHANGED vars
  <2>1. UNCHANGED <<list, phase, hit, given, mapped, pass, pos>>
    BY <1>8 DEF vars
  <2> QED BY <1>l, <1>m, <2>1 DEF Enumerated
<1> QED BY <1>1, <1>2, <1>3, <1>8 DEF Next

(* The loop over controllers in compatibility mode claims and starts no    *)
(* other controller.                                                       *)
LEMMA MasterStep ==
  ASSUME Typed, Enumerated, MasterFirst, [Next]_vars
  PROVE  MasterFirst'
PROOF
<1>m. \A k : Compat(k)' = Compat(k)
  BY SameMachine
<1>t. Len(list) \in Nat /\ DOMAIN list = 1 .. Len(list)
  BY TypedIs
<1>1. CASE EnumFunction \/ StartNative \/ FindIsaController \/ EndOfBus
  <2>1. phase' \notin {"master", "try"}
    BY <1>1 DEF EnumFunction, StartNative, FindIsaController, EndOfBus
  <2> QED BY <2>1 DEF MasterFirst
<1>2. CASE EnumPass
  <2>1. /\ UNCHANGED <<list, hit, given>> /\ hit = {} /\ given = {}
        /\ \/ phase' = "master" /\ i' = 1
           \/ phase' = "enum"
    BY <1>2 DEF EnumPass, Enumerated
  <2>2. \A j \in DOMAIN list : ~(j < 1)
    BY <1>t
  <2> QED BY <2>1, <2>2 DEF MasterFirst
<1>3. CASE MasterHead
  <2>1. /\ phase = "master" /\ UNCHANGED <<list, i>> /\ hit' = hit
        /\ \/ phase' = "native"
           \/ /\ ~(i > Len(list)) /\ list[i].master
              /\ given' = given \/ given' = given \cup {list[i].fn}
    BY <1>3 DEF MasterHead, ToNative
  <2>2. CASE phase' = "native"
    BY <2>2 DEF MasterFirst
  <2>3. CASE /\ ~(i > Len(list)) /\ list[i].master
             /\ given' = given \/ given' = given \cup {list[i].fn}
    <3>1. i \in Nat \ {0}
      BY <2>1 DEF Typed
    <3>2. i \in DOMAIN list
      BY <1>t, <2>3, <3>1
    <3>3. Compat(list[i].fn)
      BY <2>3, <3>2 DEF Typed, Entries
    <3>4. \A k \in given' \cup hit' : Compat(k)
      BY <2>1, <2>3, <3>3 DEF MasterFirst
    <3> QED BY <1>m, <2>1, <3>4 DEF MasterFirst
  <2> QED BY <2>1, <2>2, <2>3
<1>4. CASE TryChannel
  <2>1. /\ phase = "try" /\ UNCHANGED <<list, given>>
        /\ hit' = hit \/ hit' = hit \cup {list[i].fn}
        /\ \E ok : NextTry(ok)
    BY <1>4 DEF TryChannel, Accept
  <2>2. i \in DOMAIN list /\ list[i].master /\ i \in Nat \ {0}
    BY <2>1 DEF Typed
  <2>3. Compat(list[i].fn)
    BY <2>2 DEF Typed, Entries
  <2>4. \A k \in given' \cup hit' : Compat(k)
    BY <2>1, <2>3 DEF MasterFirst
  <2>5. i' = i \/ i' = i + 1
    BY <2>1 DEF NextTry
  <2>6. ASSUME NEW j \in DOMAIN list, j < i'
        PROVE  list[j].master
    <3>1. j < i \/ j = i
      BY <1>t, <2>2, <2>5, <2>6
    <3> QED BY <2>1, <2>2, <3>1 DEF MasterFirst
  <2> QED BY <1>m, <2>1, <2>4, <2>6 DEF MasterFirst
<1>8. CASE UNCHANGED vars
  <2>1. UNCHANGED <<list, phase, hit, given, i>>
    BY <1>8 DEF vars
  <2> QED BY <1>m, <2>1 DEF MasterFirst
<1> QED BY <1>1, <1>2, <1>3, <1>4, <1>8 DEF Next

(* Every step keeps what is known of the native controllers. *)
LEMMA StartStep ==
  ASSUME Typed, Pairs(machine), InOrder, MasterFirst, StartedInOrder, StartedAll,
         [Next]_vars
  PROVE  StartedInOrder' /\ StartedAll'
PROOF
<1>m. /\ machine' = machine
      /\ \A k : Compat(k)' = Compat(k)
      /\ \A k : Startable(k)' <=> Startable(k)
      /\ \A k : Reachable(k)' <=> Reachable(k)
      /\ \A o : Option(o)' <=> Option(o)
  BY SameMachine, SameFunctions
<1>t. Len(list) \in Nat /\ DOMAIN list = 1 .. Len(list)
  BY TypedIs
<1>k. ASSUME list' = list, hit' = hit,
             adapters' = adapters \/ \E d : adapters' = Append(adapters, d)
      PROVE  \A k : (OwnAdapter(k) => OwnAdapter(k)') /\ (~Displaced(k)' => ~Displaced(k))
  <2>1. \A k : OwnAdapter(k) => OwnAdapter(k)'
    BY <1>k, <1>m, OwnKept DEF Typed
  <2>2. \A k : Displaced(k) => Displaced(k)'
    BY <1>k, <1>m, DisplacedStays
  <2> QED BY <2>1, <2>2
<1>e. ASSUME phase' \in {"enum", "master", "try"}
      PROVE  StartedInOrder' /\ StartedAll'
  BY <1>e DEF StartedInOrder, StartedAll
<1>a. ASSUME phase' \in {"isa", "mca", "done"}, list' = list, hit' = hit,
             adapters' = adapters \/ \E d : adapters' = Append(adapters, d),
             ~Option("IgnoreNativePci") =>
               \A j \in DOMAIN list :
                 LET k == list[j].fn IN
                 ~list[j].master /\ ~Displaced(k) /\ Startable(k) /\ Reachable(k) => k \in hit \/ OwnAdapter(k)
      PROVE  StartedInOrder' /\ StartedAll'
  <2>1. StartedInOrder'
    BY <1>a DEF StartedInOrder
  <2>2. ASSUME ~Option("IgnoreNativePci"), NEW j \in DOMAIN list, NEW k, k = list[j].fn,
               ~list[j].master, ~Displaced(k)', Startable(k), Reachable(k)
        PROVE  k \in hit \/ OwnAdapter(k)'
    <3>1. ~Displaced(k) /\ (OwnAdapter(k) => OwnAdapter(k)')
      BY <1>a, <1>k, <2>2
    <3> QED BY <1>a, <2>2, <3>1
  <2>3. StartedAll'
    BY <1>a, <1>m, <2>2 DEF StartedAll
  <2> QED BY <2>1, <2>3
<1>1. CASE EnumFunction \/ EnumPass \/ TryChannel
  <2>1. phase' \in {"enum", "master", "try"}
    BY <1>1 DEF EnumFunction, EnumPass, TryChannel, NextTry
  <2> QED BY <1>e, <2>1
<1>2. CASE MasterHead
  <2>1. /\ phase = "master" /\ UNCHANGED <<list, i, adapters>> /\ hit' = hit
        /\ phase' = "try" \/ (phase' = "native" /\ given' = given)
    BY <1>2 DEF MasterHead, ToNative
  <2>2. CASE phase' = "try"
    BY <1>e, <2>2
  <2>3. CASE phase' = "native" /\ given' = given
    <3>1. /\ \A j \in DOMAIN list : j < i => list[j].master
          /\ \A k \in given \cup hit : Compat(k)
      BY <2>1 DEF MasterFirst
    <3>2. TriedOnly'
      BY <1>m, <2>1, <3>1 DEF TriedOnly
    <3>3. ASSUME NEW j \in DOMAIN list, ~list[j].master
          PROVE  list[j].fn \notin given /\ ~(j < i)
      <4>1. ~Compat(list[j].fn)
        BY <3>3, NativeIs
      <4> QED BY <3>1, <3>3, <4>1
    <3>4. \A j \in DOMAIN list' : InTurn(j)'
      BY <2>1, <2>3, <3>3 DEF InTurn
    <3> QED BY <2>3, <3>2, <3>4 DEF StartedInOrder, StartedAll
  <2> QED BY <2>1, <2>2, <2>3
<1>3. CASE StartNative
  <2>1. phase = "native" /\ list' = list
    BY <1>3 DEF StartNative
  <2>2. \/ phase' = "native"
        \/ /\ phase' = "isa" /\ UNCHANGED <<adapters, hit>>
           /\ i > Len(list) \/ Option("IgnoreNativePci")
    BY <1>3 DEF StartNative
  <2>3. CASE phase' = "native"
    <3>1. StartedInOrder'
      BY <1>3, <2>3, NativeStep
    <3>2. StartedAll'
      BY <2>3 DEF StartedAll
    <3> QED BY <3>1, <3>2
  <2>4. CASE /\ phase' = "isa" /\ UNCHANGED <<adapters, hit>>
             /\ i > Len(list) \/ Option("IgnoreNativePci")
    <3>1. ASSUME ~Option("IgnoreNativePci"), NEW j \in DOMAIN list, NEW k, k = list[j].fn,
                 ~list[j].master, ~Displaced(k), Startable(k), Reachable(k)
          PROVE  k \in hit \/ OwnAdapter(k)
      <4>1. i \in Nat \ {0} /\ i > Len(list)
        BY <2>1, <2>4, <3>1 DEF Typed
      <4>2. j < i
        BY <1>t, <4>1
      <4>3. InTurn(j)
        BY <2>1 DEF StartedInOrder
      <4> QED BY <3>1, <4>2, <4>3 DEF InTurn
    <3> QED BY <1>a, <2>1, <2>4, <3>1
  <2> QED BY <2>2, <2>3, <2>4
<1>4. CASE FindIsaController \/ EndOfBus
  <2>1. /\ phase \in {"isa", "mca"} /\ phase' \in {"isa", "mca", "done"} /\ list' = list /\ hit' = hit
        /\ adapters' = adapters \/ \E d : adapters' = Append(adapters, d)
    BY <1>4 DEF FindIsaController, EndOfBus
  <2>2. ~Option("IgnoreNativePci") =>
          \A j \in DOMAIN list :
            LET k == list[j].fn IN
            ~list[j].master /\ ~Displaced(k) /\ Startable(k) /\ Reachable(k) => k \in hit \/ OwnAdapter(k)
    BY <2>1 DEF StartedAll
  <2> QED BY <1>a, <2>1, <2>2
<1>8. CASE UNCHANGED vars
  <2>1. UNCHANGED <<machine, list, phase, hit, given, i, adapters>>
    BY <1>8 DEF vars
  <2>2. CASE phase \in {"isa", "mca", "done"}
    <3>1. ~Option("IgnoreNativePci") =>
            \A j \in DOMAIN list :
              LET k == list[j].fn IN
              ~list[j].master /\ ~Displaced(k) /\ Startable(k) /\ Reachable(k) => k \in hit \/ OwnAdapter(k)
      BY <2>2 DEF StartedAll
    <3> QED BY <1>a, <2>1, <2>2, <3>1
  <2>3. CASE phase = "native"
    <3>1. StartedAll'
      BY <2>1, <2>3 DEF StartedAll
    <3>2. TriedOnly /\ \A j \in DOMAIN list : InTurn(j)
      BY <2>3 DEF StartedInOrder
    <3>3. TriedOnly'
      BY <1>m, <2>1, <3>2 DEF TriedOnly
    <3>4. ASSUME NEW j \in DOMAIN list
          PROVE  InTurn(j)'
      <4>0. SUFFICES ASSUME NEW k, k = list[j].fn, ~list[j].master, ~Displaced(k)', Startable(k), Reachable(k)
                     PROVE  /\ j >= i => k \notin given
                            /\ j < i => k \in hit \/ (k \in given /\ OwnAdapter(k)')
        BY <1>m, <2>1 DEF InTurn
      <4>1. ~Displaced(k) /\ (OwnAdapter(k) => OwnAdapter(k)')
        BY <1>k, <2>1, <4>0
      <4>2. InTurn(j)
        BY <3>2
      <4> QED BY <4>0, <4>1, <4>2 DEF InTurn
    <3> QED BY <2>1, <3>1, <3>3, <3>4 DEF StartedInOrder
  <2>4. CASE phase \in {"enum", "master", "try"}
    BY <1>e, <2>1, <2>4
  <2> QED BY <2>2, <2>3, <2>4 DEF Typed, Phases
<1> QED BY <1>1, <1>2, <1>3, <1>4, <1>8 DEF Next

(* Every native controller that can be started has an adapter of its own   *)
(* in the end, with the registers of its own function, or has met a        *)
(* refusal, on every machine whose chips with ordinary ports have two      *)
(* channels at most: the order of the list is the order in which the port  *)
(* driver offers the functions of one identification (StartNative).        *)
THEOREM NativesStarted ==
  ASSUME \A m \in Machines : Pairs(m)
  PROVE  Spec => []AllStarted
PROOF
<1> DEFINE Inv == /\ Typed /\ InOrder /\ Enumerated /\ MasterFirst
                  /\ StartedInOrder /\ StartedAll
<1>1. Init => Inv
  <2> SUFFICES ASSUME Init PROVE Inv
    OBVIOUS
  <2>1. Typed
    BY InitTyped
  <2>2. phase = "enum" /\ list = <<>> /\ mapped = {} /\ hit = {} /\ given = {}
    BY DEF Init
  <2>3. DOMAIN list = {}
    BY <2>2
  <2>4. InOrder /\ Enumerated
    BY <2>2, <2>3 DEF InOrder, Enumerated
  <2>5. MasterFirst /\ StartedInOrder /\ StartedAll
    BY <2>2 DEF MasterFirst, StartedInOrder, StartedAll
  <2> QED BY <2>1, <2>4, <2>5
<1>2. Inv /\ [Next]_vars => Inv'
  <2> SUFFICES ASSUME Inv, [Next]_vars PROVE Inv'
    OBVIOUS
  <2>1. Pairs(machine)
    BY DEF Typed
  <2> QED BY <2>1, StepTyped, OrderStep, MasterStep, StartStep
<1>3. Inv => AllStarted
  <2> SUFFICES ASSUME Inv, phase = "done", ~Option("IgnoreNativePci"),
                      NEW j \in DOMAIN list, ~list[j].master, Startable(list[j].fn),
                      Reachable(list[j].fn), ~Displaced(list[j].fn)
               PROVE  OwnAdapter(list[j].fn) \/ list[j].fn \in hit
    BY DEF AllStarted
  <2> QED BY DEF StartedAll
<1> QED BY <1>1, <1>2, <1>3, PTL DEF Spec

(* Two sets of registers, before they are tagged with their owner, have    *)
(* none in common.                                                         *)
RawApart(A, B) == \A r \in A, s \in B : r[1] # s[1] \/ r[2] # s[2]

(* The registers of a channel in a map, and what keeps two channels of one *)
(* chip apart; a is ALi's exception, s Silicon Image's, p Promise's.       *)
MapsApart(u, v, a, s, p) ==
  /\ a \/ RawApart(u.cmd \cup u.bm, v.cmd \cup v.bm)
  /\ RawApart(u.bm, v.bm)
  /\ s \/ RawApart(u.sata, v.sata)
  /\ p \/ RawApart(u.sata, v.cmd \cup v.bm)

(* The registers of a block. *)
LEMMA BlockIs ==
  ASSUME NEW bar, NEW from, NEW step, NEW n, NEW r \in Block(bar, from, step, n)
  PROVE  \E j \in 0 .. n - 1 : r[1] = bar /\ r[2] = from + j * step
  BY DEF Block

(* Registers in two windows of addresses. *)
LEMMA WindowsApart ==
  ASSUME NEW A, NEW B, NEW a \in Int, NEW b \in Int, NEW w \in Nat,
         \A r \in A : r[2] \in a .. a + w - 1,
         \A r \in B : r[2] \in b .. b + w - 1,
         a + w <= b \/ b + w <= a
  PROVE  RawApart(A, B)
PROOF
<1>1. ASSUME NEW r \in A, NEW s \in B
      PROVE  r[2] # s[2]
  <2>1. r[2] \in a .. a + w - 1 /\ s[2] \in b .. b + w - 1
    OBVIOUS
  <2> QED BY <2>1
<1> QED BY <1>1 DEF RawApart

(* The ports of an AHCI adapter. *)
LEMMA AhciApart ==
  ASSUME NEW c \in Nat, NEW d \in Nat, c # d
  PROVE  MapsApart(AhciRegs(c), AhciRegs(d), FALSE, FALSE, FALSE)
PROOF
<1>1. ASSUME NEW b \in Nat, NEW r \in AhciRegs(b).cmd \cup AhciRegs(b).bm \cup AhciRegs(b).sata
      PROVE  r[2] \in 256 + 128 * b .. 256 + 128 * b + 128 - 1
  <2>1. AhciRegs(b).cmd = {<<5, (256 + 128 * b) + e>> : e \in {32, 33, 36, 37, 39}}
    BY DEF AhciRegs
  <2>2. AhciRegs(b).bm = {<<5, (256 + 128 * b) + e>> : e \in {0, 8, 16, 20, 24, 56}}
    BY DEF AhciRegs
  <2>3. AhciRegs(b).sata = Block(5, (256 + 128 * b) + 40, 4, 4)
    BY DEF AhciRegs
  <2>4. CASE r \in AhciRegs(b).cmd
    BY <2>1, <2>4
  <2>5. CASE r \in AhciRegs(b).bm
    BY <2>2, <2>5
  <2>6. CASE r \in AhciRegs(b).sata
    <3>1. PICK j \in 0 .. 3 : r[2] = ((256 + 128 * b) + 40) + j * 4
      BY <2>3, <2>6, BlockIs
    <3> QED BY <3>1
  <2> QED BY <1>1, <2>4, <2>5, <2>6
<1> DEFINE All(b) == AhciRegs(b).cmd \cup AhciRegs(b).bm \cup AhciRegs(b).sata
           w == 128
           Low(b) == 256 + 128 * b
<1>2. /\ \A r \in All(c) : r[2] \in Low(c) .. Low(c) + w - 1
      /\ \A r \in All(d) : r[2] \in Low(d) .. Low(d) + w - 1
  BY <1>1
<1>3. RawApart(All(c), All(d))
  <2>1. /\ Low(c) \in Int /\ Low(d) \in Int /\ w \in Nat
        /\ Low(c) + w <= Low(d) \/ Low(d) + w <= Low(c)
    OBVIOUS
  <2> HIDE DEF All, Low, w
  <2> QED BY <1>2, <2>1, WindowsApart
<1> QED BY <1>3 DEF MapsApart, RawApart

(* The channels of ServerWorks' SATA chips. *)
LEMMA ServerWorksApart ==
  ASSUME NEW c \in Nat, NEW d \in Nat, c # d
  PROVE  MapsApart(ServerWorksRegs(c), ServerWorksRegs(d), FALSE, FALSE, FALSE)
PROOF
<1>1. ASSUME NEW b \in Nat, NEW r \in ServerWorksRegs(b).cmd \cup ServerWorksRegs(b).bm \cup ServerWorksRegs(b).sata
      PROVE  r[2] \in 256 * b .. 256 * b + 256 - 1
  <2>1. ServerWorksRegs(b).cmd = Block(5, 256 * b, 4, 8) \cup {<<5, 256 * b + 32>>}
    BY DEF ServerWorksRegs
  <2>2. ServerWorksRegs(b).bm = {<<5, 256 * b + e>> : e \in {48, 50, 52}}
    BY DEF ServerWorksRegs
  <2>3. ServerWorksRegs(b).sata = SataAt(5, 256 * b + 64)
    BY DEF ServerWorksRegs
  <2>4. CASE r \in Block(5, 256 * b, 4, 8)
    <3>1. PICK j \in 0 .. 7 : r[2] = 256 * b + j * 4
      BY <2>4, BlockIs
    <3> QED BY <3>1
  <2>5. CASE r = <<5, 256 * b + 32>>
    BY <2>5
  <2>6. CASE r \in ServerWorksRegs(b).bm
    BY <2>2, <2>6
  <2>7. CASE r \in ServerWorksRegs(b).sata
    BY <2>3, <2>7 DEF SataAt
  <2> QED BY <1>1, <2>1, <2>4, <2>5, <2>6, <2>7
<1> DEFINE All(b) == ServerWorksRegs(b).cmd \cup ServerWorksRegs(b).bm \cup ServerWorksRegs(b).sata
           w == 256
           Low(b) == 256 * b
<1>2. /\ \A r \in All(c) : r[2] \in Low(c) .. Low(c) + w - 1
      /\ \A r \in All(d) : r[2] \in Low(d) .. Low(d) + w - 1
  BY <1>1
<1>3. RawApart(All(c), All(d))
  <2>1. /\ Low(c) \in Int /\ Low(d) \in Int /\ w \in Nat
        /\ Low(c) + w <= Low(d) \/ Low(d) + w <= Low(c)
    OBVIOUS
  <2> HIDE DEF All, Low, w
  <2> QED BY <1>2, <2>1, WindowsApart
<1> QED BY <1>3 DEF MapsApart, RawApart

(* Three registers of a channel, in a window of their own. *)
LEMMA SataApart ==
  ASSUME NEW x \in Int, NEW y \in Int, x + 9 <= y \/ y + 9 <= x, NEW bar
  PROVE  RawApart(SataAt(bar, x), SataAt(bar, y))
PROOF
<1>1. ASSUME NEW r \in SataAt(bar, x), NEW s \in SataAt(bar, y)
      PROVE  r[2] # s[2]
  <2>1. \E e \in {0, 4, 8} : r[2] = x + e
    BY DEF SataAt
  <2>2. \E e \in {0, 4, 8} : s[2] = y + e
    BY DEF SataAt
  <2> QED BY <2>1, <2>2
<1> QED BY <1>1 DEF RawApart

(* The SATA registers of VIA's chips. *)
LEMMA ViaSataApart ==
  ASSUME NEW chip, NEW c \in Nat, NEW d \in Nat, c # d
  PROVE  RawApart(ViaSata(chip, c), ViaSata(chip, d))
PROOF
<1>1. CASE ViaSata(chip, c) = {} \/ ViaSata(chip, d) = {}
  BY <1>1 DEF RawApart
<1>2. CASE ViaSata(chip, c) # {} /\ ViaSata(chip, d) # {}
  <2> DEFINE w == IF chip.dev = "via3149" THEN 128 ELSE 64
  <2>1. ViaSata(chip, c) = SataAt(5, c * w) /\ ViaSata(chip, d) = SataAt(5, d * w)
    BY <1>2 DEF ViaSata
  <2>2. w = 64 \/ w = 128
    OBVIOUS
  <2> HIDE DEF w
  <2>3. CASE w = 64
    <3>1. c * 64 + 9 <= d * 64 \/ d * 64 + 9 <= c * 64
      OBVIOUS
    <3>2. RawApart(SataAt(5, c * 64), SataAt(5, d * 64))
      <4> DEFINE x == c * 64
                 y == d * 64
      <4>1. x \in Int /\ y \in Int /\ (x + 9 <= y \/ y + 9 <= x)
        BY <3>1
      <4> HIDE DEF x, y
      <4>2. RawApart(SataAt(5, x), SataAt(5, y))
        BY <4>1, SataApart
      <4> QED BY <4>2 DEF x, y
    <3> QED BY <2>1, <2>3, <3>2
  <2>4. CASE w = 128
    <3>1. c * 128 + 9 <= d * 128 \/ d * 128 + 9 <= c * 128
      OBVIOUS
    <3>2. RawApart(SataAt(5, c * 128), SataAt(5, d * 128))
      <4> DEFINE x == c * 128
                 y == d * 128
      <4>1. x \in Int /\ y \in Int /\ (x + 9 <= y \/ y + 9 <= x)
        BY <3>1
      <4> HIDE DEF x, y
      <4>2. RawApart(SataAt(5, x), SataAt(5, y))
        BY <4>1, SataApart
      <4> QED BY <4>2 DEF x, y
    <3> QED BY <2>1, <2>4, <3>2
  <2> QED BY <2>2, <2>3, <2>4
<1> QED BY <1>1, <1>2

(* ALi's SATA chips: the first two channels have one task file. *)
LEMMA AliApart ==
  ASSUME NEW c \in Nat, NEW d \in Nat, c # d
  PROVE  MapsApart(AliRegs(c), AliRegs(d), TRUE, FALSE, FALSE)
PROOF
<1>1. ASSUME NEW b \in Nat
      PROVE  /\ \A r \in AliRegs(b).cmd : r[1] \in {0, 1}
             /\ \A r \in AliRegs(b).bm : r[1] = 4 /\ r[2] \in 8 * b .. 8 * b + 4
             /\ \A r \in AliRegs(b).sata : r[1] = 4 /\ r[2] = 8 * b + 5
  <2>1. ASSUME NEW half, NEW r \in Block(0, 8 * half, 1, 8) \cup {<<1, 2 + 4 * half>>}
        PROVE  r[1] \in {0, 1}
    BY BlockIs
  <2>2. ASSUME NEW r \in Block(4, 8 * b, 1, 5)
        PROVE  r[1] = 4 /\ r[2] \in 8 * b .. 8 * b + 4
    <3>1. PICK j \in 0 .. 4 : r[1] = 4 /\ r[2] = 8 * b + j * 1
      BY <2>2, BlockIs
    <3> QED BY <3>1
  <2> DEFINE half == IF b \in {2, 3} THEN 1 ELSE 0
  <2>3. /\ AliRegs(b).cmd = Block(0, 8 * half, 1, 8) \cup {<<1, 2 + 4 * half>>}
        /\ AliRegs(b).bm = Block(4, 8 * b, 1, 5) /\ AliRegs(b).sata = {<<4, 8 * b + 5>>}
    BY DEF AliRegs
  <2> HIDE DEF half
  <2>4. \A r \in AliRegs(b).cmd : r[1] \in {0, 1}
    BY <2>1, <2>3
  <2>5. \A r \in AliRegs(b).bm : r[1] = 4 /\ r[2] \in 8 * b .. 8 * b + 4
    BY <2>2, <2>3
  <2>6. \A r \in AliRegs(b).sata : r[1] = 4 /\ r[2] = 8 * b + 5
    BY <2>3
  <2> QED BY <2>4, <2>5, <2>6
<1>2. \A y \in 8 * c .. 8 * c + 4 : y \notin 8 * d .. 8 * d + 4 /\ y # 8 * d + 5 /\ 8 * c + 5 # y
  OBVIOUS
<1>3. \A y \in 8 * d .. 8 * d + 4 : y # 8 * c + 5
  OBVIOUS
<1>4. 8 * c + 5 # 8 * d + 5
  OBVIOUS
<1> DEFINE u == AliRegs(c)
           v == AliRegs(d)
<1>5. RawApart(u.bm, v.bm)
  BY <1>1, <1>2 DEF RawApart
<1>6. RawApart(u.sata, v.sata)
  BY <1>1, <1>4 DEF RawApart
<1>7. RawApart(u.sata, v.cmd \cup v.bm)
  <2>1. ASSUME NEW r \in u.sata, NEW s \in v.cmd \cup v.bm
        PROVE  r[1] # s[1] \/ r[2] # s[2]
    BY <1>1, <1>3
  <2> QED BY <2>1 DEF RawApart
<1> QED BY <1>5, <1>6, <1>7 DEF MapsApart

(* The chip of VIA with a base address per channel. *)
LEMMA ViaApart ==
  ASSUME NEW chip, NEW c \in 0 .. 3, NEW d \in 0 .. 3, c # d
  PROVE  MapsApart([ViaBarRegs(c) EXCEPT !.sata = ViaSata(chip, c)],
                   [ViaBarRegs(d) EXCEPT !.sata = ViaSata(chip, d)], FALSE, FALSE, FALSE)
PROOF
<1> DEFINE V(b) == [ViaBarRegs(b) EXCEPT !.sata = ViaSata(chip, b)]
<1>1. ASSUME NEW b \in 0 .. 3
      PROVE  /\ \A r \in V(b).cmd : r[1] = b
             /\ \A r \in V(b).bm : r[1] = 4 /\ r[2] \in 8 * b .. 8 * b + 4
             /\ V(b).sata = ViaSata(chip, b)
  <2>1. /\ V(b).cmd = Block(b, 0, 1, 8) \cup {<<b, 10>>} /\ V(b).bm = Block(4, 8 * b, 1, 5)
        /\ V(b).sata = ViaSata(chip, b)
    BY DEF ViaBarRegs
  <2>2. ASSUME NEW r \in Block(4, 8 * b, 1, 5)
        PROVE  r[1] = 4 /\ r[2] \in 8 * b .. 8 * b + 4
    <3>1. PICK j \in 0 .. 4 : r[1] = 4 /\ r[2] = 8 * b + j * 1
      BY <2>2, BlockIs
    <3> QED BY <3>1
  <2>3. ASSUME NEW r \in Block(b, 0, 1, 8) \cup {<<b, 10>>}
        PROVE  r[1] = b
    BY BlockIs
  <2> QED BY <2>1, <2>2, <2>3
<1>2. ASSUME NEW b \in 0 .. 3, NEW r \in ViaSata(chip, b)
      PROVE  r[1] = 5
  BY <1>2 DEF ViaSata, SataAt
<1>3. RawApart(ViaSata(chip, c), ViaSata(chip, d))
  BY ViaSataApart
<1>4. \A y \in 8 * c .. 8 * c + 4 : y \notin 8 * d .. 8 * d + 4
  OBVIOUS
<1> HIDE DEF V
<1>5. RawApart(V(c).bm, V(d).bm)
  BY <1>1, <1>4 DEF RawApart
<1>6. RawApart(V(c).cmd \cup V(c).bm, V(d).cmd \cup V(d).bm)
  <2>1. ASSUME NEW r \in V(c).cmd \cup V(c).bm, NEW s \in V(d).cmd \cup V(d).bm, r \notin V(c).bm \/ s \notin V(d).bm
        PROVE  r[1] # s[1]
    BY <1>1, <2>1
  <2> QED BY <1>5, <2>1 DEF RawApart
<1>7. RawApart(V(c).sata, V(d).sata)
  BY <1>1, <1>3
<1>8. RawApart(V(c).sata, V(d).cmd \cup V(d).bm)
  <2>1. ASSUME NEW r \in V(c).sata, NEW s \in V(d).cmd \cup V(d).bm
        PROVE  r[1] # s[1]
    <3>1. r[1] = 5
      BY <1>1, <1>2
    <3>2. s[1] \in 0 .. 4
      BY <1>1
    <3> QED BY <3>1, <3>2
  <2> QED BY <2>1 DEF RawApart
<1> QED BY <1>5, <1>6, <1>7, <1>8 DEF MapsApart, V

(* Promise's: the task file of the third channel begins where the SATA     *)
(* registers of the first one are, that of the fourth where those of the   *)
(* third are.                                                              *)
LEMMA PromiseApart ==
  ASSUME NEW chip, NEW c \in 0 .. 3, NEW d \in 0 .. 3, c # d
  PROVE  MapsApart(PromiseRegs(chip, c), PromiseRegs(chip, d), FALSE, FALSE, d > 1)
PROOF
<1>1. ASSUME NEW b \in 0 .. 3
      PROVE  /\ \A r \in PromiseRegs(chip, b).cmd :
                  (\E j \in 0 .. 7 : r[2] = 512 + 256 * b + j * 4) \/ r[2] = 568 + 128 * b
             /\ \A r \in PromiseRegs(chip, b).bm : r[2] = 608 + 128 * b \/ r[2] = 580 + 128 * b \/ r[2] = 4 * b
             /\ \A r \in PromiseRegs(chip, b).sata : \E e \in {0, 4, 8} : r[2] = 1024 + 128 * b + e
  <2>1. /\ PromiseRegs(chip, b).cmd = Block(3, 512 + 256 * b, 4, 8) \cup {<<3, 568 + 128 * b>>}
        /\ PromiseRegs(chip, b).bm = {<<3, 608 + 128 * b>>, <<3, 580 + 128 * b>>, <<3, 4 * b>>}
        /\ PromiseRegs(chip, b).sata \subseteq SataAt(3, 1024 + 128 * b)
    BY DEF PromiseRegs
  <2>2. ASSUME NEW r \in Block(3, 512 + 256 * b, 4, 8)
        PROVE  \E j \in 0 .. 7 : r[2] = 512 + 256 * b + j * 4
    <3>1. PICK j \in 0 .. 7 : r[2] = (512 + 256 * b) + j * 4
      BY <2>2, BlockIs
    <3> QED BY <3>1
  <2>3. ASSUME NEW r \in PromiseRegs(chip, b).cmd
        PROVE  (\E j \in 0 .. 7 : r[2] = 512 + 256 * b + j * 4) \/ r[2] = 568 + 128 * b
    BY <2>1, <2>2
  <2>4. ASSUME NEW r \in PromiseRegs(chip, b).sata
        PROVE  \E e \in {0, 4, 8} : r[2] = 1024 + 128 * b + e
    BY <2>1 DEF SataAt
  <2>5. ASSUME NEW r \in PromiseRegs(chip, b).bm
        PROVE  r[2] = 608 + 128 * b \/ r[2] = 580 + 128 * b \/ r[2] = 4 * b
    BY <2>1
  <2> QED BY <2>3, <2>4, <2>5
<1> DEFINE u == PromiseRegs(chip, c)
           v == PromiseRegs(chip, d)
<1>2. ASSUME NEW r \in u.cmd, NEW s \in v.cmd
      PROVE  r[2] # s[2]
  BY <1>1
<1>3. ASSUME NEW r \in u.cmd, NEW s \in v.bm
      PROVE  r[2] # s[2]
  BY <1>1
<1>4. ASSUME NEW r \in u.bm, NEW s \in v.cmd
      PROVE  r[2] # s[2]
  BY <1>1
<1>5. ASSUME NEW r \in u.bm, NEW s \in v.bm
      PROVE  r[2] # s[2]
  BY <1>1
<1>6. ASSUME NEW r \in u.sata, NEW s \in v.sata
      PROVE  r[2] # s[2]
  BY <1>1
<1>7. ASSUME NEW r \in u.sata, NEW s \in v.cmd \cup v.bm, ~(d > 1)
      PROVE  r[2] # s[2]
  BY <1>1, <1>7
<1> HIDE DEF u, v
<1>8. RawApart(u.cmd \cup u.bm, v.cmd \cup v.bm)
  BY <1>2, <1>3, <1>4, <1>5 DEF RawApart
<1> QED BY <1>5, <1>6, <1>7, <1>8 DEF RawApart, MapsApart, u, v

(* Silicon Image's: the SATA registers of the channels overlap, with those *)
(* of other channels only.                                                 *)
LEMMA SiliconApart ==
  ASSUME NEW chip, NEW c \in 0 .. 3, NEW d \in 0 .. 3, c # d
  PROVE  MapsApart(SiliconRegs(chip, c), SiliconRegs(chip, d), FALSE, TRUE, FALSE)
PROOF
<1>1. ASSUME NEW b \in 0 .. 3
      PROVE  \E x \in {0, 1}, y \in {0, 512} :
               /\ b = x + y \div 256
               /\ \A r \in SiliconRegs(chip, b).cmd :
                    (\E j \in 0 .. 7 : r[2] = 128 + 64 * x + y + j) \/ r[2] = 138 + 64 * x + y
               /\ \A r \in SiliconRegs(chip, b).bm :
                    (\E e \in {0, 2, 4, 16} : r[2] = e + 8 * x + y) \/ r[2] = 64 + 4 * x + y
               /\ \A r \in SiliconRegs(chip, b).sata : r[2] \in 256 + y .. 400 + y
  <2> DEFINE x == b % 2
             y == 512 * (b \div 2)
  <2>1. x \in {0, 1} /\ y \in {0, 512} /\ b = x + y \div 256
    <3>1. CASE b = 0
      BY <3>1
    <3>2. CASE b = 1
      BY <3>2
    <3>3. CASE b = 2
      BY <3>3
    <3>4. CASE b = 3
      BY <3>4
    <3> QED BY <3>1, <3>2, <3>3, <3>4
  <2>2. /\ SiliconRegs(chip, b).cmd = Block(5, 128 + 64 * x + y, 1, 8) \cup {<<5, 138 + 64 * x + y>>}
        /\ SiliconRegs(chip, b).bm = {<<5, r + 8 * x + y>> : r \in {0, 2, 4, 16}} \cup {<<5, 64 + 4 * x + y>>}
        /\ SiliconRegs(chip, b).sata \subseteq {<<5, 260 + 128 * x + y>>, <<5, 264 + 4 * x + y>>, <<5, 256 + 4 * x + y>>}
    BY DEF SiliconRegs
  <2> HIDE DEF x, y
  <2>3. ASSUME NEW r \in Block(5, 128 + 64 * x + y, 1, 8)
        PROVE  \E j \in 0 .. 7 : r[2] = 128 + 64 * x + y + j
    <3>1. PICK j \in 0 .. 7 : r[2] = (128 + 64 * x + y) + j * 1
      BY <2>3, BlockIs
    <3> QED BY <2>1, <3>1
  <2>4. \A r \in SiliconRegs(chip, b).cmd :
          (\E j \in 0 .. 7 : r[2] = 128 + 64 * x + y + j) \/ r[2] = 138 + 64 * x + y
    BY <2>2, <2>3
  <2>5. \A r \in SiliconRegs(chip, b).bm :
          (\E e \in {0, 2, 4, 16} : r[2] = e + 8 * x + y) \/ r[2] = 64 + 4 * x + y
    BY <2>2
  <2>6. \A r \in SiliconRegs(chip, b).sata : r[2] \in 256 + y .. 400 + y
    BY <2>1, <2>2
  <2> QED BY <2>1, <2>4, <2>5, <2>6
<1> DEFINE u == SiliconRegs(chip, c)
           v == SiliconRegs(chip, d)
<1>2. PICK x \in {0, 1}, y \in {0, 512} :
        /\ c = x + y \div 256
        /\ \A r \in u.cmd : (\E j \in 0 .. 7 : r[2] = 128 + 64 * x + y + j) \/ r[2] = 138 + 64 * x + y
        /\ \A r \in u.bm : (\E e \in {0, 2, 4, 16} : r[2] = e + 8 * x + y) \/ r[2] = 64 + 4 * x + y
        /\ \A r \in u.sata : r[2] \in 256 + y .. 400 + y
  BY <1>1
<1>3. PICK z \in {0, 1}, w \in {0, 512} :
        /\ d = z + w \div 256
        /\ \A r \in v.cmd : (\E j \in 0 .. 7 : r[2] = 128 + 64 * z + w + j) \/ r[2] = 138 + 64 * z + w
        /\ \A r \in v.bm : (\E e \in {0, 2, 4, 16} : r[2] = e + 8 * z + w) \/ r[2] = 64 + 4 * z + w
        /\ \A r \in v.sata : r[2] \in 256 + w .. 400 + w
  BY <1>1
<1>4. x # z \/ y # w
  BY <1>2, <1>3
<1> HIDE DEF u, v
<1>5. ASSUME NEW r \in u.cmd, NEW s \in v.cmd
      PROVE  r[2] # s[2]
  BY <1>2, <1>3, <1>4
<1>6. ASSUME NEW r \in u.cmd, NEW s \in v.bm
      PROVE  r[2] # s[2]
  BY <1>2, <1>3
<1>7. ASSUME NEW r \in u.bm, NEW s \in v.cmd
      PROVE  r[2] # s[2]
  BY <1>2, <1>3
<1>8. ASSUME NEW r \in u.bm, NEW s \in v.bm
      PROVE  r[2] # s[2]
  BY <1>2, <1>3, <1>4
<1>9. ASSUME NEW r \in u.sata, NEW s \in v.cmd \cup v.bm
      PROVE  r[2] # s[2]
  BY <1>2, <1>3
<1>10. RawApart(u.cmd \cup u.bm, v.cmd \cup v.bm)
  BY <1>5, <1>6, <1>7, <1>8 DEF RawApart
<1> QED BY <1>8, <1>9, <1>10 DEF RawApart, MapsApart, u, v

(* The two tags of a range. *)
LEMMA TagIs ==
  ASSUME NEW owner, NEW regs, NEW t \in Tag(owner, regs)
  PROVE  \E r \in regs : t[1] = owner /\ t[2] = r[1] /\ t[3] = r[2]
  BY DEF Tag

(* A register of a channel of function k, of which the port driver offers  *)
(* the ranges of function f.                                               *)
Ours(k, bar) == ~(bar = 5 \/ (OwnMap(Chip(k)) /\ Chip(k).vendor = "promise")) /\ ~(bar < 4 /\ ~OwnMap(Chip(k)))

(* A range is one of the registers it is made of (Ranges), with the tag of *)
(* its owner.                                                              *)
LEMMA RangeIs ==
  ASSUME NEW k, NEW f, NEW regs, NEW t \in Ranges(k, f, regs)
  PROVE  /\ \E r \in regs : t[2] = r[1] /\ t[3] = r[2]
         /\ t[1] = IF Ours(k, t[2]) THEN Fn(k).id ELSE Fn(f).id
PROOF
<1> DEFINE inMemory(r) == r[1] = 5 \/ (OwnMap(Chip(k)) /\ Chip(k).vendor = "promise")
           ported(r)   == r[1] < 4 /\ ~OwnMap(Chip(k))
           ours(r)     == ~inMemory(r) /\ ~ported(r)
<1>1. t \in Tag(Fn(k).id, {r \in regs : ours(r)}) \/ t \in Tag(Fn(f).id, {r \in regs : ~ours(r)})
  BY DEF Ranges
<1>2. CASE t \in Tag(Fn(k).id, {r \in regs : ours(r)})
  <2>1. PICK r \in {r \in regs : ours(r)} : t[1] = Fn(k).id /\ t[2] = r[1] /\ t[3] = r[2]
    BY <1>2, TagIs
  <2> QED BY <2>1 DEF Ours
<1>3. CASE t \in Tag(Fn(f).id, {r \in regs : ~ours(r)})
  <2>1. PICK r \in {r \in regs : ~ours(r)} : t[1] = Fn(f).id /\ t[2] = r[1] /\ t[3] = r[2]
    BY <1>3, TagIs
  <2> QED BY <2>1 DEF Ours
<1> QED BY <1>1, <1>2, <1>3

(* Registers that are apart stay apart in their ranges. *)
LEMMA RangesApart ==
  ASSUME NEW k, NEW f, NEW A, NEW B, RawApart(A, B)
  PROVE  Ranges(k, f, A) \cap Ranges(k, f, B) = {}
PROOF
<1> SUFFICES ASSUME NEW t \in Ranges(k, f, A), t \in Ranges(k, f, B) PROVE FALSE
  OBVIOUS
<1>1. PICK r \in A : t[2] = r[1] /\ t[3] = r[2]
  BY RangeIs
<1>2. PICK s \in B : t[2] = s[1] /\ t[3] = s[2]
  BY RangeIs
<1> QED BY <1>1, <1>2 DEF RawApart

(* The SATA registers of chips with ordinary ports. *)
LEMMA HomeSata ==
  ASSUME NEW chip, NEW c \in Nat
  PROVE  /\ \A r \in SataRegs(chip, c) : r[1] \in {5, 6}
         /\ \A d \in Nat : c # d => RawApart(SataRegs(chip, c), SataRegs(chip, d))
PROOF
<1> DEFINE row == HasRow(chip) /\ Has(chip, "SATA")
<1>1. CASE row /\ chip.vendor = "nvidia"
  <2>1. \A b \in Nat : SataRegs(chip, b) = SataAt(5, 64 * b)
    BY <1>1 DEF SataRegs, ViaSataBase
  <2>2. ASSUME NEW d \in Nat, c # d PROVE RawApart(SataRegs(chip, c), SataRegs(chip, d))
    <3> DEFINE x == 64 * c
               y == 64 * d
    <3>1. x \in Int /\ y \in Int /\ (x + 9 <= y \/ y + 9 <= x)
      BY <2>2
    <3>2. SataRegs(chip, c) = SataAt(5, x) /\ SataRegs(chip, d) = SataAt(5, y)
      BY <2>1
    <3> HIDE DEF x, y
    <3> QED BY <3>1, <3>2, SataApart
  <2> QED BY <2>1, <2>2 DEF SataAt
<1>2. CASE row /\ chip.vendor = "sis"
  <2> DEFINE w == IF chip.dev = "sis182" THEN 32 ELSE 64
  <2>1. \A b \in Nat : SataRegs(chip, b) = SataAt(5, b * w) \/ SataRegs(chip, b) = {}
    BY <1>2 DEF SataRegs, SisSata, ViaSataBase
  <2>2. w = 32 \/ w = 64
    OBVIOUS
  <2> HIDE DEF w
  <2>3. ASSUME NEW d \in Nat, c # d PROVE RawApart(SataRegs(chip, c), SataRegs(chip, d))
    <3>1. CASE SataRegs(chip, c) = {} \/ SataRegs(chip, d) = {}
      BY <3>1 DEF RawApart
    <3>2. CASE SataRegs(chip, c) # {} /\ SataRegs(chip, d) # {}
      <4> DEFINE x == c * w
                 y == d * w
      <4>1. SataRegs(chip, c) = SataAt(5, x) /\ SataRegs(chip, d) = SataAt(5, y)
        BY <2>1, <3>2
      <4>2. x \in Int /\ y \in Int /\ (x + 9 <= y \/ y + 9 <= x)
        <5>1. CASE w = 32
          BY <2>3, <5>1
        <5>2. CASE w = 64
          BY <2>3, <5>2
        <5> QED BY <2>2, <5>1, <5>2
      <4> HIDE DEF x, y
      <4> QED BY <4>1, <4>2, SataApart
    <3> QED BY <3>1, <3>2
  <2> QED BY <2>1, <2>3 DEF SataAt
<1>3. CASE row /\ chip.vendor \notin {"nvidia", "sis"} /\ ViaSataBase(chip)
  <2>1. \A b \in Nat : SataRegs(chip, b) = ViaSata(chip, b)
    BY <1>3 DEF SataRegs, ViaSataBase
  <2>2. \A r \in ViaSata(chip, c) : r[1] = 5
    BY DEF ViaSata, SataAt
  <2> QED BY <2>1, <2>2, ViaSataApart
<1>4. CASE row /\ chip.vendor = "intel" /\ ~ViaSataBase(chip)
  <2>1. \A b \in Nat : SataRegs(chip, b) = IntelSata(chip, b)
    BY <1>4 DEF SataRegs, ViaSataBase
  <2>2. ASSUME NEW b \in Nat, NEW r \in IntelSata(chip, b) PROVE \E e \in 0 .. 2 : r[1] = 6 /\ r[2] = 512 * b + e
    <3>1. PICK e \in 0 .. 2 : r \in InitIoRes(<<IndexedBar, 512 * b + e>>)
      BY <2>2 DEF IntelSata
    <3> QED BY <3>1 DEF InitIoRes, IndexedBar
  <2>3. ASSUME NEW d \in Nat, c # d PROVE RawApart(IntelSata(chip, c), IntelSata(chip, d))
    <3>1. ASSUME NEW r \in IntelSata(chip, c), NEW s \in IntelSata(chip, d) PROVE r[2] # s[2]
      <4>1. PICK e \in 0 .. 2 : r[2] = 512 * c + e
        BY <2>2
      <4>2. PICK g \in 0 .. 2 : s[2] = 512 * d + g
        BY <2>2
      <4> QED BY <2>3, <4>1, <4>2
    <3> QED BY <3>1 DEF RawApart
  <2> QED BY <2>1, <2>2, <2>3
<1>5. CASE ~row \/ (chip.vendor \notin {"nvidia", "sis", "intel"} /\ ~ViaSataBase(chip))
  <2>1. \A b \in Nat : SataRegs(chip, b) = {}
    BY <1>5 DEF SataRegs
  <2> QED BY <2>1 DEF RawApart
<1> QED BY <1>1, <1>2, <1>3, <1>4, <1>5

(* The map of a chip with registers of its own keeps its channels apart.   *)
LEMMA OwnApart ==
  ASSUME NEW chip, OwnMap(chip), NEW c \in 0 .. 3, NEW d \in 0 .. 3, c # d
  PROVE  MapsApart(OwnRegs(chip, c), OwnRegs(chip, d),
                   chip.vendor = "ali", chip.vendor \in {"sii", "ati"}, chip.vendor = "promise" /\ d > 1)
PROOF
<1>0. c \in Nat /\ d \in Nat
  OBVIOUS
<1>1. CASE chip.vendor = "ali"
  <2>1. OwnRegs(chip, c) = AliRegs(c) /\ OwnRegs(chip, d) = AliRegs(d)
    BY <1>1 DEF OwnRegs
  <2> QED BY <1>0, <1>1, <2>1, AliApart DEF MapsApart
<1>2. CASE chip.vendor = "promise"
  <2>1. OwnRegs(chip, c) = PromiseRegs(chip, c) /\ OwnRegs(chip, d) = PromiseRegs(chip, d)
    BY <1>2 DEF OwnRegs
  <2> QED BY <1>2, <2>1, PromiseApart DEF MapsApart
<1>3. CASE chip.vendor \in {"sii", "ati"}
  <2>1. OwnRegs(chip, c) = SiliconRegs(chip, c) /\ OwnRegs(chip, d) = SiliconRegs(chip, d)
    BY <1>3 DEF OwnRegs
  <2> QED BY <1>3, <2>1, SiliconApart DEF MapsApart
<1>4. CASE chip.vendor = "serverworks"
  <2>1. OwnRegs(chip, c) = ServerWorksRegs(c) /\ OwnRegs(chip, d) = ServerWorksRegs(d)
    BY <1>4 DEF OwnRegs
  <2> QED BY <1>0, <2>1, ServerWorksApart DEF MapsApart
<1>5. CASE chip.vendor = "via"
  <2>1. /\ OwnRegs(chip, c) = [ViaBarRegs(c) EXCEPT !.sata = ViaSata(chip, c)]
        /\ OwnRegs(chip, d) = [ViaBarRegs(d) EXCEPT !.sata = ViaSata(chip, d)]
    BY <1>5 DEF OwnRegs
  <2> QED BY <2>1, ViaApart DEF MapsApart
<1>6. chip.vendor \in {"ali", "promise", "sii", "ati", "serverworks", "via"}
  BY DEF OwnMap, ViaSataBase
<1> QED BY <1>1, <1>2, <1>3, <1>4, <1>5, <1>6

(* So do the ordinary ports of two channels. *)
LEMMA HomeApart ==
  ASSUME NEW chip, NEW first, NEW c \in 0 .. 1, NEW d \in 0 .. 1, c # d
  PROVE  /\ RawApart(Block(2 * c, 0, 1, 8) \cup {<<2 * c + 1, 2>>} \cup BusMaster(chip, c, first),
                     Block(2 * d, 0, 1, 8) \cup {<<2 * d + 1, 2>>} \cup BusMaster(chip, d, first))
         /\ RawApart(SataRegs(chip, c), SataRegs(chip, d))
         /\ RawApart(SataRegs(chip, c), Block(2 * d, 0, 1, 8) \cup {<<2 * d + 1, 2>>} \cup BusMaster(chip, d, first))
PROOF
<1>1. ASSUME NEW b \in 0 .. 1
      PROVE  /\ \A r \in Block(2 * b, 0, 1, 8) \cup {<<2 * b + 1, 2>>} : r[1] = 2 * b \/ r[1] = 2 * b + 1
             /\ \A r \in BusMaster(chip, b, first) :
                  r[1] = 4 /\ r[2] \in (8 * b + (IF first = 1 THEN 8 ELSE 0)) .. (8 * b + (IF first = 1 THEN 8 ELSE 0)) + 4
  <2>1. \A r \in Block(2 * b, 0, 1, 8) : r[1] = 2 * b
    BY BlockIs
  <2> DEFINE a == 8 * b + (IF first = 1 THEN 8 ELSE 0)
  <2>2. ASSUME NEW r \in BusMaster(chip, b, first)
        PROVE  r[1] = 4 /\ r[2] \in a .. a + 4
    <3>1. r \in Block(4, a, 1, 5)
      BY <2>2 DEF BusMaster
    <3>2. a \in Int
      OBVIOUS
    <3> HIDE DEF a
    <3>3. PICK j \in 0 .. 4 : r[1] = 4 /\ r[2] = a + j * 1
      BY <3>1, BlockIs
    <3> QED BY <3>2, <3>3
  <2> QED BY <2>1, <2>2
<1> DEFINE P(b) == Block(2 * b, 0, 1, 8) \cup {<<2 * b + 1, 2>>}
<1>2. ASSUME NEW r \in P(c) \cup BusMaster(chip, c, first), NEW s \in P(d) \cup BusMaster(chip, d, first)
      PROVE  r[1] # s[1] \/ r[2] # s[2]
  <2>1. CASE r \in P(c)
    <3>1. r[1] \in {2 * c, 2 * c + 1} /\ (s[1] = 4 \/ s[1] \in {2 * d, 2 * d + 1})
      BY <1>1, <2>1
    <3> QED BY <3>1
  <2>2. CASE s \in P(d)
    <3>1. s[1] \in {2 * d, 2 * d + 1} /\ (r[1] = 4 \/ r[1] \in {2 * c, 2 * c + 1})
      BY <1>1, <2>2
    <3> QED BY <3>1
  <2>3. CASE r \in BusMaster(chip, c, first) /\ s \in BusMaster(chip, d, first)
    <3> DEFINE a == IF first = 1 THEN 8 ELSE 0
    <3>1. r[2] \in 8 * c + a .. 8 * c + a + 4 /\ s[2] \in 8 * d + a .. 8 * d + a + 4
      BY <1>1, <2>3
    <3>2. a \in {0, 8}
      OBVIOUS
    <3> HIDE DEF a
    <3> QED BY <3>1, <3>2
  <2> QED BY <1>2, <2>1, <2>2, <2>3
<1>3. ASSUME NEW r \in SataRegs(chip, c), NEW s \in P(d) \cup BusMaster(chip, d, first)
      PROVE  r[1] # s[1]
  <2>1. r[1] \in {5, 6}
    BY HomeSata
  <2>2. s[1] \in 0 .. 4
    BY <1>1
  <2> QED BY <2>1, <2>2
<1>4. RawApart(SataRegs(chip, c), SataRegs(chip, d))
  BY HomeSata
<1> QED BY <1>2, <1>3, <1>4 DEF RawApart

(* Controllers with ordinary ports have two channels at most. *)
LEMMA HomeCount ==
  ASSUME machine \in Machines, Pairs(machine), NEW k \in Fns, AtHome(Chip(k))
  PROVE  AdapterChannels(k) \in Int /\ AdapterChannels(k) <= 2
PROOF
<1> DEFINE used == UsedChannels(Chip(k), Compat(k), machine.opts)
<1>1. used <= 2
  <2>1. Compat(k) \in BOOLEAN
    BY DEF Compat
  <2>2. /\ UsedChannels(Chip(k), FALSE, machine.opts) <= 2
        /\ UsedChannels(Chip(k), TRUE, machine.opts) <= 2
    BY DEF Pairs, Fns, Chip, Fn
  <2> QED BY <2>1, <2>2
<1>2. AdapterChannels(k) \in Int
  BY CountIs
<1>3. CASE Compat(k) /\ OneForBoth(k)
  <2>1. AdapterChannels(k) = Max({used, 2})
    BY <1>3 DEF AdapterChannels, DefaultChannels
  <2>2. used \in Int
    BY CountIs
  <2> HIDE DEF used
  <2>3. Max({used, 2}) \in {used, 2}
    BY <2>2, OfTwo
  <2> QED BY <1>1, <1>2, <2>1, <2>3
<1>4. CASE ~(Compat(k) /\ OneForBoth(k))
  BY <1>1, <1>2, <1>4 DEF AdapterChannels
<1> QED BY <1>3, <1>4

(* The channels of a controller with ordinary ports, and of one with a map *)
(* of its own (ChannelRegs).                                               *)
Home(k) == Compat(k) \/ Fn(k).std

ChipMap(chip, c) == IF UsesAhci(chip) THEN AhciRegs(c) ELSE OwnRegs(chip, c)

(* The channel of a chip with a register map has the ranges of the map and *)
(* no ports.                                                               *)
LEMMA MapChannel ==
  ASSUME NEW k, NEW f, NEW c, NEW first, ~AtHome(Chip(k))
  PROVE  LET u == ChannelRegs(k, f, c, first)
             map == ChipMap(Chip(k), c)
         IN  /\ u.port = {}
             /\ u.cmd = Ranges(k, f, map.cmd) /\ u.bm = Ranges(k, f, map.bm) /\ u.sata = Ranges(k, f, map.sata)
  BY DEF ChannelRegs, AtHome, ChipMap

(* A legacy port is no range. *)
LEMMA RangeOwners ==
  ASSUME machine \in Machines, Distinct(machine), NEW k \in Storage(machine), NEW f \in Storage(machine),
         NEW regs, NEW t \in Ranges(k, f, regs)
  PROVE  t[1] \in {Fn(k).id, Fn(f).id} /\ t[1] \notin {"P1", "P2", "P3", "P4"}
PROOF
<1>1. t[1] \in {Fn(k).id, Fn(f).id}
  BY RangeIs
<1>2. Fn(k).id \notin {"P1", "P2", "P3", "P4"} /\ Fn(f).id \notin {"P1", "P2", "P3", "P4"}
  BY DEF Distinct, Fn
<1> QED BY <1>1, <1>2

(* The ports. *)
LEMMA PortIs ==
  /\ Port(0) = "P1" /\ Port(1) = "P2"
  /\ \A p, t : t \in LegacyRegs(p) => t[1] = p
  BY DEF Port, AdapterAddresses, LegacyRegs

(* The registers of two channels of one adapter. *)
ChannelApart(u, v, a, s, p) ==
  /\ a \/ (u.cmd \cup u.bm) \cap (v.cmd \cup v.bm) = {}
  /\ u.bm \cap v.bm = {}
  /\ s \/ u.sata \cap v.sata = {}
  /\ p \/ u.sata \cap (v.cmd \cup v.bm) = {}

(* No register is used by two channels of an adapter, but for the          *)
(* exceptions of the chips (UniataChipDetect).                             *)
LEMMA ChannelsApart ==
  ASSUME machine \in Machines, Wired(machine), NEW k \in Storage(machine), NEW f \in Storage(machine),
         NEW first \in {0, 1}, first = 1 => AdapterChannels(k) <= 1,
         NEW c \in 0 .. AdapterChannels(k) - 1, NEW d \in 0 .. AdapterChannels(k) - 1, c # d
  PROVE  LET chip == Chip(k) IN
         ChannelApart(ChannelRegs(k, f, c, first), ChannelRegs(k, f, d, first),
                      OwnMap(chip) /\ chip.vendor = "ali", OwnMap(chip) /\ chip.vendor \in {"sii", "ati"},
                      OwnMap(chip) /\ chip.vendor = "promise" /\ d > 1)
PROOF
<1> DEFINE n == AdapterChannels(k)
           chip == Chip(k)
           u == ChannelRegs(k, f, c, first)
           v == ChannelRegs(k, f, d, first)
<1>0. /\ k \in Fns /\ n \in Int /\ first = 0 /\ c \in Nat /\ d \in Nat /\ c < n /\ d < n
      /\ Pairs(machine) /\ PortsAtHome(machine) /\ Distinct(machine)
  <2>1. k \in Fns
    BY DEF Storage, Fns
  <2>2. n \in Int
    BY <2>1, CountIs
  <2>3. Pairs(machine) /\ PortsAtHome(machine) /\ Distinct(machine)
    BY DEF Wired
  <2> QED BY <2>1, <2>2, <2>3
<1>1. CASE AtHome(chip)
  <2>1. c \in 0 .. 1 /\ d \in 0 .. 1
    <3>1. n <= 2
      BY <1>0, <1>1, HomeCount
    <3> QED BY <1>0, <3>1
  <2> DEFINE P(b) == Block(2 * b, 0, 1, 8) \cup {<<2 * b + 1, 2>>}
             B(b) == BusMaster(chip, b, first)
  <2>2. /\ RawApart(P(c) \cup B(c), P(d) \cup B(d))
        /\ RawApart(SataRegs(chip, c), SataRegs(chip, d))
        /\ RawApart(SataRegs(chip, c), P(d) \cup B(d))
    BY <2>1, HomeApart
  <2>0. AtHome(Chip(k))
    BY <1>1
  <2>a. /\ Home(k) => u.cmd = LegacyRegs(Port(first + c))
        /\ ~Home(k) => u.cmd = Ranges(k, f, P(c))
        /\ u.bm = Ranges(k, f, B(c)) /\ u.sata = Ranges(k, f, SataRegs(chip, c))
    BY <2>0 DEF ChannelRegs, AtHome, Home
  <2>b. /\ Home(k) => v.cmd = LegacyRegs(Port(first + d))
        /\ ~Home(k) => v.cmd = Ranges(k, f, P(d))
        /\ v.bm = Ranges(k, f, B(d)) /\ v.sata = Ranges(k, f, SataRegs(chip, d))
    BY <2>0 DEF ChannelRegs, AtHome, Home
  <2>3. /\ Home(k) => u.cmd = LegacyRegs(Port(first + c)) /\ v.cmd = LegacyRegs(Port(first + d))
        /\ ~Home(k) => u.cmd = Ranges(k, f, P(c)) /\ v.cmd = Ranges(k, f, P(d))
        /\ u.bm = Ranges(k, f, B(c)) /\ v.bm = Ranges(k, f, B(d))
        /\ u.sata = Ranges(k, f, SataRegs(chip, c)) /\ v.sata = Ranges(k, f, SataRegs(chip, d))
    BY <2>a, <2>b
  <2> HIDE DEF P, B, u, v, chip
  <2>4. RawApart(P(c), P(d)) /\ RawApart(P(c), B(d)) /\ RawApart(B(c), P(d)) /\ RawApart(B(c), B(d))
        /\ RawApart(SataRegs(chip, c), P(d)) /\ RawApart(SataRegs(chip, c), B(d))
    BY <2>2 DEF RawApart
  <2>5. u.bm \cap v.bm = {} /\ u.sata \cap v.sata = {} /\ u.sata \cap v.bm = {}
    BY <2>2, <2>3, <2>4, RangesApart
  <2>6. ASSUME ~Home(k)
        PROVE  u.cmd \cap v.cmd = {} /\ u.cmd \cap v.bm = {} /\ u.bm \cap v.cmd = {} /\ u.sata \cap v.cmd = {}
    <3>1. u.cmd \cap v.cmd = {} /\ u.cmd \cap v.bm = {} /\ u.bm \cap v.cmd = {} /\ u.sata \cap v.cmd = {}
      BY <2>3, <2>4, <2>6, RangesApart
    <3> QED BY <3>1
  <2>7. ASSUME Home(k)
        PROVE  u.cmd \cap v.cmd = {} /\ u.cmd \cap v.bm = {} /\ u.bm \cap v.cmd = {} /\ u.sata \cap v.cmd = {}
    <3>1. first + c = c /\ first + d = d /\ Port(c) # Port(d) /\ Port(c) \in {"P1", "P2"} /\ Port(d) \in {"P1", "P2"}
      BY <1>0, <2>1, PortIs
    <3>2. u.cmd \cap v.cmd = {}
      BY <2>3, <2>7, <3>1, PortIs
    <3>3. ASSUME NEW regs, NEW b \in {c, d}
          PROVE  LegacyRegs(Port(b)) \cap Ranges(k, f, regs) = {}
      <4>1. \A t \in Ranges(k, f, regs) : t[1] \notin {"P1", "P2", "P3", "P4"}
        BY <1>0, RangeOwners
      <4> QED BY <3>1, <3>3, <4>1, PortIs
    <3>4. u.cmd \cap v.bm = {} /\ u.bm \cap v.cmd = {} /\ u.sata \cap v.cmd = {}
      BY <2>3, <2>7, <3>1, <3>3
    <3> QED BY <3>2, <3>4
  <2>8. /\ (u.cmd \cup u.bm) \cap (v.cmd \cup v.bm) = {}
        /\ u.bm \cap v.bm = {} /\ u.sata \cap v.sata = {} /\ u.sata \cap (v.cmd \cup v.bm) = {}
    BY <2>5, <2>6, <2>7
  <2>9. \A a, s, p : ChannelApart(u, v, a, s, p)
    BY <2>8 DEF ChannelApart
  <2> QED BY <2>9 DEF u, v, chip
<1>2. CASE ~AtHome(chip)
  <2> DEFINE x == ChipMap(chip, c)
             y == ChipMap(chip, d)
             a == OwnMap(chip) /\ chip.vendor = "ali"
             s == OwnMap(chip) /\ chip.vendor \in {"sii", "ati"}
             p == OwnMap(chip) /\ chip.vendor = "promise" /\ d > 1
  <2>1. MapsApart(x, y, a, s, p)
    <3>1. CASE UsesAhci(chip)
      <4>1. MapsApart(AhciRegs(c), AhciRegs(d), FALSE, FALSE, FALSE)
        BY <1>0, AhciApart
      <4> QED BY <3>1, <4>1 DEF ChipMap, MapsApart
    <3>2. CASE ~UsesAhci(chip)
      <4>1. OwnMap(chip)
        BY <1>2, <3>2 DEF AtHome
      <4>2. ~Compat(k)
        BY <1>0, <1>2 DEF PortsAtHome, Compat, Fns, Fn, Chip, AtHome
      <4>3. n <= 4
        BY <1>0, <3>2, <4>2, CountIs
      <4>4. c \in 0 .. 3 /\ d \in 0 .. 3
        BY <1>0, <4>3
      <4> HIDE DEF chip
      <4>5. MapsApart(OwnRegs(chip, c), OwnRegs(chip, d),
                      chip.vendor = "ali", chip.vendor \in {"sii", "ati"}, chip.vendor = "promise" /\ d > 1)
        BY <4>1, <4>4, OwnApart
      <4> QED BY <3>2, <4>1, <4>5 DEF ChipMap, MapsApart
    <3> QED BY <3>1, <3>2
  <2>2. /\ u.cmd = Ranges(k, f, x.cmd) /\ u.bm = Ranges(k, f, x.bm) /\ u.sata = Ranges(k, f, x.sata)
        /\ v.cmd = Ranges(k, f, y.cmd) /\ v.bm = Ranges(k, f, y.bm) /\ v.sata = Ranges(k, f, y.sata)
    BY <1>2, MapChannel
  <2> HIDE DEF u, v, x, y, a, s, p, chip
  <2>3. u.bm \cap v.bm = {}
    BY <2>1, <2>2, RangesApart DEF MapsApart
  <2>4. s \/ u.sata \cap v.sata = {}
    BY <2>1, <2>2, RangesApart DEF MapsApart
  <2>5. ASSUME ~p PROVE u.sata \cap v.cmd = {} /\ u.sata \cap v.bm = {}
    <3>1. RawApart(x.sata, y.cmd) /\ RawApart(x.sata, y.bm)
      BY <2>1, <2>5 DEF MapsApart, RawApart
    <3> QED BY <2>2, <3>1, RangesApart
  <2>6. ASSUME ~a PROVE u.cmd \cap v.cmd = {} /\ u.cmd \cap v.bm = {} /\ u.bm \cap v.cmd = {}
    <3>1. RawApart(x.cmd, y.cmd) /\ RawApart(x.cmd, y.bm) /\ RawApart(x.bm, y.cmd)
      BY <2>1, <2>6 DEF MapsApart, RawApart
    <3> QED BY <2>2, <3>1, RangesApart
  <2>7. ChannelApart(u, v, a, s, p)
    BY <2>3, <2>4, <2>5, <2>6 DEF ChannelApart
  <2> QED BY <2>7 DEF u, v, a, s, p, chip
<1> QED BY <1>1, <1>2

(* The owner of a range of a channel. *)
Ranged(k, f, t) == t[1] = IF Ours(k, t[2]) THEN Fn(k).id ELSE Fn(f).id

(* The ports and the ranges of a channel. *)
ChannelOf(u, k, f, c, first) == u \in {NoChannel, ChannelRegs(k, f, c, first)}

(* What ChannelRegs gives a channel: ranges of its owner, or the port of   *)
(* its number and the task file there.                                     *)
LEMMA ChannelParts ==
  ASSUME NEW k, NEW f, NEW c, NEW first, NEW u, ChannelOf(u, k, f, c, first)
  PROVE  /\ \A t \in u.bm \cup u.sata : Ranged(k, f, t)
         /\ u.port = {} => \A t \in u.cmd : Ranged(k, f, t)
         /\ u.port # {} => /\ Home(k) /\ AtHome(Chip(k)) /\ u = ChannelRegs(k, f, c, first)
                           /\ u.port = {Port(first + c)} /\ u.cmd = LegacyRegs(Port(first + c))
PROOF
<1>1. ASSUME NEW regs, NEW t \in Ranges(k, f, regs) PROVE Ranged(k, f, t)
  BY RangeIs DEF Ranged
<1>2. CASE u = NoChannel
  BY <1>2 DEF NoChannel
<1>3. CASE u = ChannelRegs(k, f, c, first)
  <2>1. CASE AtHome(Chip(k))
    <3>1. /\ Home(k) => u.port = {Port(first + c)} /\ u.cmd = LegacyRegs(Port(first + c))
          /\ ~Home(k) => u.port = {} /\ u.cmd = Ranges(k, f, Block(2 * c, 0, 1, 8) \cup {<<2 * c + 1, 2>>})
          /\ u.bm = Ranges(k, f, BusMaster(Chip(k), c, first))
          /\ u.sata = Ranges(k, f, SataRegs(Chip(k), c))
      BY <1>3, <2>1 DEF ChannelRegs, AtHome, Home
    <3> QED BY <1>1, <1>3, <2>1, <3>1
  <2>2. CASE ~AtHome(Chip(k))
    <3>1. /\ u.port = {}
          /\ u.cmd = Ranges(k, f, ChipMap(Chip(k), c).cmd) /\ u.bm = Ranges(k, f, ChipMap(Chip(k), c).bm)
          /\ u.sata = Ranges(k, f, ChipMap(Chip(k), c).sata)
      BY <1>3, <2>2 DEF ChannelRegs, AtHome, ChipMap
    <3> QED BY <1>1, <3>1
  <2> QED BY <2>1, <2>2
<1> QED BY <1>2, <1>3 DEF ChannelOf

(* Functions that are not the same and are offered different functions     *)
(* have no range in common.                                                *)
LEMMA RangedApart ==
  ASSUME Distinct(machine), SameMaps(machine),
         NEW k \in Storage(machine), NEW l \in Storage(machine), NEW f \in Storage(machine), NEW g \in Storage(machine),
         Twin(f, k), Twin(g, l), k # l, f # g, NEW t
  PROVE  ~(Ranged(k, f, t) /\ Ranged(l, g, t))
PROOF
<1> SUFFICES ASSUME Ranged(k, f, t), Ranged(l, g, t) PROVE FALSE
  OBVIOUS
<1>1. \A x, y \in Storage(machine) : Fn(x).id = Fn(y).id => x = y
  BY DEF Distinct, Fn
<1>2. ASSUME NEW x \in Storage(machine), NEW y \in Storage(machine), Twin(x, y), NEW b
      PROVE  Ours(x, b) <=> Ours(y, b)
  <2>1. Chip(x).vendor = Chip(y).vendor /\ Chip(x).dev = Chip(y).dev
    BY <1>2 DEF Twin
  <2>2. OwnMap(Chip(x)) = OwnMap(Chip(y))
    BY <2>1 DEF SameMaps, Chip, Fn
  <2> QED BY <2>1, <2>2 DEF Ours
<1>3. CASE Ours(k, t[2]) <=> Ours(l, t[2])
  BY <1>1, <1>3 DEF Ranged
<1>4. CASE Ours(k, t[2]) /\ ~Ours(l, t[2])
  <2>1. k = g
    BY <1>1, <1>4 DEF Ranged
  <2> QED BY <1>2, <1>4, <2>1
<1>5. CASE ~Ours(k, t[2]) /\ Ours(l, t[2])
  <2>1. l = f
    BY <1>1, <1>5 DEF Ranged
  <2> QED BY <1>2, <1>5, <2>1
<1> QED BY <1>3, <1>4, <1>5

(* The channels of two adapters use the same registers only at a port.     *)
CrossApart(u, v) ==
  /\ u.bm \cap v.bm = {}
  /\ u.port \cap v.port = {} => (u.cmd \cup u.bm) \cap (v.cmd \cup v.bm) = {}
  /\ "P2" \in u.port \cap v.port => (u.cmd \cup u.bm) \cap (v.cmd \cup v.bm) = LegacyRegs("P2")
  /\ u.sata \cap (v.cmd \cup v.bm) = {} /\ v.sata \cap (u.cmd \cup u.bm) = {}

(* No range is a port. *)
LEMMA NotPort ==
  ASSUME Distinct(machine), NEW k \in Storage(machine), NEW f \in Storage(machine), NEW t, Ranged(k, f, t)
  PROVE  t[1] \notin {"P1", "P2", "P3", "P4"}
  BY DEF Distinct, Ranged, Fn

(* What decides it are the ranges of the bus master and SATA registers and *)
(* of the task files.                                                      *)
LEMMA CrossIs ==
  ASSUME Distinct(machine),
         NEW k \in Storage(machine), NEW l \in Storage(machine), NEW f \in Storage(machine), NEW g \in Storage(machine),
         NEW c, NEW d, NEW first, NEW second, NEW u, NEW v,
         ChannelOf(u, k, f, c, first), ChannelOf(v, l, g, d, second),
         u.port \cup v.port \subseteq {"P1", "P2"},
         u.bm \cap v.bm = {}, u.sata \cap v.bm = {}, u.bm \cap v.sata = {},
         u.port = {} => u.cmd \cap v.bm = {} /\ u.cmd \cap v.sata = {},
         v.port = {} => u.bm \cap v.cmd = {} /\ u.sata \cap v.cmd = {},
         u.port = {} /\ v.port = {} => u.cmd \cap v.cmd = {}
  PROVE  CrossApart(u, v)
PROOF
<1>1. /\ \A t \in u.bm \cup u.sata : t[1] \notin {"P1", "P2"}
      /\ u.port = {} => \A t \in u.cmd : t[1] \notin {"P1", "P2"}
      /\ \A t \in v.bm \cup v.sata : t[1] \notin {"P1", "P2"}
      /\ v.port = {} => \A t \in v.cmd : t[1] \notin {"P1", "P2"}
  BY ChannelParts, NotPort
<1>2. /\ u.port # {} => \E p \in {"P1", "P2"} : u.port = {p} /\ u.cmd = {<<p, 0, 0>>}
      /\ v.port # {} => \E p \in {"P1", "P2"} : v.port = {p} /\ v.cmd = {<<p, 0, 0>>}
  BY ChannelParts DEF LegacyRegs
<1>3. /\ u.port # {} => u.cmd \cap v.bm = {} /\ u.cmd \cap v.sata = {} /\ (v.port = {} => u.cmd \cap v.cmd = {})
      /\ v.port # {} => u.bm \cap v.cmd = {} /\ u.sata \cap v.cmd = {} /\ (u.port = {} => u.cmd \cap v.cmd = {})
  BY <1>1, <1>2
<1>4. u.cmd \cap v.bm = {} /\ u.cmd \cap v.sata = {} /\ u.bm \cap v.cmd = {} /\ u.sata \cap v.cmd = {}
  BY <1>3
<1>5. u.port = {} \/ v.port = {} => u.cmd \cap v.cmd = {}
  BY <1>3
<1>6. CASE u.port = {} \/ v.port = {}
  BY <1>4, <1>5, <1>6 DEF CrossApart
<1>7. CASE u.port # {} /\ v.port # {}
  <2>1. PICK p \in {"P1", "P2"} : u.port = {p} /\ u.cmd = {<<p, 0, 0>>}
    BY <1>2, <1>7
  <2>2. PICK q \in {"P1", "P2"} : v.port = {q} /\ v.cmd = {<<q, 0, 0>>}
    BY <1>2, <1>7
  <2>3. p # q => u.cmd \cap v.cmd = {}
    BY <2>1, <2>2
  <2>4. p = q => (u.cmd \cup u.bm) \cap (v.cmd \cup v.bm) = {<<p, 0, 0>>}
    BY <1>4, <2>1, <2>2
  <2> QED BY <1>4, <2>1, <2>2, <2>3, <2>4 DEF CrossApart, LegacyRegs
<1> QED BY <1>6, <1>7

(* Adapters of two functions which are offered different functions.        *)
LEMMA OthersApart ==
  ASSUME Distinct(machine), SameMaps(machine),
         NEW k \in Storage(machine), NEW l \in Storage(machine), NEW f \in Storage(machine), NEW g \in Storage(machine),
         Twin(f, k), Twin(g, l), k # l, f # g,
         NEW c, NEW d, NEW first, NEW second, NEW u, NEW v,
         ChannelOf(u, k, f, c, first), ChannelOf(v, l, g, d, second),
         u.port \cup v.port \subseteq {"P1", "P2"}
  PROVE  CrossApart(u, v) /\ u.sata \cap v.sata = {}
PROOF
<1>1. /\ \A t \in u.bm \cup u.sata : Ranged(k, f, t)
      /\ u.port = {} => \A t \in u.cmd : Ranged(k, f, t)
  BY ChannelParts
<1>2. /\ \A t \in v.bm \cup v.sata : Ranged(l, g, t)
      /\ v.port = {} => \A t \in v.cmd : Ranged(l, g, t)
  BY ChannelParts
<1>3. \A t : ~(Ranged(k, f, t) /\ Ranged(l, g, t))
  BY RangedApart
<1>4. /\ u.bm \cap v.bm = {} /\ u.sata \cap v.bm = {} /\ u.bm \cap v.sata = {} /\ u.sata \cap v.sata = {}
      /\ u.port = {} => u.cmd \cap v.bm = {} /\ u.cmd \cap v.sata = {}
      /\ v.port = {} => u.bm \cap v.cmd = {} /\ u.sata \cap v.cmd = {}
      /\ u.port = {} /\ v.port = {} => u.cmd \cap v.cmd = {}
  BY <1>1, <1>2, <1>3
<1> QED BY <1>4, CrossIs

(* Where the bus master registers of a channel are. *)
Window(c, first) == 8 * (c + first) .. 8 * (c + first) + 4

(* The registers of a channel with ordinary ports, by their base address.  *)
HomeRegs(u, k, c, first) ==
  /\ \A t \in u.bm : t[1] = Fn(k).id /\ t[2] = 4 /\ t[3] \in Window(c, first)
  /\ \A t \in u.sata : t[2] \in {5, 6}
  /\ u.port = {} => (~Home(k) \/ u.cmd = {}) /\ \A t \in u.cmd : t[2] \in 0 .. 3

(* What ChannelRegs and BusMaster give a channel with ordinary ports. *)
LEMMA HomeParts ==
  ASSUME NEW k, NEW f, NEW c \in 0 .. 1, NEW first \in {0, 1}, NEW u, ChannelOf(u, k, f, c, first), AtHome(Chip(k))
  PROVE  HomeRegs(u, k, c, first)
PROOF
<1>1. CASE u = NoChannel
  BY <1>1 DEF NoChannel, HomeRegs
<1>2. CASE u = ChannelRegs(k, f, c, first)
  <2>1. /\ Home(k) => u.port = {Port(first + c)} /\ u.cmd = LegacyRegs(Port(first + c))
        /\ ~Home(k) => u.port = {} /\ u.cmd = Ranges(k, f, Block(2 * c, 0, 1, 8) \cup {<<2 * c + 1, 2>>})
        /\ u.bm = Ranges(k, f, BusMaster(Chip(k), c, first))
        /\ u.sata = Ranges(k, f, SataRegs(Chip(k), c))
    BY <1>2 DEF ChannelRegs, AtHome, Home
  <2>2. ASSUME NEW t \in u.bm
        PROVE  t[1] = Fn(k).id /\ t[2] = 4 /\ t[3] \in Window(c, first)
    <3>1. t \in Ranges(k, f, BusMaster(Chip(k), c, first))
      BY <2>1, <2>2
    <3>2. PICK r \in BusMaster(Chip(k), c, first) : t[2] = r[1] /\ t[3] = r[2]
      BY <3>1, RangeIs
    <3> DEFINE a == 8 * c + (IF first = 1 THEN 8 ELSE 0)
    <3>3. r \in Block(4, a, 1, 5)
      BY <3>2 DEF BusMaster
    <3>4. a \in Int /\ a .. a + 4 = Window(c, first)
      <4>1. a = 8 * (c + first)
        OBVIOUS
      <4> QED BY <4>1 DEF Window
    <3> HIDE DEF a
    <3>5. PICK j \in 0 .. 4 : r[1] = 4 /\ r[2] = a + j * 1
      BY <3>3, BlockIs
    <3>6. t[2] = 4 /\ t[3] \in a .. a + 4
      <4>1. a \in Int /\ t[3] = a + j * 1
        BY <3>2, <3>4, <3>5
      <4> QED BY <3>2, <3>5, <4>1
    <3>7. Ours(k, 4)
      BY DEF Ours, AtHome
    <3>8. t[1] = Fn(k).id
      BY <3>1, <3>6, <3>7, RangeIs
    <3> QED BY <3>4, <3>6, <3>8
  <2>3. ASSUME NEW t \in u.sata PROVE t[2] \in {5, 6}
    <3>1. PICK r \in SataRegs(Chip(k), c) : t[2] = r[1]
      BY <2>1, <2>3, RangeIs
    <3>2. c \in Nat
      OBVIOUS
    <3> QED BY <3>1, <3>2, HomeSata
  <2>4. ASSUME u.port = {}, NEW t \in u.cmd PROVE t[2] \in 0 .. 3
    <3>1. PICK r \in Block(2 * c, 0, 1, 8) \cup {<<2 * c + 1, 2>>} : t[2] = r[1]
      BY <2>1, <2>4, RangeIs
    <3>2. \A s \in Block(2 * c, 0, 1, 8) : s[1] = 2 * c
      BY BlockIs
    <3>3. r[1] = 2 * c \/ r[1] = 2 * c + 1
      BY <3>1, <3>2
    <3> QED BY <3>1, <3>3
  <2> QED BY <2>1, <2>2, <2>3, <2>4 DEF HomeRegs
<1> QED BY <1>1, <1>2 DEF ChannelOf

(* A controller in compatibility mode and a twin that is offered its       *)
(* ranges.                                                                 *)
LEMMA TwinApart ==
  ASSUME Distinct(machine), NEW k \in Storage(machine), NEW l \in Storage(machine), k # l,
         AtHome(Chip(k)), AtHome(Chip(l)), Compat(k),
         NEW c \in 0 .. 1, NEW d \in 0 .. 1, NEW first \in {0, 1}, NEW second \in {0, 1}, NEW u, NEW v,
         ChannelOf(u, k, k, c, first), ChannelOf(v, l, k, d, second),
         u.port \cup v.port \subseteq {"P1", "P2"}
  PROVE  CrossApart(u, v)
PROOF
<1>1. /\ \A t \in u.bm : t[1] = Fn(k).id /\ t[2] = 4
      /\ \A t \in u.sata : t[2] \in {5, 6}
      /\ u.port = {} => u.cmd = {}
  <2>1. HomeRegs(u, k, c, first)
    BY HomeParts
  <2> QED BY <2>1 DEF HomeRegs, Home
<1>2. /\ \A t \in v.bm : t[1] = Fn(l).id /\ t[2] = 4
      /\ \A t \in v.sata : t[2] \in {5, 6}
      /\ v.port = {} => \A t \in v.cmd : t[2] \in 0 .. 3
  <2>1. HomeRegs(v, l, d, second)
    BY HomeParts
  <2> QED BY <2>1 DEF HomeRegs
<1>3. Fn(k).id # Fn(l).id
  BY DEF Distinct, Fn
<1>4. u.bm \cap v.bm = {}
  BY <1>1, <1>2, <1>3
<1>5. u.sata \cap v.bm = {} /\ u.bm \cap v.sata = {}
  BY <1>1, <1>2
<1>6. u.port = {} => u.cmd \cap v.bm = {} /\ u.cmd \cap v.sata = {} /\ u.cmd \cap v.cmd = {}
  BY <1>1
<1>7. v.port = {} => u.bm \cap v.cmd = {} /\ u.sata \cap v.cmd = {}
  BY <1>1, <1>2
<1> QED BY <1>4, <1>5, <1>6, <1>7, CrossIs

(* The adapters of the two channels of a controller in compatibility mode. *)
LEMMA HalvesApart ==
  ASSUME Distinct(machine), NEW k \in Storage(machine), AtHome(Chip(k)), Compat(k),
         NEW first \in {0, 1}, NEW second \in {0, 1}, NEW u, NEW v,
         ChannelOf(u, k, k, 0, first), ChannelOf(v, k, k, 0, second), u.port \cap v.port = {}
  PROVE  CrossApart(u, v)
PROOF
<1>0. 0 \in 0 .. 1
  OBVIOUS
<1>1. /\ \A t \in u.bm : t[2] = 4 /\ t[3] \in Window(0, first)
      /\ \A t \in u.sata : t[2] \in {5, 6}
      /\ u.port = {} => u.cmd = {}
  <2>1. HomeRegs(u, k, 0, first)
    BY <1>0, HomeParts
  <2> QED BY <2>1 DEF HomeRegs, Home
<1>2. /\ \A t \in v.bm : t[2] = 4 /\ t[3] \in Window(0, second)
      /\ \A t \in v.sata : t[2] \in {5, 6}
      /\ v.port = {} => v.cmd = {}
  <2>1. HomeRegs(v, k, 0, second)
    BY <1>0, HomeParts
  <2> QED BY <2>1 DEF HomeRegs, Home
<1>3. u.port \cup v.port \subseteq {"P1", "P2"}
  <2>1. Port(first + 0) \in {"P1", "P2"} /\ Port(second + 0) \in {"P1", "P2"}
    <3>1. first + 0 = first /\ second + 0 = second
      OBVIOUS
    <3> QED BY <3>1, PortIs
  <2> QED BY <2>1, ChannelParts
<1>4. u.bm \cap v.bm = {}
  <2>1. CASE first # second
    BY <1>1, <1>2, <2>1 DEF Window
  <2>2. CASE first = second
    <3>1. ChannelRegs(k, k, 0, first).port = {Port(first + 0)}
      BY DEF ChannelRegs, AtHome
    <3>2. u = NoChannel \/ v = NoChannel
      BY <2>2, <3>1 DEF ChannelOf
    <3> QED BY <3>2 DEF NoChannel
  <2> QED BY <2>1, <2>2
<1>5. u.sata \cap v.bm = {} /\ u.bm \cap v.sata = {}
  BY <1>1, <1>2
<1>6. u.port = {} => u.cmd \cap v.bm = {} /\ u.cmd \cap v.sata = {} /\ u.cmd \cap v.cmd = {}
  BY <1>1
<1>7. v.port = {} => u.bm \cap v.cmd = {} /\ u.sata \cap v.cmd = {}
  BY <1>2
<1> QED BY <1>3, <1>4, <1>5, <1>6, <1>7, CrossIs

(* What OneOwner says of two channels. *)
OwnerOk(x, y) ==
  \/ StartedAgain(x, y)
  \/ /\ \/ Uses(x) \cap Uses(y) = {} \/ OnChip(x, y, {"ali"})
        \/ SecondPort(x, y) /\ Uses(x) \cap Uses(y) = LegacyRegs("P2")
     /\ Channel(x).bm \cap Channel(y).bm = {}
     /\ Channel(x).sata \cap Channel(y).sata = {} \/ OnChip(x, y, {"sii", "ati"}) \/ SameBase(x, y)
     /\ Channel(x).sata \cap Uses(y) = {} \/ (OnChip(x, y, {"promise"}) /\ y[2] > DefaultChannels)

(* OneOwner, channel by channel. *)
LEMMA OwnerIs ==
  OneOwner <=> \A x, y \in ChannelSet : x # y => OwnerOk(x, y)
  BY DEF OneOwner, OwnerOk

(* A channel is a channel of an adapter. *)
LEMMA ChannelIs ==
  ASSUME NEW x
  PROVE  x \in ChannelSet <=> \E a \in DOMAIN adapters : \E c \in DOMAIN adapters[a].channels : x = <<a, c>>
  BY DEF ChannelSet

(* An adapter more does not disturb the others. *)
LEMMA OldOwners ==
  ASSUME machine' = machine, hit \subseteq hit', NEW x \in ChannelSet, NEW y \in ChannelSet, OwnerOk(x, y),
         \A a \in DOMAIN adapters : adapters'[a] = adapters[a]
  PROVE  OwnerOk(x, y)'
PROOF
<1>a. PICK a \in DOMAIN adapters : \E c \in DOMAIN adapters[a].channels : x = <<a, c>>
  BY ChannelIs
<1>1. PICK c \in DOMAIN adapters[a].channels : x = <<a, c>>
  BY <1>a
<1>b. PICK b \in DOMAIN adapters : \E d \in DOMAIN adapters[b].channels : y = <<b, d>>
  BY ChannelIs
<1>2. PICK d \in DOMAIN adapters[b].channels : y = <<b, d>>
  BY <1>b
<1>3. adapters'[a] = adapters[a] /\ adapters'[b] = adapters[b]
  BY <1>1, <1>2
<1>4. /\ \A k : Compat(k)' = Compat(k) /\ AdapterChannels(k)' = AdapterChannels(k) /\ Chip(k)' = Chip(k)
      /\ \A k, l : Twin(k, l)' = Twin(k, l)
      /\ IsNt' = IsNt
  BY DEF Compat, Fn, Switched, Option, Chip, AdapterChannels, OneForBoth, Twin, IsNt
<1> DEFINE A == adapters[a]
           B2 == adapters[b]
<1>5. /\ Channel(x) = A.channels[c] /\ Channel(y) = B2.channels[d]
      /\ Channel(x)' = A.channels[c] /\ Channel(y)' = B2.channels[d]
  BY <1>1, <1>2, <1>3 DEF Channel
<1>6. Uses(x)' = Uses(x) /\ Uses(y)' = Uses(y)
  BY <1>5 DEF Uses
<1>7. adapters'[x[1]] = adapters[x[1]] /\ adapters'[y[1]] = adapters[y[1]]
  BY <1>1, <1>2, <1>3
<1>8. ASSUME StartedAgain(x, y) PROVE StartedAgain(x, y)'
  BY <1>4, <1>7, <1>8 DEF StartedAgain, OfCompat
<1>9. \A vendors : OnChip(x, y, vendors) => OnChip(x, y, vendors)'
  BY <1>4, <1>7 DEF OnChip
<1>10. SameBase(x, y) => SameBase(x, y)'
  BY <1>4, <1>7 DEF SameBase, OfCompat
<1>11. ASSUME SecondPort(x, y) PROVE SecondPort(x, y)'
  <2>1. OfCompat(x) /\ OfCompat(y)
        /\ \E m, n \in {x[1], y[1]} : m < n /\ (Len(adapters[n].channels) > 1 \/ (IsNt /\ Len(adapters[m].channels) > 1))
    BY <1>11 DEF SecondPort
  <2>2. \A m \in {x[1], y[1]} : adapters'[m] = adapters[m]
    BY <1>7
  <2>3. OfCompat(x)' /\ OfCompat(y)'
    BY <1>4, <1>7, <2>1 DEF OfCompat
  <2>4. \E m, n \in {x[1], y[1]} : m < n /\ (Len(adapters'[n].channels) > 1 \/ (IsNt' /\ Len(adapters'[m].channels) > 1))
    BY <1>4, <2>1, <2>2
  <2> QED BY <2>3, <2>4 DEF SecondPort
<1> QED BY <1>5, <1>6, <1>8, <1>9, <1>10, <1>11 DEF OwnerOk

(* Two adapters, of which the second is made after the first: their        *)
(* channels u and v.                                                       *)
PairOk(A, B, u, v) ==
  \/ A.fn = B.fn /\ A.fn # 0 /\ A.fn \in hit /\ Compat(A.fn) /\ AdapterChannels(A.fn) > 1
  \/ /\ \/ (u.cmd \cup u.bm) \cap (v.cmd \cup v.bm) = {}
        \/ /\ A.fn # 0 /\ Compat(A.fn) /\ B.fn # 0 /\ Compat(B.fn)
           /\ Len(B.channels) > 1 \/ (IsNt /\ Len(A.channels) > 1)
           /\ (u.cmd \cup u.bm) \cap (v.cmd \cup v.bm) = LegacyRegs("P2")
     /\ u.bm \cap v.bm = {}
     /\ u.sata \cap v.sata = {} \/ (A.fn # 0 /\ B.fn # 0 /\ (Compat(A.fn) \/ Compat(B.fn)) /\ Twin(A.fn, B.fn) /\ Twin(B.fn, A.fn))
     /\ u.sata \cap (v.cmd \cup v.bm) = {} /\ v.sata \cap (u.cmd \cup u.bm) = {}

(* Two channels of one adapter. *)
ChipOk(A, c, d) ==
  LET chip == Chip(A.fn)
      own1 == A.fn # 0 /\ OwnMap(chip)
  IN  ChannelApart(A.channels[c], A.channels[d], own1 /\ chip.vendor = "ali", own1 /\ chip.vendor \in {"sii", "ati"},
                   own1 /\ chip.vendor = "promise" /\ d > 2)

(* What is shown of two adapters is what OneOwner says of their channels,  *)
(* in either order.                                                        *)
LEMMA PairOwners ==
  ASSUME NEW a, NEW b, a < b, a # b, NEW A, NEW B, A = adapters'[a], B = adapters'[b],
         NEW c, NEW d, PairOk(A, B, A.channels[c], B.channels[d])'
  PROVE  OwnerOk(<<a, c>>, <<b, d>>)' /\ OwnerOk(<<b, d>>, <<a, c>>)'
PROOF
<1> DEFINE x == <<a, c>>
           y == <<b, d>>
           u == A.channels[c]
           v == B.channels[d]
<1>1. /\ x[1] = a /\ y[1] = b /\ Channel(x)' = u /\ Channel(y)' = v
      /\ Uses(x)' = u.cmd \cup u.bm /\ Uses(y)' = v.cmd \cup v.bm
  BY DEF Channel, Uses
<1>2. CASE A.fn = B.fn /\ A.fn # 0 /\ A.fn \in hit' /\ Compat(A.fn)' /\ AdapterChannels(A.fn)' > 1
  <2>1. StartedAgain(x, y)' /\ StartedAgain(y, x)'
    BY <1>1, <1>2 DEF StartedAgain, OfCompat
  <2> QED BY <2>1 DEF OwnerOk
<1>3. CASE ~(A.fn = B.fn /\ A.fn # 0 /\ A.fn \in hit' /\ Compat(A.fn)' /\ AdapterChannels(A.fn)' > 1)
  <2> DEFINE both == /\ A.fn # 0 /\ Compat(A.fn)' /\ B.fn # 0 /\ Compat(B.fn)'
                     /\ Len(B.channels) > 1 \/ (IsNt' /\ Len(A.channels) > 1)
             base == /\ A.fn # 0 /\ B.fn # 0 /\ (Compat(A.fn)' \/ Compat(B.fn)')
                     /\ Twin(A.fn, B.fn)' /\ Twin(B.fn, A.fn)'
  <2>1. both => SecondPort(x, y)' /\ SecondPort(y, x)'
    BY <1>1 DEF SecondPort, OfCompat
  <2>2. base => SameBase(x, y)' /\ SameBase(y, x)'
    BY <1>1 DEF SameBase, OfCompat
  <2> HIDE DEF x, y, u, v
  <2>3. /\ (u.cmd \cup u.bm) \cap (v.cmd \cup v.bm) = {} \/ (both /\ (u.cmd \cup u.bm) \cap (v.cmd \cup v.bm) = LegacyRegs("P2"))
        /\ u.bm \cap v.bm = {}
        /\ u.sata \cap v.sata = {} \/ base
        /\ u.sata \cap (v.cmd \cup v.bm) = {} /\ v.sata \cap (u.cmd \cup u.bm) = {}
    <3>1. PairOk(A, B, A.channels[c], B.channels[d])'
      OBVIOUS
    <3> QED BY <1>3, <3>1 DEF PairOk, u, v
  <2> HIDE DEF both, base
  <2>4. OwnerOk(x, y)' /\ OwnerOk(y, x)'
    <3>1. /\ Uses(x)' \cap Uses(y)' = {} \/ (SecondPort(x, y)' /\ Uses(x)' \cap Uses(y)' = LegacyRegs("P2"))
          /\ Uses(y)' \cap Uses(x)' = {} \/ (SecondPort(y, x)' /\ Uses(y)' \cap Uses(x)' = LegacyRegs("P2"))
      <4>1. Uses(y)' \cap Uses(x)' = Uses(x)' \cap Uses(y)'
        OBVIOUS
      <4> QED BY <1>1, <2>1, <2>3, <4>1
    <3>2. Channel(x)'.bm \cap Channel(y)'.bm = {} /\ Channel(y)'.bm \cap Channel(x)'.bm = {}
      BY <1>1, <2>3
    <3>3. /\ Channel(x)'.sata \cap Channel(y)'.sata = {} \/ SameBase(x, y)'
          /\ Channel(y)'.sata \cap Channel(x)'.sata = {} \/ SameBase(y, x)'
      BY <1>1, <2>2, <2>3
    <3>4. Channel(x)'.sata \cap Uses(y)' = {} /\ Channel(y)'.sata \cap Uses(x)' = {}
      BY <1>1, <2>3
    <3> QED BY <3>1, <3>2, <3>3, <3>4 DEF OwnerOk
  <2> QED BY <2>4 DEF x, y
<1> QED BY <1>2, <1>3

(* What is shown of one adapter is what OneOwner says of its channels. *)
LEMMA ChipOwners ==
  ASSUME machine' = machine, NEW a, NEW c, NEW d, NEW A, A = adapters'[a], ChipOk(A, c, d)
  PROVE  OwnerOk(<<a, c>>, <<a, d>>)'
PROOF
<1> DEFINE x == <<a, c>>
           y == <<a, d>>
           u == A.channels[c]
           v == A.channels[d]
<1>1. /\ x[1] = a /\ y[1] = a /\ y[2] = d /\ Channel(x)' = u /\ Channel(y)' = v
      /\ Uses(x)' = u.cmd \cup u.bm /\ Uses(y)' = v.cmd \cup v.bm
  BY DEF Channel, Uses
<1>2. \A vendors : OnChip(x, y, vendors)' <=> A.fn # 0 /\ OwnMap(Chip(A.fn)) /\ Chip(A.fn).vendor \in vendors
  BY <1>1 DEF OnChip, Chip, Fn
<1>3. ChipOk(A, c, d)
  OBVIOUS
<1> HIDE DEF x, y
<1>4. OwnerOk(x, y)'
  BY <1>1, <1>2, <1>3 DEF OwnerOk, ChipOk, ChannelApart, DefaultChannels
<1> QED BY <1>4 DEF x, y

(* OneOwner, when an adapter is added. *)
LEMMA AddedOwners ==
  ASSUME IsSeq(adapters), NEW B, adapters' = Append(adapters, B), machine' = machine, hit \subseteq hit', OneOwner,
         \A c, d \in DOMAIN B.channels : c # d => ChipOk(B, c, d),
         \A a \in DOMAIN adapters : \A A : A = adapters[a] =>
           \A c \in DOMAIN A.channels : \A d \in DOMAIN B.channels : PairOk(A, B, A.channels[c], B.channels[d])'
  PROVE  OneOwner'
PROOF
<1>0. PICK n : n = Len(adapters) + 1
  OBVIOUS
<1>1. /\ Len(adapters) \in Nat /\ DOMAIN adapters = 1 .. Len(adapters) /\ DOMAIN adapters' = 1 .. n
      /\ \A a \in 1 .. Len(adapters) : adapters'[a] = adapters[a]
      /\ adapters'[n] = B
  BY <1>0, AppendIs
<1> SUFFICES ASSUME NEW x \in ChannelSet', NEW y \in ChannelSet', x # y PROVE OwnerOk(x, y)'
  BY DEF OneOwner, OwnerOk
<1>2. PICK a \in DOMAIN adapters' : \E c \in DOMAIN adapters'[a].channels : x = <<a, c>>
  BY DEF ChannelSet
<1>3. PICK c \in DOMAIN adapters'[a].channels : x = <<a, c>>
  BY <1>2
<1>4. PICK b \in DOMAIN adapters' : \E d \in DOMAIN adapters'[b].channels : y = <<b, d>>
  BY DEF ChannelSet
<1>5. PICK d \in DOMAIN adapters'[b].channels : y = <<b, d>>
  BY <1>4
<1>6. ASSUME NEW e \in DOMAIN adapters', e # n
      PROVE  e \in DOMAIN adapters /\ adapters'[e] = adapters[e] /\ e < n
  BY <1>0, <1>1, <1>6
<1>7. CASE a # n /\ b # n
  <2>1. x \in ChannelSet /\ y \in ChannelSet
    BY <1>3, <1>5, <1>6, <1>7, ChannelIs
  <2>2. OwnerOk(x, y)
    BY <2>1, OwnerIs
  <2>3. \A e \in DOMAIN adapters : adapters'[e] = adapters[e]
    BY <1>1
  <2> QED BY <2>1, <2>2, <2>3, OldOwners
<1>8. ASSUME NEW e \in DOMAIN adapters', e # n, NEW p \in DOMAIN adapters'[e].channels, NEW q \in DOMAIN B.channels
      PROVE  OwnerOk(<<e, p>>, <<n, q>>)' /\ OwnerOk(<<n, q>>, <<e, p>>)'
  <2>1. e < n /\ e # n /\ e \in DOMAIN adapters /\ adapters'[e] = adapters[e]
    BY <1>6, <1>8
  <2>2. PICK A : A = adapters'[e]
    OBVIOUS
  <2>3. PairOk(A, B, A.channels[p], B.channels[q])'
    BY <1>8, <2>1, <2>2
  <2>4. B = adapters'[n]
    BY <1>1
  <2>5. OwnerOk(<<e, p>>, <<n, q>>)' /\ OwnerOk(<<n, q>>, <<e, p>>)'
    BY <2>1, <2>2, <2>3, <2>4, PairOwners
  <2> QED BY <2>5
<1>9. CASE a # n /\ b = n
  <2>1. a # n /\ d \in DOMAIN B.channels
    BY <1>1, <1>9
  <2>2. OwnerOk(<<a, c>>, <<n, d>>)'
    BY <1>8, <2>1
  <2>3. x = <<a, c>> /\ y = <<n, d>>
    BY <1>3, <1>5, <1>9
  <2> QED BY <2>2, <2>3
<1>10. CASE a = n /\ b # n
  <2>1. b # n /\ c \in DOMAIN B.channels
    BY <1>1, <1>10
  <2>2. OwnerOk(<<n, c>>, <<b, d>>)'
    BY <1>8, <2>1
  <2>3. x = <<n, c>> /\ y = <<b, d>>
    BY <1>3, <1>5, <1>10
  <2> QED BY <2>2, <2>3
<1>11. CASE a = n /\ b = n
  <2>1. c # d /\ c \in DOMAIN B.channels /\ d \in DOMAIN B.channels
    BY <1>1, <1>3, <1>5, <1>11
  <2>2. ChipOk(B, c, d)
    BY <2>1
  <2>3. B = adapters'[n]
    BY <1>1
  <2> QED BY <1>3, <1>5, <1>11, <2>2, <2>3, ChipOwners
<1> QED BY <1>7, <1>9, <1>10, <1>11

(* OneOwner, when no adapter is added. *)
LEMMA SameOwners ==
  ASSUME adapters' = adapters, machine' = machine, hit \subseteq hit', OneOwner
  PROVE  OneOwner'
PROOF
<1> SUFFICES ASSUME NEW x \in ChannelSet', NEW y \in ChannelSet', x # y PROVE OwnerOk(x, y)'
  BY DEF OneOwner, OwnerOk
<1>1. x \in ChannelSet /\ y \in ChannelSet
  BY DEF ChannelSet
<1>2. OwnerOk(x, y)
  BY <1>1, OwnerIs
<1> QED BY <1>1, <1>2, OldOwners

(* The adapters. *)
AdapterSet == {adapters[a] : a \in DOMAIN adapters}

(* An adapter more is one more in the set of the adapters. *)
LEMMA AddedSet ==
  ASSUME IsSeq(adapters), NEW B, adapters' = Append(adapters, B)
  PROVE  AdapterSet' = AdapterSet \cup {B}
PROOF
<1>1. /\ Len(adapters) \in Nat /\ DOMAIN adapters = 1 .. Len(adapters) /\ DOMAIN adapters' = 1 .. Len(adapters) + 1
      /\ \A a \in 1 .. Len(adapters) : adapters'[a] = adapters[a]
      /\ adapters'[Len(adapters) + 1] = B
  BY AppendIs
<1>2. \A a \in DOMAIN adapters : a \in DOMAIN adapters' /\ adapters'[a] = adapters[a]
  BY <1>1
<1>3. Len(adapters) + 1 \in DOMAIN adapters'
  BY <1>1
<1>4. \A a \in DOMAIN adapters' : a \in DOMAIN adapters \/ a = Len(adapters) + 1
  BY <1>1
<1> QED BY <1>1, <1>2, <1>3, <1>4 DEF AdapterSet

(* The channels of an adapter of function k, which begins with channel     *)
(* first and is offered function f.                                        *)
Chans(k, f, first, chans) ==
  LET n == AdapterChannels(k) IN
  \/ chans = <<>>
  \/ /\ DOMAIN chans = 1 .. n /\ Len(chans) = n
     /\ first = 1 => n <= 1
     /\ \A c \in 1 .. n : ChannelOf(chans[c], k, f, c - 1, first)

Made(A, f, first) ==
  /\ A.fn \in Storage(machine) /\ f \in Storage(machine) /\ Twin(f, A.fn)
  /\ first \in {0, 1} /\ (first = 1 => Compat(A.fn))
  /\ Chans(A.fn, f, first, A.channels)

(* An adapter of a controller in compatibility mode which has lost its     *)
(* first channel has met a refusal.                                        *)
Lost(A) == A.channels # <<>> /\ AdapterChannels(A.fn) > 1 /\ "P1" \notin PortsOf(A.channels)

(* The ports of a channel. *)
LEMMA MadePorts ==
  ASSUME machine \in Machines, Wired(machine), NEW A, NEW f, NEW first, Made(A, f, first),
         NEW c \in DOMAIN A.channels, NEW u, u = A.channels[c]
  PROVE  /\ c \in Nat \ {0} /\ c - 1 \in 0 .. AdapterChannels(A.fn) - 1 /\ (first = 1 => AdapterChannels(A.fn) <= 1)
         /\ ChannelOf(u, A.fn, f, c - 1, first)
         /\ AtHome(Chip(A.fn)) => c - 1 \in 0 .. 1
         /\ u.port \subseteq {"P1", "P2"} /\ u.port \subseteq PortsOf(A.channels)
PROOF
<1> DEFINE n == AdapterChannels(A.fn)
           b == c - 1
<1>1. A.fn \in Fns /\ Pairs(machine) /\ first \in {0, 1}
  BY DEF Made, Storage, Fns, Wired
<1>2. n \in Int
  BY <1>1, CountIs
<1>3. A.channels # <<>>
  OBVIOUS
<1>4. DOMAIN A.channels = 1 .. n /\ (first = 1 => n <= 1) /\ ChannelOf(u, A.fn, f, c - 1, first)
  BY <1>3 DEF Made, Chans
<1>5. c \in Nat \ {0} /\ b \in 0 .. n - 1
  BY <1>2, <1>4
<1>6. AtHome(Chip(A.fn)) => b \in 0 .. 1
  <2>1. AtHome(Chip(A.fn)) => n <= 2
    BY <1>1, HomeCount
  <2> QED BY <1>2, <1>5, <2>1
<1>7. u.port \subseteq {"P1", "P2"}
  <2>1. CASE u.port = {}
    BY <2>1
  <2>2. CASE u.port # {}
    <3>1. AtHome(Chip(A.fn)) /\ u.port = {Port(first + b)}
      BY <1>4, <2>2, ChannelParts
    <3>2. first + b \in {0, 1}
      BY <1>1, <1>2, <1>4, <1>5, <1>6, <3>1
    <3> QED BY <3>1, <3>2, PortIs
  <2> QED BY <2>1, <2>2
<1>8. u.port \subseteq PortsOf(A.channels)
  BY DEF PortsOf
<1> QED BY <1>4, <1>5, <1>6, <1>7, <1>8

(* Two adapters of PCI controllers, apart from their ports. *)
LEMMA PairApart ==
  ASSUME machine \in Machines, Wired(machine), NEW A, NEW B, NEW f, NEW g, NEW first, NEW second,
         Made(A, f, first), Made(B, g, second),
         A.fn # B.fn => f # g \/ (f = A.fn /\ Compat(f)),
         A.fn = B.fn => /\ Compat(A.fn) /\ f = A.fn /\ g = A.fn /\ AdapterChannels(A.fn) <= 1
                        /\ PortsOf(A.channels) \cap PortsOf(B.channels) = {},
         NEW c \in DOMAIN A.channels, NEW d \in DOMAIN B.channels,
         NEW u, NEW v, u = A.channels[c], v = B.channels[d]
  PROVE  /\ CrossApart(u, v)
         /\ u.sata \cap v.sata = {} \/ (Twin(A.fn, B.fn) /\ Twin(B.fn, A.fn) /\ (Compat(A.fn) \/ Compat(B.fn)))
PROOF
<1> DEFINE k == A.fn
           l == B.fn
           b == c - 1
           e == d - 1
<1>1. /\ k \in Storage(machine) /\ l \in Storage(machine) /\ f \in Storage(machine) /\ g \in Storage(machine)
      /\ Twin(f, k) /\ Twin(g, l) /\ first \in {0, 1} /\ second \in {0, 1}
      /\ Distinct(machine) /\ SameMaps(machine) /\ PortsAtHome(machine)
  BY DEF Made, Wired
<1>2. /\ b \in 0 .. AdapterChannels(k) - 1 /\ ChannelOf(u, k, f, b, first) /\ (AtHome(Chip(k)) => b \in 0 .. 1)
      /\ u.port \subseteq {"P1", "P2"} /\ u.port \subseteq PortsOf(A.channels)
  BY MadePorts
<1>3. /\ e \in 0 .. AdapterChannels(l) - 1 /\ ChannelOf(v, l, g, e, second) /\ (AtHome(Chip(l)) => e \in 0 .. 1)
      /\ v.port \subseteq {"P1", "P2"} /\ v.port \subseteq PortsOf(B.channels)
  BY MadePorts
<1>4. \A x \in Storage(machine) : Compat(x) => AtHome(Chip(x))
  BY <1>1 DEF PortsAtHome, Storage, Compat, Chip, Fn
<1>t. \A x, y \in Storage(machine) : Twin(x, y) => Twin(y, x)
  BY DEF Twin, Storage, Fn
<1>5. CASE k # l /\ f # g
  <2> HIDE DEF k, l, b, e
  <2>1. CrossApart(u, v) /\ u.sata \cap v.sata = {}
    BY <1>1, <1>2, <1>3, <1>5, OthersApart
  <2> QED BY <2>1
<1>6. CASE k # l /\ f = g
  <2>1. f = k /\ Compat(k)
    BY <1>6
  <2>2. AtHome(Chip(k))
    BY <1>1, <1>4, <2>1
  <2>3. AtHome(Chip(l))
    <3>1. Chip(k).vendor = Chip(l).vendor /\ Chip(k).dev = Chip(l).dev
      BY <1>1, <1>6, <2>1 DEF Twin
    <3>2. OwnMap(Chip(k)) = OwnMap(Chip(l)) /\ UsesAhci(Chip(k)) = UsesAhci(Chip(l))
      BY <1>1, <3>1 DEF SameMaps, Chip, Fn
    <3> QED BY <2>2, <3>2 DEF AtHome
  <2>4. Twin(k, l) /\ Twin(l, k)
    BY <1>1, <1>6, <1>t, <2>1
  <2> HIDE DEF k, l, b, e
  <2>5. ChannelOf(u, k, k, b, first) /\ ChannelOf(v, l, k, e, second) /\ b \in 0 .. 1 /\ e \in 0 .. 1
        /\ u.port \cup v.port \subseteq {"P1", "P2"}
    BY <1>2, <1>3, <1>6, <2>1, <2>2, <2>3
  <2>6. CrossApart(u, v)
    BY <1>1, <1>6, <2>1, <2>2, <2>3, <2>5, TwinApart
  <2> QED BY <2>1, <2>4, <2>6 DEF k, l
<1>7. CASE k = l
  <2>1. /\ Compat(k) /\ f = k /\ g = k /\ AdapterChannels(k) <= 1
        /\ PortsOf(A.channels) \cap PortsOf(B.channels) = {}
    BY <1>7
  <2>2. b = 0 /\ e = 0
    <3>1. AdapterChannels(k) \in Int
      <4>1. k \in Fns
        BY <1>1 DEF Storage, Fns
      <4> QED BY <4>1, CountIs
    <3>2. b \in 0 .. AdapterChannels(k) - 1 /\ e \in 0 .. AdapterChannels(k) - 1 /\ AdapterChannels(k) <= 1
      BY <1>2, <1>3, <1>7, <2>1
    <3> DEFINE n == AdapterChannels(k)
    <3> HIDE DEF n, b, e
    <3>3. n \in Int /\ n <= 1 /\ b \in 0 .. n - 1 /\ e \in 0 .. n - 1
      BY <3>1, <3>2 DEF n
    <3> QED BY <3>3
  <2>3. u.port \cap v.port = {}
    <3>1. u.port \subseteq PortsOf(A.channels) /\ v.port \subseteq PortsOf(B.channels)
      BY <1>2, <1>3
    <3>2. PortsOf(A.channels) \cap PortsOf(B.channels) = {}
      BY <2>1
    <3> QED BY <3>1, <3>2
  <2>4. Twin(k, l) /\ Twin(l, k)
    BY <1>1, <1>7 DEF Twin, Storage, Fn
  <2>5. ChannelOf(u, k, k, 0, first) /\ ChannelOf(v, k, k, 0, second) /\ AtHome(Chip(k))
    <3>1. ChannelOf(u, k, f, b, first) /\ ChannelOf(v, l, g, e, second)
      BY <1>2, <1>3
    <3> QED BY <1>1, <1>4, <1>7, <2>1, <2>2, <3>1
  <2> HIDE DEF k, b, e
  <2>6. CrossApart(u, v)
    BY <1>1, <2>1, <2>3, <2>5, HalvesApart
  <2> QED BY <2>1, <2>4, <2>6 DEF k
<1> QED BY <1>5, <1>6, <1>7

(* A port of the ISA search which no PCI controller has. *)
LEMMA IsaApart ==
  ASSUME machine \in Machines, Wired(machine), NEW A, NEW f, NEW first, Made(A, f, first),
         NEW p \in {"P1", "P2", "P3", "P4"}, p \notin PortsOf(A.channels),
         NEW c \in DOMAIN A.channels, NEW u, u = A.channels[c]
  PROVE  (u.cmd \cup u.bm \cup u.sata) \cap LegacyRegs(p) = {}
PROOF
<1> DEFINE k == A.fn
           b == c - 1
<1>1. k \in Storage(machine) /\ f \in Storage(machine) /\ Distinct(machine)
  BY DEF Made, Wired
<1>2. ChannelOf(u, k, f, b, first) /\ u.port \subseteq PortsOf(A.channels)
  BY MadePorts
<1> HIDE DEF k, b
<1>3. /\ \A t \in u.bm \cup u.sata : Ranged(k, f, t)
      /\ u.port = {} => \A t \in u.cmd : Ranged(k, f, t)
      /\ u.port # {} => \E q : u.port = {q} /\ u.cmd = LegacyRegs(q)
  BY <1>2, ChannelParts
<1>4. \A t : Ranged(k, f, t) => t \notin LegacyRegs(p)
  BY <1>1, NotPort, PortIs
<1>5. \A q : q # p => LegacyRegs(q) \cap LegacyRegs(p) = {}
  BY DEF LegacyRegs
<1> QED BY <1>2, <1>3, <1>4, <1>5

(* What a start makes: the adapter begins with the channel, the ports it   *)
(* has are claimed, and one that has lost its first channel met a refusal. *)
LEMMA FoundMade ==
  ASSUME machine \in Machines, Wired(machine), NEW k \in Storage(machine), NEW f \in Storage(machine), Twin(f, k),
         NEW channel \in {0, 1}, channel = 1 => Compat(k), NEW alt, NEW claims,
         NEW found \in FindController(k, f, channel, alt, claims)
  PROVE  /\ own \subseteq found.own
         /\ found.found =>
              /\ Chans(k, f, channel, found.adapter)
              /\ PortsOf(found.adapter) \subseteq found.own
              /\ ~Claimed(k, channel, alt, claims)
              /\ Compat(k) /\ found.adapter # <<>> /\ AdapterChannels(k) > 1 /\ "P1" \notin PortsOf(found.adapter) => found.bad
PROOF
<1> DEFINE n == AdapterChannels(k)
<1>1. k \in Fns /\ PortsAtHome(machine) /\ n \in Int
  <2>1. k \in Fns
    BY DEF Storage, Fns
  <2> QED BY <2>1, CountIs DEF Wired
<1>2. CASE found = NotFound
  BY <1>2 DEF NotFound
<1>3. CASE found = [NotFound EXCEPT !.found = TRUE, !.firstOk = TRUE] /\ ~Claimed(k, channel, alt, claims)
  <2>1. found.own = own /\ found.adapter = <<>>
    BY <1>3 DEF NotFound
  <2>2. PortsOf(<<>>) = {}
    BY DEF PortsOf
  <2> QED BY <1>3, <2>1, <2>2 DEF Chans
<1>4. CASE /\ ~Claimed(k, channel, alt, claims) /\ ~(channel > 0 /\ n > 1)
           /\ \E r : found = MapChannels(k, f, channel, n, r)
  <2>1. PICK r : found = MapChannels(k, f, channel, n, r)
    BY <1>4
  <2> DEFINE stop == IF r[1] = "control" THEN r[2] ELSE n
             usable == {c \in 0 .. n - 1 : c < stop /\ HasPorts(k, c) /\ r # <<"ports", c>>}
             chans == [c \in 1 .. n |-> IF c - 1 \in usable THEN ChannelRegs(k, f, c - 1, channel) ELSE NoChannel]
  <2>2. /\ found.own = own \cup UNION {Claims(k, c, channel) : c \in usable}
        /\ found.adapter = chans /\ found.bad = (r[1] # "none")
        /\ found.found = (usable # {} /\ stop = n /\ r[1] # "interrupt")
    BY <2>1 DEF MapChannels
  <2>3. channel = 1 => n <= 1
    BY <1>1, <1>4
  <2>4. ASSUME usable # {} PROVE Len(chans) = n /\ DOMAIN chans = 1 .. n
    <3>1. n \in Nat
      <4>1. PICK c : c \in 0 .. n - 1
        BY <2>4
      <4> QED BY <1>1, <4>1
    <3> DEFINE R == {ChannelRegs(k, f, c - 1, channel) : c \in 1 .. n} \cup {NoChannel}
    <3>2. chans \in [1 .. n -> R]
      OBVIOUS
    <3> HIDE DEF R, chans, n
    <3> QED BY <3>1, <3>2
  <2>5. ASSUME NEW c \in 1 .. n PROVE ChannelOf(chans[c], k, f, c - 1, channel)
    BY DEF ChannelOf
  <2>6. ASSUME NEW p \in PortsOf(chans) PROVE p \in found.own
    <3>1. PICK c \in 1 .. n : p \in chans[c].port
      BY DEF PortsOf
    <3>2. c - 1 \in usable /\ p \in ChannelRegs(k, f, c - 1, channel).port
      <4>1. NoChannel.port = {}
        BY DEF NoChannel
      <4> HIDE DEF usable
      <4>2. chans[c] = IF c - 1 \in usable THEN ChannelRegs(k, f, c - 1, channel) ELSE NoChannel
        OBVIOUS
      <4> QED BY <3>1, <4>1, <4>2
    <3>3. PICK b : b = c - 1
      OBVIOUS
    <3>4. AtHome(Chip(k)) /\ Home(k) /\ p = Port(channel + b)
      BY <3>2, <3>3 DEF ChannelRegs, AtHome, Home
    <3>5. p \in Claims(k, b, channel)
      <4>1. CASE Compat(k)
        BY <3>4, <4>1 DEF Claims
      <4>2. CASE ~Compat(k)
        <5>1. channel = 0 /\ channel + b = b
          BY <1>1, <3>3, <4>2
        <5> QED BY <3>4, <4>2, <5>1 DEF Claims, AtHome, Home
      <4> QED BY <4>1, <4>2
    <3> HIDE DEF usable
    <3> QED BY <2>2, <3>2, <3>3, <3>5
  <2>7. ASSUME Compat(k), usable # {}, n > 1, ~found.bad
        PROVE  "P1" \in PortsOf(chans)
    <3>1. r[1] = "none" /\ stop = n
      BY <2>2, <2>7
    <3>2. 0 \in usable
      <4>1. r # <<"ports", 0>> /\ HasPorts(k, 0) /\ 0 < n /\ 0 \in 0 .. n - 1
        BY <1>1, <2>7, <3>1 DEF HasPorts
      <4> QED BY <3>1, <4>1
    <3>3. channel = 0
      BY <1>1, <2>3, <2>7
    <3>4. 1 \in 1 .. n /\ 1 - 1 = 0
      BY <1>1, <2>7
    <3>5. chans[1] = ChannelRegs(k, f, 0, 0) /\ 1 \in DOMAIN chans
      <4> HIDE DEF usable
      <4> QED BY <3>2, <3>3, <3>4
    <3>6. AtHome(Chip(k))
      BY <1>1, <2>7 DEF PortsAtHome, Compat, Fns, Fn, Chip
    <3>7. ChannelRegs(k, f, 0, 0).port = {Port(0 + 0)}
      BY <2>7, <3>6 DEF ChannelRegs, AtHome
    <3> HIDE DEF chans
    <3> QED BY <3>5, <3>7, PortIs DEF PortsOf
  <2> HIDE DEF chans, usable, stop, n
  <2>8. Chans(k, f, channel, chans) \/ usable = {}
    BY <2>3, <2>4, <2>5 DEF Chans, n
  <2> QED BY <1>4, <2>2, <2>6, <2>7, <2>8 DEF n
<1> QED BY <1>2, <1>3, <1>4 DEF FindController

(* The registers of two adapters, one made after the other.                *)
LEMMA PairFrom ==
  ASSUME machine \in Machines, Wired(machine), machine' = machine, NEW A, NEW B, NEW f, NEW g, NEW first, NEW second,
         Made(A, f, first), Made(B, g, second),
         A.fn # B.fn => f # g \/ (f = A.fn /\ Compat(f)),
         A.fn = B.fn => /\ Compat(A.fn) /\ f = A.fn /\ g = A.fn /\ AdapterChannels(A.fn) <= 1
                        /\ PortsOf(A.channels) \cap PortsOf(B.channels) = {},
         "P1" \notin PortsOf(A.channels) \cap PortsOf(B.channels),
         "P2" \in PortsOf(A.channels) \cap PortsOf(B.channels) =>
           Compat(A.fn) /\ Compat(B.fn) /\ (Len(B.channels) > 1 \/ (IsNt /\ Len(A.channels) > 1)),
         NEW c \in DOMAIN A.channels, NEW d \in DOMAIN B.channels
  PROVE  PairOk(A, B, A.channels[c], B.channels[d])'
PROOF
<1>1. PICK u : u = A.channels[c]
  OBVIOUS
<1>2. PICK v : v = B.channels[d]
  OBVIOUS
<1>3. /\ CrossApart(u, v)
      /\ u.sata \cap v.sata = {} \/ (Twin(A.fn, B.fn) /\ Twin(B.fn, A.fn) /\ (Compat(A.fn) \/ Compat(B.fn)))
  BY <1>1, <1>2, PairApart
<1>4. u.port \subseteq {"P1", "P2"} /\ u.port \subseteq PortsOf(A.channels) /\ v.port \subseteq PortsOf(B.channels)
  BY <1>1, <1>2, MadePorts
<1>5. u.port \cap v.port = {} \/ "P2" \in u.port \cap v.port
  BY <1>4
<1>6. A.fn # 0 /\ B.fn # 0
  BY MachineIs DEF Made, Storage
<1>7. Compat(A.fn)' = Compat(A.fn) /\ Compat(B.fn)' = Compat(B.fn) /\ Twin(A.fn, B.fn)' = Twin(A.fn, B.fn)
      /\ Twin(B.fn, A.fn)' = Twin(B.fn, A.fn) /\ IsNt' = IsNt
  BY DEF Compat, Fn, Switched, Option, Chip, Twin, IsNt
<1>8. \/ (u.cmd \cup u.bm) \cap (v.cmd \cup v.bm) = {}
      \/ /\ Compat(A.fn) /\ Compat(B.fn) /\ (Len(B.channels) > 1 \/ (IsNt /\ Len(A.channels) > 1))
         /\ (u.cmd \cup u.bm) \cap (v.cmd \cup v.bm) = LegacyRegs("P2")
  <2>1. CASE u.port \cap v.port = {}
    BY <1>3, <2>1 DEF CrossApart
  <2>2. CASE "P2" \in u.port \cap v.port
    BY <1>3, <1>4, <2>2 DEF CrossApart
  <2> QED BY <1>5, <2>1, <2>2
<1>9. u.bm \cap v.bm = {} /\ u.sata \cap (v.cmd \cup v.bm) = {} /\ v.sata \cap (u.cmd \cup u.bm) = {}
  BY <1>3 DEF CrossApart
<1>10. PairOk(A, B, u, v)'
  BY <1>3, <1>6, <1>7, <1>8, <1>9 DEF PairOk
<1> QED BY <1>1, <1>2, <1>10

(* The channels of an adapter. *)
LEMMA MadeChips ==
  ASSUME machine \in Machines, Wired(machine), NEW A, NEW f, NEW first, Made(A, f, first),
         NEW c \in DOMAIN A.channels, NEW d \in DOMAIN A.channels, c # d
  PROVE  ChipOk(A, c, d)
PROOF
<1> DEFINE k == A.fn
<1>1. k \in Storage(machine) /\ f \in Storage(machine) /\ first \in {0, 1} /\ k # 0
  BY MachineIs DEF Made, Storage
<1>2. PICK u : u = A.channels[c]
  OBVIOUS
<1>3. PICK v : v = A.channels[d]
  OBVIOUS
<1>4. PICK b : b = c - 1
  OBVIOUS
<1>5. PICK e : e = d - 1
  OBVIOUS
<1>6. /\ c \in Nat /\ b \in 0 .. AdapterChannels(k) - 1 /\ ChannelOf(u, k, f, b, first)
      /\ first = 1 => AdapterChannels(k) <= 1
  BY <1>2, <1>4, MadePorts
<1>7. d \in Nat /\ e \in 0 .. AdapterChannels(k) - 1 /\ ChannelOf(v, k, f, e, first)
  BY <1>3, <1>5, MadePorts
<1>8. b # e /\ (e > 1 <=> d > 2)
  BY <1>4, <1>5, <1>6, <1>7
<1> DEFINE chip == Chip(k)
           ali == OwnMap(chip) /\ chip.vendor = "ali"
           sii == OwnMap(chip) /\ chip.vendor \in {"sii", "ati"}
           pro == OwnMap(chip) /\ chip.vendor = "promise"
<1>9. ChannelApart(u, v, ali, sii, pro /\ e > 1)
  <2>1. CASE u = NoChannel \/ v = NoChannel
    BY <2>1 DEF NoChannel, ChannelApart
  <2>2. CASE u = ChannelRegs(k, f, b, first) /\ v = ChannelRegs(k, f, e, first)
    <3> HIDE DEF k
    <3>1. ChannelApart(ChannelRegs(k, f, b, first), ChannelRegs(k, f, e, first), ali, sii, pro /\ e > 1)
      BY <1>1, <1>6, <1>7, <1>8, ChannelsApart
    <3> QED BY <2>2, <3>1
  <2> QED BY <1>6, <1>7, <2>1, <2>2 DEF ChannelOf
<1> QED BY <1>1, <1>2, <1>3, <1>8, <1>9 DEF ChipOk, ChannelApart

(* The enumeration lists a function once, and never marks an entry for a   *)
(* start without the port driver: the passes which list begin anew.        *)
Listed ==
  /\ \A j, l \in DOMAIN list : j # l => list[j].fn # list[l].fn
  /\ \A j \in DOMAIN list : list[j].alt = FALSE
  /\ phase = "enum" => /\ \A j \in DOMAIN list : list[j].master => pass # 0 /\ (pass = 1 => list[j].fn < pos)
                       /\ pass # 0 => short = FALSE

(* Every step keeps that. *)
LEMMA ListedStep ==
  ASSUME Typed, Enumerated, Listed, [Next]_vars
  PROVE  Listed'
PROOF
<1>t. Len(list) \in Nat /\ DOMAIN list = 1 .. Len(list)
  BY TypedIs
<1>1. CASE EnumFunction
  <2>1. phase = "enum" /\ pos \in Fns /\ pos' = pos + 1 /\ phase' = phase /\ pass' = pass
    BY <1>1 DEF EnumFunction
  <2>2. pos \in Nat /\ pass \in 0 .. 2
    BY <2>1, TypedIs DEF Typed, Fns
  <2>3. \A j \in DOMAIN list : list[j].fn \in Int /\ list[j].master = Compat(list[j].fn)
    <3>1. \A j \in DOMAIN list : list[j].fn \in Fns
      BY DEF Typed, Entries
    <3> QED BY <3>1, TypedIs DEF Typed, Entries, Fns
  <2>4. /\ \A j \in DOMAIN list : list[j].master => pass # 0 /\ (pass = 1 => list[j].fn < pos)
        /\ \A j \in DOMAIN list : ~list[j].master => pass = 2 /\ list[j].fn < pos
        /\ pass # 0 => short = FALSE
    BY <2>1 DEF Listed, Enumerated
  <2>5. \A j \in DOMAIN list : list[j].master => pass # 0 /\ (pass = 1 => list[j].fn < pos + 1)
    BY <2>2, <2>3, <2>4
  <2>6. CASE pass = 0
    <3>1. list' = list
      BY <1>1, <2>6 DEF EnumFunction
    <3> QED BY <2>1, <2>5, <2>6, <3>1 DEF Listed
  <2>7. CASE pass # 0
    <3> DEFINE before == short /\ pos > 1 /\ Fn(pos - 1).slot = Fn(pos).slot
    <3>1. /\ short' = before
          /\ list' = IF pos \in mapped /\ ListedIn(pos, pass) THEN Append(list, Entry(pos, before)) ELSE list
      BY <1>1, <2>7 DEF EnumFunction
    <3>2. before = FALSE
      BY <2>4, <2>7
    <3>3. CASE list' = list
      BY <2>1, <2>5, <3>1, <3>2, <3>3 DEF Listed
    <3>4. CASE list' = Append(list, Entry(pos, before)) /\ ListedIn(pos, pass)
      <4>1. /\ DOMAIN list' = 1 .. Len(list) + 1
            /\ \A a \in 1 .. Len(list) : list'[a] = list[a]
            /\ list'[Len(list) + 1] = Entry(pos, before)
        BY <3>4, AppendIs DEF Typed
      <4>2. Entry(pos, before).fn = pos /\ Entry(pos, before).master = Compat(pos) /\ Entry(pos, before).alt = FALSE
        BY <3>2 DEF Entry
      <4>3. ASSUME NEW j \in DOMAIN list PROVE list[j].fn # pos
        <5>1. CASE list[j].master
          <6>1. CASE pass = 1
            BY <2>2, <2>3, <2>4, <5>1, <6>1
          <6>2. CASE pass = 2
            <7>1. ~Compat(pos) /\ Compat(list[j].fn)
              BY <2>3, <3>4, <5>1, <6>2 DEF ListedIn
            <7> QED BY <7>1
          <6> QED BY <2>2, <2>7, <6>1, <6>2
        <5>2. CASE ~list[j].master
          BY <2>2, <2>3, <2>4, <5>2
        <5> QED BY <5>1, <5>2
      <4>4. ASSUME NEW j \in DOMAIN list'
            PROVE  \/ j \in DOMAIN list /\ list'[j] = list[j]
                   \/ /\ j = Len(list) + 1 /\ list'[j].fn = pos /\ list'[j].alt = FALSE
                      /\ list'[j].master = Compat(pos)
        BY <1>t, <4>1, <4>2
      <4>5. ASSUME NEW j \in DOMAIN list', NEW l \in DOMAIN list', j # l PROVE list'[j].fn # list'[l].fn
        <5>1. \A a, b \in DOMAIN list : a # b => list[a].fn # list[b].fn
          BY DEF Listed
        <5> QED BY <4>3, <4>4, <4>5, <5>1
      <4>6. \A j \in DOMAIN list' : list'[j].alt = FALSE
        BY <4>4 DEF Listed
      <4>7. ASSUME NEW j \in DOMAIN list', list'[j].master PROVE pass # 0 /\ (pass = 1 => list'[j].fn < pos + 1)
        <5>1. CASE j \in DOMAIN list /\ list'[j] = list[j]
          BY <2>5, <4>7, <5>1
        <5>2. CASE list'[j].fn = pos
          BY <2>2, <2>7, <5>2
        <5> QED BY <4>4, <5>1, <5>2
      <4> QED BY <2>1, <3>1, <3>2, <4>5, <4>6, <4>7 DEF Listed
    <3> QED BY <3>1, <3>3, <3>4
  <2> QED BY <2>6, <2>7
<1>2. CASE EnumPass
  <2>1. /\ phase = "enum" /\ list' = list /\ short' = FALSE
        /\ phase' = "master" \/ (pass # 2 /\ pass' = pass + 1)
    BY <1>2 DEF EnumPass
  <2>2. pass \in 0 .. 2
    BY <2>1 DEF Typed
  <2>3. CASE phase' = "master"
    BY <2>1, <2>3 DEF Listed
  <2>4. CASE pass # 2 /\ pass' = pass + 1
    <3>1. \A j \in DOMAIN list : list[j].master => pass # 0
      BY <2>1 DEF Listed
    <3>2. pass' # 0 /\ (pass' = 1 => pass = 0)
      BY <2>2, <2>4
    <3> QED BY <2>1, <3>1, <3>2 DEF Listed
  <2> QED BY <2>1, <2>3, <2>4
<1>3. CASE MasterHead \/ TryChannel \/ StartNative \/ FindIsaController \/ EndOfBus
  <2>1. list' = list /\ phase' # "enum"
    BY <1>3 DEF MasterHead, ToNative, TryChannel, NextTry, StartNative, FindIsaController, EndOfBus
  <2> QED BY <2>1 DEF Listed
<1>4. CASE UNCHANGED vars
  BY <1>4 DEF Listed, vars
<1> QED BY <1>1, <1>2, <1>3, <1>4 DEF Next

-----------------------------------------------------------------------------
(* The adapters of the ISA search. *)
IsIsa(A) ==
  /\ A.fn = 0
  /\ phase \in {"isa", "mca", "done"} /\ (phase = "isa" => machine.bus = "isa")
  /\ \E q \in 1 .. 4 : A.channels = <<IsaChannel(AdapterAddresses[q])>> /\ (phase = machine.bus => q <= pass)

(* Until the native loop every adapter is of a controller in compatibility *)
(* mode, with its own ranges; then a function is offered once.             *)
Early == phase \in {"enum", "master", "try"}

MadeOf(A, f, first) ==
  /\ Made(A, f, first)
  /\ f \in given \/ (f = A.fn /\ Compat(f))
  /\ Early => f = A.fn /\ Compat(f)
  /\ Compat(A.fn) /\ Lost(A) => A.fn \in hit

(* The claims that protect the ports of an adapter. Under NT the claim of  *)
(* the second port may be withdrawn.                                       *)
Claimed1(A) == "P1" \in PortsOf(A.channels) => "P1" \in sys
Claimed2(A) ==
  "P2" \in PortsOf(A.channels) => "P2" \in sys \/ (IsNt /\ (Len(A.channels) > 1 \/ "P2" \in seen))

(* While a controller is tried under NT, the ports of others are among     *)
(* those seen; its own adapter, if there is one, has the first channel.    *)
InTry(A) ==
  IF A.fn = list[i].fn
  THEN pos = 1 /\ started # {} /\ (Len(A.channels) <= 1 => "P2" \notin PortsOf(A.channels))
  ELSE /\ "P1" \in PortsOf(A.channels) => "P1" \in seen
       /\ "P2" \in PortsOf(A.channels) => "P2" \in seen \/ Len(A.channels) > 1

PlacedIn(A) == \E j \in DOMAIN list : list[j].fn = A.fn /\ (j < i \/ (phase = "try" /\ j = i))

IsPci(A) ==
  /\ A.fn # 0 /\ phase # "enum"
  /\ \E f, first : MadeOf(A, f, first)
  /\ PortsOf(A.channels) \subseteq own
  /\ Compat(A.fn) => Claimed1(A) /\ Claimed2(A)
  /\ phase = "try" /\ IsNt => InTry(A)
  /\ phase \in {"master", "try", "native"} => PlacedIn(A)

Owners == OneOwner /\ \A A \in AdapterSet : IsIsa(A) \/ IsPci(A)

(* What does not change with the machine. *)
LEMMA SameMade ==
  ASSUME machine' = machine
  PROVE  /\ \A A, f, first : Made(A, f, first)' <=> Made(A, f, first)
         /\ \A A : Lost(A)' <=> Lost(A)
         /\ \A k : Compat(k)' = Compat(k)
         /\ IsNt' <=> IsNt
         /\ \A c : PortsOf(c)' = PortsOf(c)
PROOF
<1>1. /\ \A k : Compat(k)' = Compat(k) /\ AdapterChannels(k)' = AdapterChannels(k) /\ Fn(k)' = Fn(k) /\ Chip(k)' = Chip(k)
      /\ IsNt' = IsNt
  BY DEF Compat, Fn, Switched, Option, Chip, AdapterChannels, OneForBoth, IsNt
<1>2. \A u, k, f, c, first : ChannelOf(u, k, f, c, first)' <=> ChannelOf(u, k, f, c, first)
  <2>1. \A k, f, r : Ranges(k, f, r)' = Ranges(k, f, r)
    BY <1>1 DEF Ranges
  <2>2. ASSUME NEW k, NEW f, NEW c, NEW first PROVE ChannelRegs(k, f, c, first)' = ChannelRegs(k, f, c, first)
    <3>1. Chip(k)' = Chip(k) /\ Compat(k)' = Compat(k) /\ Fn(k)' = Fn(k)
      BY <1>1
    <3>2. CASE AtHome(Chip(k))
      BY <2>1, <3>1, <3>2 DEF ChannelRegs, AtHome
    <3>3. CASE ~AtHome(Chip(k))
      BY <2>1, <3>1, <3>3 DEF ChannelRegs, AtHome
    <3> QED BY <3>2, <3>3
  <2> QED BY <2>2 DEF ChannelOf
<1>3. \A k, f, first, chans : Chans(k, f, first, chans)' <=> Chans(k, f, first, chans)
  BY <1>1, <1>2 DEF Chans
<1>4. \A f, k : Twin(f, k)' <=> Twin(f, k)
  BY <1>1 DEF Twin
<1>5. \A A, f, first : Made(A, f, first)' <=> Made(A, f, first)
  BY <1>1, <1>3, <1>4 DEF Made
<1>6. \A A : Lost(A)' <=> Lost(A)
  BY <1>1 DEF Lost
<1> QED BY <1>1, <1>5, <1>6

(* The ports of an adapter: none unless its controller is at the legacy    *)
(* addresses, one if it has one channel, the second if it begins there.    *)
LEMMA PortsAre ==
  ASSUME machine \in Machines, Wired(machine), NEW A, NEW f, NEW first, Made(A, f, first)
  PROVE  /\ Len(A.channels) \in Int
         /\ AdapterChannels(A.fn) <= 1 => Len(A.channels) <= 1
         /\ PortsOf(A.channels) \subseteq {"P1", "P2"}
         /\ PortsOf(A.channels) # {} => Home(A.fn) /\ AtHome(Chip(A.fn))
         /\ Len(A.channels) <= 1 => PortsOf(A.channels) \subseteq {Port(first)}
         /\ first = 1 => PortsOf(A.channels) \subseteq {"P2"}
         /\ A.channels = <<>> => PortsOf(A.channels) = {}
PROOF
<1> DEFINE n == AdapterChannels(A.fn)
<1>1. A.fn \in Fns /\ first \in {0, 1} /\ Chans(A.fn, f, first, A.channels)
  BY DEF Made, Storage, Fns
<1>2. n \in Int
  BY <1>1, CountIs
<1>3. CASE A.channels = <<>>
  <2>1. Len(A.channels) = 0 /\ PortsOf(A.channels) = {}
    BY <1>3 DEF PortsOf
  <2> QED BY <2>1
<1>4. CASE A.channels # <<>>
  <2>1. DOMAIN A.channels = 1 .. n /\ Len(A.channels) = n /\ (first = 1 => n <= 1)
    BY <1>1, <1>4 DEF Chans
  <2>2. ASSUME NEW p \in PortsOf(A.channels)
        PROVE  /\ p \in {"P1", "P2"} /\ Home(A.fn) /\ AtHome(Chip(A.fn))
               /\ n <= 1 => p = Port(first)
    <3>1. PICK c \in DOMAIN A.channels : p \in A.channels[c].port
      BY DEF PortsOf
    <3>2. PICK u : u = A.channels[c]
      OBVIOUS
    <3>3. PICK b : b = c - 1
      OBVIOUS
    <3>4. /\ b \in 0 .. n - 1 /\ ChannelOf(u, A.fn, f, b, first) /\ u.port \subseteq {"P1", "P2"}
      BY <3>2, <3>3, MadePorts
    <3>5. Home(A.fn) /\ AtHome(Chip(A.fn)) /\ u.port = {Port(first + b)}
      BY <3>1, <3>2, <3>4, ChannelParts
    <3>6. ASSUME n <= 1 PROVE p = Port(first)
      <4>1. b = 0
        BY <1>2, <3>4, <3>6
      <4>2. first + b = first
        BY <1>1, <4>1
      <4> QED BY <3>1, <3>2, <3>5, <4>2
    <3> QED BY <3>1, <3>2, <3>4, <3>5, <3>6
  <2>3. first = 1 => \A p \in PortsOf(A.channels) : p = "P2"
    BY <2>1, <2>2, PortIs
  <2> HIDE DEF n
  <2> QED BY <1>2, <1>4, <2>1, <2>2, <2>3 DEF n
<1> QED BY <1>3, <1>4

(* An adapter that was there before a step. *)
LEMMA KeptPci ==
  ASSUME NEW A, IsPci(A), machine' = machine, own \subseteq own', given \subseteq given', hit \subseteq hit',
         Early' => Early, phase' # "enum",
         Compat(A.fn) => Claimed1(A)' /\ Claimed2(A)',
         phase' = "try" /\ IsNt => InTry(A)',
         phase' \in {"master", "try", "native"} => PlacedIn(A)'
  PROVE  IsPci(A)'
PROOF
<1>1. /\ A.fn # 0 /\ PortsOf(A.channels) \subseteq own
      /\ \E f, first : MadeOf(A, f, first)
  BY DEF IsPci
<1>2. PICK f, first : MadeOf(A, f, first)
  BY <1>1
<1>3. /\ Made(A, f, first)' <=> Made(A, f, first)
      /\ Lost(A)' <=> Lost(A)
      /\ Compat(A.fn)' = Compat(A.fn) /\ Compat(f)' = Compat(f)
      /\ IsNt' <=> IsNt
      /\ PortsOf(A.channels)' = PortsOf(A.channels)
  BY SameMade
<1>4. MadeOf(A, f, first)'
  BY <1>2, <1>3 DEF MadeOf
<1>5. PortsOf(A.channels)' \subseteq own'
  BY <1>1, <1>3
<1> QED BY <1>1, <1>3, <1>4, <1>5 DEF IsPci

-----------------------------------------------------------------------------
(* The head of the loop over controllers in compatibility mode. *)
LEMMA HeadOwners ==
  ASSUME Typed, Listed, Owners, MasterHead
  PROVE  Owners'
PROOF
<1>1. /\ phase = "master" /\ UNCHANGED <<machine, list, sys, own, adapters>>
      /\ i' = i /\ given \subseteq given' /\ hit' = hit /\ phase' \in {"native", "try"} /\ seen \subseteq seen'
  BY DEF MasterHead, ToNative
<1>2. phase' = "try" => /\ seen' = seen \cup sys /\ i \in Nat \ {0} /\ ~(i > Len(list))
  BY <1>1 DEF MasterHead, ToNative, Typed
<1>3. OneOwner'
  BY <1>1, SameOwners DEF Owners
<1>4. AdapterSet' = AdapterSet
  BY <1>1 DEF AdapterSet
<1>5. ASSUME NEW A \in AdapterSet PROVE IsPci(A)'
  <2>1. IsPci(A) /\ Early /\ PlacedIn(A)
    BY <1>1 DEF Owners, IsIsa, IsPci, Early
  <2>2. Compat(A.fn) /\ Claimed1(A) /\ Claimed2(A)
    BY <2>1 DEF IsPci, MadeOf
  <2>3. PortsOf(A.channels)' = PortsOf(A.channels) /\ IsNt' = IsNt
    BY <1>1, SameMade DEF IsNt
  <2>4. Claimed1(A)' /\ Claimed2(A)'
    BY <1>1, <2>2, <2>3 DEF Claimed1, Claimed2
  <2>5. ASSUME phase' = "try" PROVE InTry(A)'
    <3>1. i \in DOMAIN list
      BY <1>2, <2>5, TypedIs
    <3>2. PICK j \in DOMAIN list : list[j].fn = A.fn /\ j < i
      BY <1>1, <2>1 DEF PlacedIn
    <3>3. A.fn # list'[i'].fn
      <4>1. j # i
        BY <3>1, <3>2, TypedIs
      <4> QED BY <1>1, <3>1, <3>2, <4>1 DEF Listed
    <3> QED BY <1>2, <2>2, <2>3, <2>5, <3>3 DEF InTry, Claimed1, Claimed2
  <2>6. PlacedIn(A)'
    BY <1>1, <2>1 DEF PlacedIn
  <2> QED BY <1>1, <2>1, <2>4, <2>5, <2>6, KeptPci
<1> QED BY <1>3, <1>4, <1>5 DEF Owners

(* The controller tried. *)
LEMMA TriedIs ==
  ASSUME Typed, InOrder, phase = "try"
  PROVE  /\ list[i].fn \in Storage(machine) /\ Compat(list[i].fn) /\ Twin(list[i].fn, list[i].fn)
         /\ i \in DOMAIN list /\ i \in Nat \ {0} /\ pos \in {0, 1} /\ machine \in Machines
PROOF
<1>1. i \in DOMAIN list /\ list[i].master /\ i \in Nat \ {0} /\ pos \in {0, 1} /\ machine \in Machines
  BY DEF Typed
<1>2. list[i].fn \in Fns /\ Compat(list[i].fn) /\ Fn(list[i].fn).kind = "storage"
  BY <1>1 DEF Typed, Entries, InOrder
<1> QED BY <1>1, <1>2 DEF Storage, Fns, Fn, Twin

(* Where the try goes on. *)
LEMMA NextTryIs ==
  ASSUME pos \in {0, 1}, phase = "try", NextTry(started')
  PROVE  /\ phase' \in {"try", "master"}
         /\ phase' = "try" => i' = i /\ (IF pos = 0 THEN pos' = 1 ELSE pos' = 0 /\ started' = {})
         /\ phase' = "master" => i' = i + 1
  BY DEF NextTry

(* The claims of the adapters that were there before a try. *)
LEMMA KeptTry ==
  ASSUME Typed, InOrder, Wired(machine), phase = "try", NextTry(started'),
         UNCHANGED <<machine, list, seen, given>>,
         started \subseteq started', own \subseteq own', hit \subseteq hit',
         sys \subseteq sys' \/ (IsNt /\ Port(pos) \notin seen /\ sys \ {Port(pos)} \subseteq sys'),
         NEW A, IsPci(A)
  PROVE  IsPci(A)'
PROOF
<1>0. pos \in {0, 1} /\ i \in Nat /\ machine \in Machines
  BY TriedIs
<1>1. /\ phase' \in {"try", "master"}
      /\ phase' = "try" => i' = i /\ (IF pos = 0 THEN pos' = 1 ELSE pos' = 0 /\ started' = {})
      /\ phase' = "master" => i' = i + 1
  BY <1>0, NextTryIs
<1>2. PICK f, first : MadeOf(A, f, first)
  BY DEF IsPci
<1>3. Compat(A.fn) /\ Claimed1(A) /\ Claimed2(A) /\ (IsNt => InTry(A)) /\ PlacedIn(A)
  BY <1>2 DEF IsPci, MadeOf, Early
<1>4. /\ PortsOf(A.channels)' = PortsOf(A.channels) /\ (IsNt' <=> IsNt)
      /\ Len(A.channels) \in Int
  BY <1>0, <1>2, SameMade, PortsAre DEF MadeOf
<1>5. Claimed1(A)'
  <2>1. ASSUME "P1" \in PortsOf(A.channels) PROVE "P1" \in sys'
    <3>1. "P1" \in sys
      BY <1>3, <2>1 DEF Claimed1
    <3>2. CASE sys \subseteq sys'
      BY <3>1, <3>2
    <3>3. CASE IsNt /\ Port(pos) \notin seen /\ sys \ {Port(pos)} \subseteq sys'
      <4>1. CASE pos = 1
        BY <3>1, <3>3, <4>1, PortIs
      <4>2. CASE pos = 0
        BY <1>3, <2>1, <3>3, <4>2, PortIs DEF InTry
      <4> QED BY <1>0, <4>1, <4>2
    <3> QED BY <3>2, <3>3
  <2> QED BY <1>4, <2>1 DEF Claimed1
<1>6. Claimed2(A)'
  <2>1. ASSUME "P2" \in PortsOf(A.channels)
        PROVE  "P2" \in sys' \/ (IsNt /\ (Len(A.channels) > 1 \/ "P2" \in seen))
    <3>1. "P2" \in sys \/ (IsNt /\ (Len(A.channels) > 1 \/ "P2" \in seen))
      BY <1>3, <2>1 DEF Claimed2
    <3>2. CASE sys \subseteq sys'
      BY <3>1, <3>2
    <3>3. CASE IsNt /\ Port(pos) \notin seen /\ sys \ {Port(pos)} \subseteq sys'
      <4>1. CASE pos = 0
        BY <3>1, <3>3, <4>1, PortIs
      <4>2. CASE pos = 1
        BY <1>3, <1>4, <2>1, <3>3, <4>2, PortIs DEF InTry
      <4> QED BY <1>0, <4>1, <4>2
    <3> QED BY <3>2, <3>3
  <2> QED BY <1>4, <2>1 DEF Claimed2
<1>7. ASSUME phase' = "try", IsNt PROVE InTry(A)'
  <2>1. A.fn # list[i].fn
    <3>1. A.fn = list[i].fn => pos = 1 /\ started # {}
      BY <1>3, <1>7 DEF InTry
    <3> QED BY <1>1, <1>7, <3>1
  <2>2. A.fn # list'[i'].fn
    BY <1>1, <1>7, <2>1
  <2> QED BY <1>3, <1>4, <1>7, <2>1, <2>2 DEF InTry
<1>8. PlacedIn(A)'
  <2>1. PICK j \in DOMAIN list : list[j].fn = A.fn /\ (j < i \/ j = i)
    BY <1>3 DEF PlacedIn
  <2>2. j \in Int
    BY TypedIs
  <2>3. j < i' \/ (phase' = "try" /\ j = i')
    BY <1>0, <1>1, <2>1, <2>2
  <2> QED BY <2>1, <2>3 DEF PlacedIn
<1>9. Early
  BY DEF Early
<1> QED BY <1>1, <1>5, <1>6, <1>7, <1>8, <1>9, KeptPci

(* The adapter of a try. *)
LEMMA TryMade ==
  ASSUME Typed, InOrder, Wired(machine), phase = "try", NextTry(started'),
         UNCHANGED <<machine, list, seen, given>>,
         NEW k, k = list[i].fn, NEW first, first = pos,
         NEW before, NEW alt, NEW found \in FindController(k, k, first, alt, before),
         NEW answer \in Answers(found), answer # "no",
         started' = IF answer = "now" THEN started \cup {pos} ELSE started,
         Accept(k, found, answer, before), NEW B, B = Adapter(k, found.adapter, answer)
  PROVE  /\ Made(B, k, first) /\ ~Claimed(k, first, alt, before) /\ B.fn = k
         /\ IsPci(B)'
PROOF
<1>0. /\ k \in Storage(machine) /\ Compat(k) /\ Twin(k, k) /\ i \in DOMAIN list /\ i \in Nat \ {0}
      /\ first \in {0, 1} /\ machine \in Machines /\ k # 0
  <2>1. /\ k \in Storage(machine) /\ Compat(k) /\ Twin(k, k) /\ i \in DOMAIN list /\ i \in Nat \ {0}
        /\ first \in {0, 1} /\ machine \in Machines
    BY TriedIs
  <2> QED BY <2>1, MachineIs DEF Storage
<1>1. /\ phase' \in {"try", "master"}
      /\ phase' = "try" => i' = i /\ (IF pos = 0 THEN pos' = 1 ELSE pos' = 0 /\ started' = {})
      /\ phase' = "master" => i' = i + 1
  BY <1>0, NextTryIs
<1>2. found.found /\ (IsNt => answer = "now") /\ answer \in {"now", "later"}
  BY DEF Answers
<1>3. B.fn = k /\ B.channels = found.adapter
  BY DEF Adapter
<1>4. /\ Chans(k, k, first, found.adapter)
      /\ PortsOf(found.adapter) \subseteq found.own
      /\ ~Claimed(k, first, alt, before)
      /\ found.adapter # <<>> /\ AdapterChannels(k) > 1 /\ "P1" \notin PortsOf(found.adapter) => found.bad
  BY <1>0, <1>2, FoundMade
<1>5. Made(B, k, first)
  BY <1>0, <1>3, <1>4 DEF Made
<1>6. /\ own' = found.own /\ sys' = Told(found.adapter, before)
      /\ found.bad => k \in hit'
  BY <1>2 DEF Accept
<1>7. /\ Made(B, k, first)' <=> Made(B, k, first)
      /\ Lost(B)' <=> Lost(B)
      /\ Compat(k)' = Compat(k) /\ (IsNt' <=> IsNt)
      /\ PortsOf(B.channels)' = PortsOf(B.channels)
  BY SameMade
<1>8. MadeOf(B, k, first)'
  <2>1. Lost(B) => k \in hit'
    BY <1>3, <1>4, <1>6 DEF Lost
  <2> QED BY <1>0, <1>3, <1>5, <1>7, <2>1 DEF MadeOf
<1>9. PortsOf(B.channels)' \subseteq own'
  BY <1>3, <1>4, <1>6, <1>7
<1>10. /\ PortsOf(B.channels) \subseteq {"P1", "P2"} /\ Len(B.channels) \in Int
       /\ Len(B.channels) <= 1 => PortsOf(B.channels) \subseteq {Port(first)}
  BY <1>0, <1>5, PortsAre
<1>11. Claimed1(B)' /\ Claimed2(B)'
  <2>1. PortsOf(B.channels) \subseteq sys'
    BY <1>3, <1>6, <1>10 DEF Told, Legacy
  <2> QED BY <1>7, <2>1 DEF Claimed1, Claimed2
<1>12. ASSUME phase' = "try", IsNt PROVE InTry(B)'
  <2>1. first \in started' /\ i' = i /\ pos = 0 /\ pos' = 1
    BY <1>0, <1>1, <1>2, <1>12
  <2>2. Len(B.channels) <= 1 => "P2" \notin PortsOf(B.channels)
    BY <1>10, <2>1, PortIs
  <2> QED BY <1>3, <1>7, <2>1, <2>2 DEF InTry
<1>13. PlacedIn(B)'
  <2>1. i < i' \/ (phase' = "try" /\ i = i')
    BY <1>0, <1>1
  <2> QED BY <1>0, <1>3, <2>1 DEF PlacedIn
<1>14. phase' # "enum"
  BY <1>1
<1>15. IsPci(B)'
  BY <1>0, <1>3, <1>7, <1>8, <1>9, <1>11, <1>12, <1>13, <1>14 DEF IsPci
<1> QED BY <1>3, <1>4, <1>5, <1>15

(* The adapter of a try and an adapter that was there before.              *)
LEMMA TryPair ==
  ASSUME Typed, InOrder, Wired(machine), phase = "try", machine' = machine, hit \subseteq hit', Port(pos) \notin seen,
         NEW k, k = list[i].fn, NEW first, first = pos, NEW alt,
         NEW B, Made(B, k, first), B.fn = k,
         ~Claimed(k, first, alt, IF IsNt THEN sys \ {Port(first)} ELSE sys),
         NEW A, IsPci(A), NEW c \in DOMAIN A.channels, NEW d \in DOMAIN B.channels
  PROVE  PairOk(A, B, A.channels[c], B.channels[d])'
PROOF
<1>0. /\ k \in Storage(machine) /\ k \in Fns /\ Compat(k) /\ first \in {0, 1} /\ machine \in Machines /\ k # 0
  <2>1. k \in Storage(machine) /\ Compat(k) /\ first \in {0, 1} /\ machine \in Machines
    BY TriedIs
  <2> QED BY <2>1, MachineIs DEF Storage, Fns
<1>1. PICK f, g : MadeOf(A, f, g)
  BY DEF IsPci
<1>2. /\ Made(A, f, g) /\ f = A.fn /\ Compat(A.fn) /\ (Lost(A) => A.fn \in hit)
      /\ Claimed1(A) /\ Claimed2(A) /\ (IsNt => InTry(A))
  BY <1>1 DEF IsPci, MadeOf, Early
<1>3. /\ PortsOf(A.channels) \subseteq {"P1", "P2"} /\ Len(A.channels) \in Int
      /\ AdapterChannels(A.fn) <= 1 => Len(A.channels) <= 1
  BY <1>0, <1>2, PortsAre
<1>4. /\ PortsOf(B.channels) \subseteq {"P1", "P2"} /\ Len(B.channels) \in Int
      /\ AdapterChannels(k) <= 1 => Len(B.channels) <= 1
      /\ Len(B.channels) <= 1 => PortsOf(B.channels) \subseteq {Port(first)}
      /\ first = 1 => PortsOf(B.channels) \subseteq {"P2"}
  BY <1>0, PortsAre
<1>5. ~IsNt => Port(first) \notin sys
  BY <1>0 DEF Claimed
<1>6. AdapterChannels(k) \in Int
  BY <1>0, CountIs
<1>p. Port(0) = "P1" /\ Port(1) = "P2"
  BY PortIs
<1>7. CASE A.fn = k /\ AdapterChannels(k) > 1
  <2>1. first = 0
    <3>1. first = 1 => AdapterChannels(k) <= 1
      BY <1>0, MadePorts
    <3> QED BY <1>0, <1>6, <1>7, <3>1
  <2>2. ~IsNt
    BY <1>2, <1>7, <2>1 DEF InTry
  <2>3. "P1" \notin PortsOf(A.channels)
    BY <1>2, <1>5, <1>p, <2>1, <2>2 DEF Claimed1
  <2>4. k \in hit'
    BY <1>2, <1>7, <2>3 DEF Lost
  <2>5. Compat(k)' /\ AdapterChannels(k)' > 1
    BY <1>0, <1>7 DEF Compat, Fn, Switched, Option, Chip, AdapterChannels, OneForBoth
  <2>6. PICK u : u = A.channels[c]
    OBVIOUS
  <2>7. PICK v : v = B.channels[d]
    OBVIOUS
  <2>8. PairOk(A, B, u, v)'
    BY <1>0, <1>7, <2>4, <2>5 DEF PairOk
  <2> QED BY <2>6, <2>7, <2>8
<1>8. CASE A.fn = k /\ AdapterChannels(k) <= 1
  <2>1. Port(first) \notin PortsOf(A.channels)
    <3>1. CASE IsNt
      BY <1>2, <1>3, <1>8, <1>p, <3>1 DEF InTry
    <3>2. CASE ~IsNt
      BY <1>0, <1>2, <1>5, <1>p, <3>2 DEF Claimed1, Claimed2
    <3> QED BY <3>1, <3>2
  <2>2. PortsOf(A.channels) \cap PortsOf(B.channels) = {}
    BY <1>4, <1>8, <2>1
  <2> QED BY <1>0, <1>2, <1>8, <2>2, PairFrom
<1>9. CASE A.fn # k
  <2>1. IsNt => /\ "P1" \in PortsOf(A.channels) => "P1" \in seen
                /\ "P2" \in PortsOf(A.channels) => "P2" \in seen \/ Len(A.channels) > 1
    BY <1>2, <1>9 DEF InTry
  <2>2. ASSUME "P1" \in PortsOf(A.channels) \cap PortsOf(B.channels) PROVE FALSE
    <3>1. first = 0
      BY <1>0, <1>4, <2>2
    <3> QED BY <1>2, <1>5, <1>p, <2>1, <2>2, <3>1 DEF Claimed1
  <2>3. ASSUME "P2" \in PortsOf(A.channels) \cap PortsOf(B.channels)
        PROVE  Len(B.channels) > 1 \/ (IsNt /\ Len(A.channels) > 1)
    <3>1. CASE Len(B.channels) <= 1
      <4>1. first = 1
        BY <1>0, <1>4, <1>p, <2>3, <3>1
      <4> QED BY <1>2, <1>5, <1>p, <2>1, <2>3, <4>1 DEF Claimed2
    <3> QED BY <1>4, <3>1
  <2> QED BY <1>0, <1>2, <1>9, <2>2, <2>3, PairFrom
<1> QED BY <1>6, <1>7, <1>8, <1>9

(* An adapter more: what is to be shown of it and of the others. *)
LEMMA MoreOwners ==
  ASSUME IsSeq(adapters), machine \in Machines, Wired(machine), machine' = machine, hit \subseteq hit', OneOwner,
         NEW B, adapters' = Append(adapters, B),
         \A c, d \in DOMAIN B.channels : c # d => ChipOk(B, c, d),
         \A A \in AdapterSet : \A c \in DOMAIN A.channels : \A d \in DOMAIN B.channels :
           PairOk(A, B, A.channels[c], B.channels[d])',
         \A A \in AdapterSet : (IsIsa(A) \/ IsPci(A))',
         (IsIsa(B) \/ IsPci(B))'
  PROVE  Owners'
PROOF
<1>1. OneOwner'
  <2>1. \A a \in DOMAIN adapters : \A A : A = adapters[a] => A \in AdapterSet
    BY DEF AdapterSet
  <2>2. \A a \in DOMAIN adapters : \A A : A = adapters[a] =>
           \A c \in DOMAIN A.channels : \A d \in DOMAIN B.channels : PairOk(A, B, A.channels[c], B.channels[d])'
    BY <2>1
  <2> QED BY <2>2, AddedOwners
<1>2. AdapterSet' = AdapterSet \cup {B}
  BY AddedSet
<1>3. ASSUME NEW A \in AdapterSet' PROVE (IsIsa(A) \/ IsPci(A))'
  <2>1. A \in AdapterSet \/ A = B
    BY <1>2
  <2> QED BY <2>1
<1> QED BY <1>1, <1>3 DEF Owners

(* No adapter more. *)
LEMMA NoMoreOwners ==
  ASSUME machine' = machine, hit \subseteq hit', OneOwner, adapters' = adapters,
         \A A \in AdapterSet : (IsIsa(A) \/ IsPci(A))'
  PROVE  Owners'
PROOF
<1>1. OneOwner'
  BY SameOwners
<1>2. AdapterSet' = AdapterSet
  BY DEF AdapterSet
<1> QED BY <1>1, <1>2 DEF Owners

-----------------------------------------------------------------------------
(* A try of a controller in compatibility mode. *)
LEMMA TryOwners ==
  ASSUME Typed, InOrder, Wired(machine), Owners, TryChannel
  PROVE  Owners'
PROOF
<1>1. phase = "try" /\ UNCHANGED <<machine, list, seen, given>>
  BY DEF TryChannel
<1>2. \A A \in AdapterSet : IsPci(A)
  BY <1>1 DEF Owners, IsIsa
<1>3. IsSeq(adapters) /\ machine \in Machines /\ OneOwner
  BY DEF Typed, Owners
<1>4. CASE Port(pos) \in seen
  <2>1. NextTry(started) /\ UNCHANGED <<started, sys, own, firstOk, adapters, hit>>
    BY <1>4 DEF TryChannel
  <2>2. NextTry(started')
    BY <2>1 DEF NextTry
  <2>3. \A A \in AdapterSet : IsPci(A)'
    <3> SUFFICES ASSUME NEW A \in AdapterSet PROVE IsPci(A)'
      OBVIOUS
    <3> QED BY <1>1, <1>2, <2>1, <2>2, KeptTry
  <2> QED BY <1>1, <1>3, <2>1, <2>3, NoMoreOwners
<1>5. CASE Port(pos) \notin seen
  <2>1. PICK k : k = list[i].fn
    OBVIOUS
  <2>2. PICK first : first = pos
    OBVIOUS
  <2>3. PICK before : before = IF IsNt THEN sys \ {Port(pos)} ELSE sys
    OBVIOUS
  <2>4. PICK alt : alt = (pass # pref)
    OBVIOUS
  <2>f. PICK found \in FindController(k, k, first, alt, before) :
          \E answer \in Answers(found) :
            /\ started' = IF answer = "now" THEN started \cup {pos} ELSE started
            /\ Accept(k, found, answer, before)
            /\ NextTry(started')
    BY <1>5, <2>1, <2>2, <2>3, <2>4 DEF TryChannel
  <2>5. PICK answer \in Answers(found) :
          /\ started' = IF answer = "now" THEN started \cup {pos} ELSE started
          /\ Accept(k, found, answer, before)
          /\ NextTry(started')
    BY <2>f
  <2>6. first \in {0, 1} /\ k \in Storage(machine) /\ Compat(k) /\ Twin(k, k)
    BY <1>1, <2>1, <2>2, TriedIs
  <2>7. own \subseteq found.own
    BY <1>3, <2>5, <2>6, FoundMade
  <2>8. /\ started \subseteq started' /\ own \subseteq own' /\ hit \subseteq hit' /\ before \subseteq sys'
    BY <2>5, <2>7 DEF Accept, Told
  <2>9. sys \subseteq sys' \/ (IsNt /\ Port(pos) \notin seen /\ sys \ {Port(pos)} \subseteq sys')
    BY <1>5, <2>3, <2>8
  <2>10. \A A \in AdapterSet : IsPci(A)'
    <3> SUFFICES ASSUME NEW A \in AdapterSet PROVE IsPci(A)'
      OBVIOUS
    <3>1. IsPci(A)
      BY <1>2
    <3> QED BY <1>1, <2>5, <2>8, <2>9, <3>1, KeptTry
  <2>11. CASE answer = "no"
    <3>1. adapters' = adapters
      BY <2>5, <2>11 DEF Accept
    <3> QED BY <1>1, <1>3, <2>8, <2>10, <3>1, NoMoreOwners
  <2>12. CASE answer # "no"
    <3>1. PICK B : B = Adapter(k, found.adapter, answer)
      OBVIOUS
    <3>2. adapters' = Append(adapters, B)
      BY <2>5, <2>12, <3>1 DEF Accept
    <3>3. Made(B, k, first) /\ ~Claimed(k, first, alt, before) /\ B.fn = k /\ IsPci(B)'
      BY <1>1, <2>1, <2>2, <2>5, <2>12, <3>1, TryMade
    <3>4. \A c, d \in DOMAIN B.channels : c # d => ChipOk(B, c, d)
      BY <1>3, <3>3, MadeChips
    <3>5. ~Claimed(k, first, alt, IF IsNt THEN sys \ {Port(first)} ELSE sys)
      BY <2>2, <2>3, <3>3
    <3>6. ASSUME NEW A \in AdapterSet, NEW c \in DOMAIN A.channels, NEW d \in DOMAIN B.channels
          PROVE  PairOk(A, B, A.channels[c], B.channels[d])'
      <4>1. IsPci(A)
        BY <1>2
      <4> QED BY <1>1, <1>5, <2>1, <2>2, <2>8, <3>3, <3>5, <4>1, TryPair
    <3> QED BY <1>1, <1>3, <2>8, <2>10, <3>2, <3>3, <3>4, <3>6, MoreOwners
  <2> QED BY <2>11, <2>12
<1> QED BY <1>4, <1>5

-----------------------------------------------------------------------------
(* The adapters that were there before a start of a native controller. *)
LEMMA KeptNative ==
  ASSUME Typed, phase = "native", phase' \in {"native", "isa"}, UNCHANGED <<machine, list, seen>>,
         i' = i \/ i' = i + 1, own \subseteq own', given \subseteq given', hit \subseteq hit', sys \subseteq sys',
         NEW A, IsPci(A)
  PROVE  IsPci(A)'
PROOF
<1>1. PortsOf(A.channels)' = PortsOf(A.channels) /\ (IsNt' <=> IsNt)
  BY SameMade
<1>2. Compat(A.fn) => Claimed1(A)' /\ Claimed2(A)'
  BY <1>1 DEF IsPci, Claimed1, Claimed2
<1>3. PlacedIn(A)'
  <2>1. PICK j \in DOMAIN list : list[j].fn = A.fn /\ j < i
    BY DEF IsPci, PlacedIn
  <2>2. j \in Int /\ i \in Int
    BY TypedIs DEF Typed
  <2>3. j < i'
    BY <2>1, <2>2
  <2> QED BY <2>1, <2>3 DEF PlacedIn
<1>4. ~Early'
  BY DEF Early
<1> QED BY <1>2, <1>3, <1>4, KeptPci

(* The adapter of a native start. *)
LEMMA NativeMade ==
  ASSUME Typed, InOrder, Wired(machine), phase = "native", phase' = "native", UNCHANGED <<machine, list, seen>>,
         i \in DOMAIN list, i < i', NEW k, k = list[i].fn, NEW f \in Offers(k),
         NEW zero, zero = 0, NEW no, NEW found \in FindController(k, f, zero, no, sys),
         NEW answer \in Answers(found), answer # "no", f \in given',
         Accept(k, found, answer, sys), NEW B, B = Adapter(k, found.adapter, answer)
  PROVE  /\ Made(B, f, zero) /\ ~Claimed(k, zero, no, sys) /\ B.fn = k
         /\ IsPci(B)'
PROOF
<1>0. /\ k \in Storage(machine) /\ f \in Storage(machine) /\ Twin(f, k) /\ machine \in Machines /\ k # 0
  <2>1. k \in Fns /\ Fn(k).kind = "storage" /\ f \in Fns /\ Twin(f, k) /\ machine \in Machines
    BY DEF Typed, Entries, InOrder, Offers
  <2> QED BY <2>1, MachineIs DEF Storage, Fns, Fn, Twin
<1>2. found.found
  BY DEF Answers
<1>3. B.fn = k /\ B.channels = found.adapter
  BY DEF Adapter
<1>4. /\ Chans(k, f, zero, found.adapter)
      /\ PortsOf(found.adapter) \subseteq found.own
      /\ ~Claimed(k, zero, no, sys)
      /\ Compat(k) /\ found.adapter # <<>> /\ AdapterChannels(k) > 1 /\ "P1" \notin PortsOf(found.adapter) => found.bad
  BY <1>0, <1>2, FoundMade
<1>5. Made(B, f, zero)
  BY <1>0, <1>3, <1>4 DEF Made
<1>6. /\ own' = found.own /\ sys' = Told(found.adapter, sys)
      /\ found.bad => k \in hit'
  BY <1>2 DEF Accept
<1>7. /\ Made(B, f, zero)' <=> Made(B, f, zero)
      /\ Lost(B)' <=> Lost(B)
      /\ Compat(k)' = Compat(k) /\ (IsNt' <=> IsNt)
      /\ PortsOf(B.channels)' = PortsOf(B.channels)
  BY SameMade
<1>8. MadeOf(B, f, zero)'
  <2>1. Compat(k) /\ Lost(B) => k \in hit'
    BY <1>3, <1>4, <1>6 DEF Lost
  <2> QED BY <1>0, <1>3, <1>5, <1>7, <2>1 DEF MadeOf, Early
<1>9. PortsOf(B.channels)' \subseteq own'
  BY <1>3, <1>4, <1>6, <1>7
<1>10. PortsOf(B.channels) \subseteq {"P1", "P2"}
  BY <1>0, <1>5, PortsAre
<1>11. Claimed1(B)' /\ Claimed2(B)'
  <2>1. PortsOf(B.channels) \subseteq sys'
    BY <1>3, <1>6, <1>10 DEF Told, Legacy
  <2> QED BY <1>7, <2>1 DEF Claimed1, Claimed2
<1>12. PlacedIn(B)'
  <2>1. i < i'
    OBVIOUS
  <2> QED BY <1>0, <1>3, <2>1 DEF PlacedIn
<1>13. IsPci(B)'
  BY <1>0, <1>3, <1>7, <1>8, <1>9, <1>11, <1>12 DEF IsPci
<1> QED BY <1>3, <1>4, <1>5, <1>13

(* The adapter of a native start and an adapter that was there before.     *)
LEMMA NativePair ==
  ASSUME Typed, InOrder, Listed, Wired(machine), phase = "native", machine' = machine, hit \subseteq hit',
         i \in DOMAIN list, NEW k, k = list[i].fn, NEW f \in Offers(k), NEW zero, zero = 0, NEW no, no = FALSE,
         NEW B, Made(B, f, zero), B.fn = k, ~Claimed(k, zero, no, sys),
         NEW A, IsPci(A), NEW c \in DOMAIN A.channels, NEW d \in DOMAIN B.channels
  PROVE  PairOk(A, B, A.channels[c], B.channels[d])'
PROOF
<1>0. k \in Storage(machine) /\ machine \in Machines
  BY DEF Typed, Made
<1>1. PICK g, first : MadeOf(A, g, first)
  BY DEF IsPci
<1>2. /\ Made(A, g, first) /\ (g \in given \/ (g = A.fn /\ Compat(g)))
      /\ Compat(A.fn) => Claimed1(A)
      /\ A.fn \in Storage(machine)
  BY <1>1 DEF IsPci, MadeOf, Made
<1>3. A.fn # k
  <2>1. PICK j \in DOMAIN list : list[j].fn = A.fn /\ j < i
    BY DEF IsPci, PlacedIn
  <2>2. j # i
    BY <2>1, TypedIs
  <2> QED BY <2>1, <2>2 DEF Listed
<1>4. g # f \/ (g = A.fn /\ Compat(g))
  BY <1>2 DEF Offers
<1>5. /\ PortsOf(A.channels) \subseteq {"P1", "P2"}
      /\ PortsOf(A.channels) # {} => Home(A.fn) /\ AtHome(Chip(A.fn))
  BY <1>0, <1>2, PortsAre
<1>6. /\ PortsOf(B.channels) \subseteq {"P1", "P2"} /\ Len(B.channels) \in Int
      /\ PortsOf(B.channels) # {} => Home(k) /\ AtHome(Chip(k))
      /\ Len(B.channels) <= 1 => PortsOf(B.channels) \subseteq {Port(zero)}
  BY <1>0, PortsAre
<1>7. ASSUME NEW x \in Storage(machine), NEW y \in Storage(machine), x # y, Fn(x).std, AtHome(Chip(x))
      PROVE  ~Fn(y).std /\ ~Compat(y)
  BY <1>7 DEF Wired, OneAtHome, Fn, Chip, Compat
<1>8. /\ "P1" \notin PortsOf(A.channels) \cap PortsOf(B.channels)
      /\ "P2" \in PortsOf(A.channels) \cap PortsOf(B.channels) =>
           Compat(A.fn) /\ Compat(k) /\ (Len(B.channels) > 1 \/ (IsNt /\ Len(A.channels) > 1))
  <2>1. CASE PortsOf(A.channels) \cap PortsOf(B.channels) = {}
    BY <2>1
  <2>2. CASE PortsOf(A.channels) \cap PortsOf(B.channels) # {}
    <3>1. Home(A.fn) /\ AtHome(Chip(A.fn)) /\ Home(k) /\ AtHome(Chip(k))
      BY <1>5, <1>6, <2>2
    <3>2. ~Fn(k).std
      BY <1>0, <1>2, <1>3, <1>7, <3>1 DEF Home
    <3>3. ~Fn(A.fn).std
      BY <1>0, <1>2, <1>3, <1>7, <3>1 DEF Home
    <3>4. Compat(k) /\ Compat(A.fn)
      BY <3>1, <3>2, <3>3 DEF Home
    <3>5. "P1" \notin sys
      BY <3>4, PortIs DEF Claimed
    <3>6. "P1" \notin PortsOf(A.channels)
      BY <1>2, <3>4, <3>5 DEF Claimed1
    <3>7. ASSUME "P2" \in PortsOf(B.channels) PROVE Len(B.channels) > 1
      <4>1. ~(Len(B.channels) <= 1)
        BY <1>6, <3>7, PortIs
      <4> QED BY <1>6, <4>1
    <3> QED BY <3>4, <3>6, <3>7
  <2> QED BY <2>1, <2>2
<1> QED BY <1>0, <1>2, <1>3, <1>4, <1>8, PairFrom

(* A start of a native controller. *)
LEMMA NativeOwners ==
  ASSUME Typed, InOrder, Listed, Wired(machine), Owners, StartNative
  PROVE  Owners'
PROOF
<1>1. phase = "native" /\ UNCHANGED <<machine, list, seen>>
  BY DEF StartNative
<1>2. \A A \in AdapterSet : IsPci(A)
  BY <1>1 DEF Owners, IsIsa
<1>3. IsSeq(adapters) /\ machine \in Machines /\ OneOwner /\ i \in Nat \ {0}
  BY <1>1 DEF Typed, Owners
<1>4. ASSUME phase' \in {"native", "isa"}, i' = i \/ i' = i + 1, UNCHANGED <<sys, own, adapters, given, hit>>
      PROVE  Owners'
  <2>1. \A A \in AdapterSet : IsPci(A)'
    BY <1>1, <1>2, <1>4, KeptNative
  <2> QED BY <1>1, <1>3, <1>4, <2>1, NoMoreOwners
<1>5. CASE i > Len(list) \/ Option("IgnoreNativePci")
  BY <1>4, <1>5 DEF StartNative
<1>6. CASE ~(i > Len(list) \/ Option("IgnoreNativePci"))
  <2>1. PICK k : k = list[i].fn
    OBVIOUS
  <2>2. i \in DOMAIN list
    BY <1>3, <1>6, TypedIs
  <2>3. list[i].alt = FALSE
    BY <2>2 DEF Listed
  <2>4. i' = i + 1 /\ phase' = "native"
    BY <1>1, <1>6 DEF StartNative
  <2>5. CASE Offers(k) = {}
    <3>1. UNCHANGED <<sys, own, adapters, given, hit>>
      BY <1>6, <2>1, <2>3, <2>5 DEF StartNative
    <3> QED BY <1>4, <2>4, <3>1
  <2>6. CASE Offers(k) # {}
    <3>1. PICK f : f = Min(Offers(k))
      OBVIOUS
    <3>2. f \in Offers(k)
      BY <2>6, <3>1, OffersAre
    <3>z. PICK zero : zero = 0
      OBVIOUS
    <3>n. PICK no : no = FALSE
      OBVIOUS
    <3>f. PICK found \in FindController(k, f, zero, no, sys) :
            \E answer \in Answers(found) :
              /\ Accept(k, found, answer, sys)
              /\ given' = IF answer = "no" THEN given ELSE given \cup {f}
      BY <1>6, <2>1, <2>6, <3>1, <3>z, <3>n DEF StartNative
    <3>3. PICK answer \in Answers(found) :
            /\ Accept(k, found, answer, sys)
            /\ given' = IF answer = "no" THEN given ELSE given \cup {f}
      BY <3>f
    <3>4. own \subseteq found.own
      <4>1. k \in Fns /\ Fn(k).kind = "storage" /\ f \in Fns /\ Twin(f, k)
        BY <2>1, <2>2, <3>2 DEF Typed, Entries, InOrder, Offers
      <4>2. k \in Storage(machine) /\ f \in Storage(machine)
        BY <4>1 DEF Storage, Fns, Fn, Twin
      <4> QED BY <1>3, <3>3, <3>z, <4>1, <4>2, FoundMade
    <3>5. own \subseteq own' /\ hit \subseteq hit' /\ sys \subseteq sys' /\ given \subseteq given'
      BY <3>3, <3>4 DEF Accept, Told
    <3>6. \A A \in AdapterSet : IsPci(A)'
      BY <1>1, <1>2, <2>4, <3>5, KeptNative
    <3>7. CASE answer = "no"
      <4>1. adapters' = adapters
        BY <3>3, <3>7 DEF Accept
      <4> QED BY <1>1, <1>3, <3>5, <3>6, <4>1, NoMoreOwners
    <3>8. CASE answer # "no"
      <4>1. PICK B : B = Adapter(k, found.adapter, answer)
        OBVIOUS
      <4>2. adapters' = Append(adapters, B) /\ f \in given'
        BY <3>3, <3>8, <4>1 DEF Accept
      <4>3. Made(B, f, zero) /\ ~Claimed(k, zero, no, sys) /\ B.fn = k /\ IsPci(B)'
        <5>1. Accept(k, found, answer, sys)
          BY <3>3
        <5>2. Typed /\ InOrder /\ Wired(machine) /\ phase = "native" /\ phase' = "native" /\ UNCHANGED <<machine, list, seen>>
              /\ i \in DOMAIN list /\ i < i' /\ k = list[i].fn /\ f \in Offers(k) /\ zero = 0
              /\ answer # "no" /\ f \in given' /\ B = Adapter(k, found.adapter, answer)
          BY <1>1, <1>3, <2>1, <2>2, <2>4, <3>2, <3>8, <3>z, <3>n, <4>1, <4>2
        <5> QED BY <5>1, <5>2, NativeMade
      <4>4. \A c, d \in DOMAIN B.channels : c # d => ChipOk(B, c, d)
        BY <1>3, <4>3, MadeChips
      <4>5. ASSUME NEW A \in AdapterSet, NEW c \in DOMAIN A.channels, NEW d \in DOMAIN B.channels
            PROVE  PairOk(A, B, A.channels[c], B.channels[d])'
        <5>1. IsPci(A)
          BY <1>2
        <5> QED BY <1>1, <2>1, <2>2, <3>2, <3>5, <3>z, <3>n, <4>3, <5>1, NativePair
      <4> QED BY <1>1, <1>3, <3>5, <3>6, <4>2, <4>3, <4>4, <4>5, MoreOwners
    <3> QED BY <3>7, <3>8
  <2> QED BY <2>5, <2>6
<1> QED BY <1>5, <1>6

(* The adapters that were there before a step of the ISA search. *)
LEMMA KeptIsa ==
  ASSUME phase \in {"isa", "mca"}, phase' \in {"isa", "mca", "done"}, UNCHANGED <<machine, seen>>,
         own \subseteq own', given \subseteq given', hit \subseteq hit', sys \subseteq sys',
         NEW A, IsPci(A)
  PROVE  IsPci(A)'
PROOF
<1>1. PortsOf(A.channels)' = PortsOf(A.channels) /\ (IsNt' <=> IsNt)
  BY SameMade
<1>2. Compat(A.fn) => Claimed1(A)' /\ Claimed2(A)'
  BY <1>1 DEF IsPci, Claimed1, Claimed2
<1>3. ~Early'
  BY DEF Early
<1> QED BY <1>2, <1>3, KeptPci

(* An adapter of the ISA search and an adapter that was there before.      *)
LEMMA IsaPair ==
  ASSUME Typed, Wired(machine), machine' = machine, phase \in {"isa", "mca"}, pass \in 0 .. 3,
         NEW p, p = AdapterAddresses[pass + 1], Tried(p),
         NEW B, B = Adapter(0, <<IsaChannel(p)>>, "now"),
         NEW A, IsIsa(A) \/ IsPci(A), NEW c \in DOMAIN A.channels, NEW d \in DOMAIN B.channels
  PROVE  PairOk(A, B, A.channels[c], B.channels[d])'
PROOF
<1>1. PICK u : u = A.channels[c]
  OBVIOUS
<1>2. PICK v : v = B.channels[d]
  OBVIOUS
<1>3. v = IsaChannel(p)
  <2>1. B.channels = <<IsaChannel(p)>>
    BY DEF Adapter
  <2>2. PICK w : w = IsaChannel(p)
    OBVIOUS
  <2>3. d = 1
    BY <2>1, <2>2
  <2> QED BY <1>2, <2>1, <2>2, <2>3
<1>4. v.cmd = LegacyRegs(p) /\ v.bm = {} /\ v.sata = {}
  BY <1>3 DEF IsaChannel
<1>5. p \in {"P1", "P2", "P3", "P4"} /\ machine \in Machines /\ machine.bus = phase
  <2>1. p \in {"P1", "P2", "P3", "P4"}
    <3>1. pass = 0 \/ pass = 1 \/ pass = 2 \/ pass = 3
      OBVIOUS
    <3> QED BY <3>1 DEF AdapterAddresses
  <2> QED BY <2>1 DEF Tried, Searched, Typed
<1>6. ASSUME (u.cmd \cup u.bm \cup u.sata) \cap LegacyRegs(p) = {} PROVE PairOk(A, B, u, v)'
  BY <1>4, <1>6 DEF PairOk
<1>7. CASE IsPci(A)
  <2>1. PICK f, first : Made(A, f, first)
    BY <1>7 DEF IsPci, MadeOf
  <2>2. p \notin PortsOf(A.channels)
    <3>1. PortsOf(A.channels) \subseteq {"P1", "P2"}
      BY <1>5, <2>1, PortsAre
    <3>2. PortsOf(A.channels) \subseteq own
      BY <1>7 DEF IsPci
    <3> QED BY <3>1, <3>2 DEF Tried, CheckIOInterference, Legacy
  <2>3. (u.cmd \cup u.bm \cup u.sata) \cap LegacyRegs(p) = {}
    BY <1>1, <1>5, <2>1, <2>2, IsaApart
  <2> QED BY <1>1, <1>2, <1>6, <2>3
<1>8. CASE IsIsa(A)
  <2>1. PICK q \in 1 .. 4 : A.channels = <<IsaChannel(AdapterAddresses[q])>> /\ q <= pass
    BY <1>5, <1>8 DEF IsIsa
  <2>2. PICK o : o = AdapterAddresses[q]
    OBVIOUS
  <2>3. u = IsaChannel(o)
    <3>1. PICK w : w = IsaChannel(o)
      OBVIOUS
    <3>2. c = 1
      BY <2>1, <2>2, <3>1
    <3> QED BY <1>1, <2>1, <2>2, <3>1, <3>2
  <2>4. o # p
    <3>1. (q = 1 \/ q = 2 \/ q = 3) /\ (pass = 1 \/ pass = 2 \/ pass = 3)
      BY <2>1
    <3> QED BY <2>1, <2>2, <3>1 DEF AdapterAddresses
  <2>5. (u.cmd \cup u.bm \cup u.sata) \cap LegacyRegs(p) = {}
    BY <2>3, <2>4 DEF IsaChannel, LegacyRegs
  <2> QED BY <1>1, <1>2, <1>6, <2>5
<1> QED BY <1>7, <1>8

(* A step of the ISA search. *)
LEMMA IsaOwners ==
  ASSUME Typed, Wired(machine), Owners, FindIsaController
  PROVE  Owners'
PROOF
<1>1. /\ phase \in {"isa", "mca"} /\ phase' = phase /\ pass' = pass + 1
      /\ UNCHANGED <<machine, list, seen, own, given, hit>>
  BY DEF FindIsaController
<1>2. pass \in 0 .. 3
  <2>1. pass \in 0 .. 4 /\ pass < 4
    BY <1>1 DEF FindIsaController, AdapterAddresses, Typed
  <2> QED BY <2>1
<1>3. IsSeq(adapters) /\ machine \in Machines /\ OneOwner
  BY DEF Typed, Owners
<1>4. PICK p : p = AdapterAddresses[pass + 1]
  OBVIOUS
<1>5. sys \subseteq sys'
  BY DEF FindIsaController, Told
<1>6. ASSUME NEW A \in AdapterSet PROVE (IsIsa(A) \/ IsPci(A))'
  <2>1. IsIsa(A) \/ IsPci(A)
    BY DEF Owners
  <2>2. CASE IsPci(A)
    BY <1>1, <1>5, <2>2, KeptIsa
  <2>3. CASE IsIsa(A)
    <3>1. PICK q \in 1 .. 4 : A.channels = <<IsaChannel(AdapterAddresses[q])>> /\ (phase = machine.bus => q <= pass)
      BY <2>3 DEF IsIsa
    <3>2. phase' = machine'.bus => q <= pass'
      BY <1>1, <1>2, <3>1
    <3>3. IsIsa(A)'
      BY <1>1, <2>3, <3>1, <3>2 DEF IsIsa
    <3> QED BY <3>3
  <2> QED BY <2>1, <2>2, <2>3
<1>7. CASE Tried(p) /\ Responds(p)
  <2>1. PICK B : B = Adapter(0, <<IsaChannel(p)>>, "now")
    OBVIOUS
  <2>2. adapters' = Append(adapters, B)
    BY <1>4, <1>7, <2>1 DEF FindIsaController
  <2>3. IsIsa(B)'
    <3>1. machine.bus = phase
      BY <1>7 DEF Tried, Searched
    <3>2. B.fn = 0 /\ B.channels = <<IsaChannel(p)>>
      BY <2>1 DEF Adapter
    <3>3. PICK q : q = pass + 1
      OBVIOUS
    <3>4. q \in 1 .. 4 /\ q <= pass'
      BY <1>1, <1>2, <3>3
    <3>5. B.channels = <<IsaChannel(AdapterAddresses[q])>>
      BY <1>4, <3>2, <3>3
    <3>6. phase' \in {"isa", "mca", "done"} /\ (phase' = "isa" => machine'.bus = "isa")
      BY <1>1, <3>1
    <3> QED BY <3>2, <3>4, <3>5, <3>6 DEF IsIsa
  <2>4. \A c, d \in DOMAIN B.channels : c # d => ChipOk(B, c, d)
    <3>1. PICK w : w = IsaChannel(p)
      OBVIOUS
    <3>2. B.channels = <<w>>
      BY <2>1, <3>1 DEF Adapter
    <3>3. DOMAIN B.channels = {1}
      BY <3>2
    <3> QED BY <3>3
  <2>5. ASSUME NEW A \in AdapterSet, NEW c \in DOMAIN A.channels, NEW d \in DOMAIN B.channels
        PROVE  PairOk(A, B, A.channels[c], B.channels[d])'
    <3>1. IsIsa(A) \/ IsPci(A)
      BY DEF Owners
    <3> QED BY <1>1, <1>2, <1>4, <1>7, <2>1, <3>1, IsaPair
  <2> QED BY <1>1, <1>3, <1>6, <2>2, <2>3, <2>4, <2>5, MoreOwners
<1>8. CASE ~(Tried(p) /\ Responds(p))
  <2>1. adapters' = adapters
    BY <1>4, <1>8 DEF FindIsaController
  <2> QED BY <1>1, <1>3, <1>6, <2>1, NoMoreOwners
<1> QED BY <1>7, <1>8

(* The end of a bus. *)
LEMMA BusOwners ==
  ASSUME Typed, Owners, EndOfBus
  PROVE  Owners'
PROOF
<1>1. /\ phase \in {"isa", "mca"} /\ phase' = IF phase = "isa" THEN "mca" ELSE "done"
      /\ UNCHANGED <<machine, list, seen, sys, own, given, hit, adapters>>
  BY DEF EndOfBus
<1>2. machine.bus \in {"isa", "mca"}
  BY MachineIs DEF Typed
<1>3. ASSUME NEW A \in AdapterSet PROVE (IsIsa(A) \/ IsPci(A))'
  <2>1. IsIsa(A) \/ IsPci(A)
    BY DEF Owners
  <2>2. CASE IsPci(A)
    BY <1>1, <2>2, KeptIsa
  <2>3. CASE IsIsa(A)
    <3>1. phase' # machine'.bus /\ phase' \in {"mca", "done"}
      BY <1>1, <1>2, <2>3 DEF IsIsa
    <3>2. IsIsa(A)'
      BY <2>3, <3>1 DEF IsIsa
    <3> QED BY <3>2
  <2> QED BY <2>1, <2>2, <2>3
<1> QED BY <1>1, <1>3, NoMoreOwners DEF Owners

(* Every step. *)
LEMMA OwnersStep ==
  ASSUME Typed, InOrder, Listed, Wired(machine), Owners, [Next]_vars
  PROVE  Owners'
PROOF
<1>1. CASE EnumFunction \/ EnumPass
  <2>1. phase = "enum" /\ UNCHANGED <<machine, adapters, hit>>
    BY <1>1 DEF EnumFunction, EnumPass
  <2>2. AdapterSet = {}
    BY <2>1 DEF Owners, IsIsa, IsPci
  <2> QED BY <2>1, <2>2, NoMoreOwners DEF Owners
<1>2. CASE UNCHANGED vars
  <2>1. AdapterSet' = AdapterSet /\ machine' = machine /\ hit' = hit /\ adapters' = adapters
    BY <1>2 DEF vars, AdapterSet
  <2>2. ASSUME NEW A \in AdapterSet PROVE (IsIsa(A) \/ IsPci(A))'
    <3>1. IsIsa(A) \/ IsPci(A)
      BY DEF Owners
    <3>2. CASE IsIsa(A)
      <4>1. IsIsa(A)'
        BY <1>2, <3>2 DEF IsIsa, vars
      <4> QED BY <4>1
    <3>3. CASE IsPci(A)
      <4>1. PortsOf(A.channels)' = PortsOf(A.channels) /\ (IsNt' <=> IsNt)
        BY <2>1, SameMade
      <4>2. /\ Claimed1(A)' <=> Claimed1(A)
            /\ Claimed2(A)' <=> Claimed2(A)
            /\ InTry(A)' <=> InTry(A)
            /\ PlacedIn(A)' <=> PlacedIn(A)
            /\ Early' <=> Early
        BY <1>2, <4>1 DEF Claimed1, Claimed2, InTry, PlacedIn, Early, vars
      <4>3. IsPci(A)'
        BY <1>2, <3>3, <4>2, KeptPci DEF IsPci, vars
      <4> QED BY <4>3
    <3> QED BY <3>1, <3>2, <3>3
  <2> QED BY <2>1, <2>2, NoMoreOwners DEF Owners
<1> QED BY <1>1, <1>2, HeadOwners, TryOwners, NativeOwners, IsaOwners, BusOwners DEF Next

(* No register has two owners, on every machine whose controllers are      *)
(* wired as Wired says, whatever ranges and ports are refused on the way:  *)
(* the claims of the ports (UniataFindBusMasterController,                 *)
(* AtapiCheckIOInterference, DriverEntry), the ranges the port driver      *)
(* gives away once, and the register maps of the chips together.           *)
THEOREM RegistersOwned ==
  ASSUME \A m \in Machines : Wired(m)
  PROVE  Spec => []OneOwner
PROOF
<1> DEFINE Inv == Typed /\ InOrder /\ Enumerated /\ Listed /\ Owners
<1>1. Init => Inv
  <2> SUFFICES ASSUME Init PROVE Inv
    OBVIOUS
  <2>1. Typed
    BY InitTyped
  <2>2. phase = "enum" /\ list = <<>> /\ mapped = {} /\ hit = {} /\ given = {} /\ adapters = <<>> /\ short = FALSE
    BY DEF Init
  <2>3. DOMAIN list = {} /\ DOMAIN adapters = {}
    BY <2>2
  <2>4. InOrder /\ Enumerated /\ Listed
    BY <2>2, <2>3 DEF InOrder, Enumerated, Listed
  <2>5. AdapterSet = {} /\ ChannelSet = {}
    BY <2>3 DEF AdapterSet, ChannelSet
  <2>6. Owners
    BY <2>5 DEF Owners, OneOwner
  <2> QED BY <2>1, <2>4, <2>6
<1>2. Inv /\ [Next]_vars => Inv'
  <2> SUFFICES ASSUME Inv, [Next]_vars PROVE Inv'
    OBVIOUS
  <2>1. Wired(machine)
    BY DEF Typed
  <2> QED BY <2>1, StepTyped, OrderStep, ListedStep, OwnersStep
<1>3. Inv => OneOwner
  BY DEF Owners
<1> QED BY <1>1, <1>2, <1>3, PTL DEF Spec
=============================================================================
