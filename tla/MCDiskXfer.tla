----------------------------- MODULE MCDiskXfer -----------------------------
(* Small instances of DiskXfer: a controller of every family with drives   *)
(* of several generations, some of which refuse modes they report.         *)
EXTENDS DiskXfer

Udma == UDMA0 .. UDMA6
AnyDmaMode == {DMA} \cup (WDMA0 .. WDMA2) \cup Udma

Drive(p, w, u, refuses) ==
  [pio |-> p, wdma |-> w, udma |-> u, refuses |-> refuses, atapi |-> FALSE,
   chs |-> FALSE, sata |-> FALSE, orig |-> UDMA0 + Higher(u, 0),
   supportsDma |-> w >= 0]

ModernDrives == {Drive(4, 2, 6, s) : s \in {{}, UDMA6 - 3 .. UDMA6, AnyDmaMode}}
OlderDrives == {Drive(4, 2, 2, Udma), Drive(5, 0, -1, {}),
                Drive(4, 2, -1, {WDMA0 + 1, WDMA2}),
                Drive(2, -1, -1, {PIO0 + 2})}
SataDrive == [Drive(4, 2, 6, {}) EXCEPT !.sata = TRUE, !.orig = SA150]
ManualChs == [Drive(2, -1, -1, {}) EXCEPT !.chs = TRUE]

TopOf(f) == CASE f \in {"acard", "alinew", "amd", "ati", "hpt", "promisetx",
                        "siimio", "sis", "ite133", "ite133new", "marvell",
                        "jmicron", "unknown"} -> UDMA6
              [] f \in {"viabar", "isch", "ich", "serverworks", "cmd",
                        "hpt370"} -> UDMA0 + 5
              [] f \in {"piix4e"} -> UDMA0 + 3
              [] f \in {"cyrix35"} -> UDMA0 + 4
              [] f \in {"cyrixold", "cypress", "piix"} -> WDMA2
              [] f = "sata" -> SA150
              [] OTHER -> UDMA0 + 2

Controller(f, capable, cable40) ==
  [family |-> f, bm |-> TRUE, capable |-> capable, cable40 |-> cable40,
   twoAtapi |-> FALSE, eighty |-> ~cable40]

Page(n) == [hi |-> 0, no |-> n]
High(n) == [hi |-> 1, no |-> n]
Host(max, frag, bound) == [host64 |-> FALSE, max |-> max, frag |-> frag,
                           bound |-> bound, bounce |-> 8, longest |-> 8]

Case(x, d, lba, no80, h, pages, off) ==
  [x |-> x, d |-> d, lba |-> lba, no80 |-> no80, h |-> h, pages |-> pages,
   off |-> off, top |-> TopOf(x.family), removable |-> FALSE]

AHost == Host(3, 4, 8)
APages == <<Page(2), Page(3), Page(5)>>

(* Every family with every drive. *)
ModeCases ==
  {Case(Controller(f, FALSE, FALSE), d, TRUE, FALSE, AHost, APages, 0) :
     f \in Families, d \in ModernDrives \cup OlderDrives}
  \cup {Case(Controller(f, TRUE, TRUE), d, TRUE, TRUE, AHost, APages, 1) :
          f \in Families, d \in {Drive(4, 2, 6, {}), Drive(4, 2, 2, Udma)}}
  \cup {Case(Controller("sata", TRUE, FALSE), d, TRUE, FALSE, AHost, APages, 0) :
          d \in {SataDrive, [SataDrive EXCEPT !.refuses = Udma]}}

(* Buffers: contiguous pages, across a boundary, scattered, above 4 GB.    *)
TableCases ==
  {Case(Controller("ich", TRUE, FALSE), Drive(4, 2, 5, {}), TRUE, FALSE, h,
        pages, off) :
     h \in {Host(3, 4, 4), Host(2, 8, 0), Host(1, 8, 8), Host(3, 3, 8)},
     pages \in {<<Page(2), Page(3), Page(4)>>, <<Page(3), Page(4), Page(6)>>,
                <<Page(6), Page(5), Page(4)>>, <<Page(1), High(2), Page(3)>>},
     off \in 0 .. 1}

(* Drives without LBA, with and without DMA. *)
ChsCases ==
  {Case(Controller("unknown", c, FALSE), d, FALSE, FALSE, AHost, APages, 0) :
     c \in BOOLEAN, d \in {ManualChs, Drive(4, 2, -1, {})}}

AllCases == ModeCases \cup TableCases
              \cup {[c EXCEPT !.top = IF c.d.chs THEN PIO0 + 4 ELSE @] :
                      c \in ChsCases}

AllRequests == {[first |-> 1, count |-> 4, high |-> FALSE],
                [first |-> 2, count |-> 1, high |-> TRUE]}
=============================================================================
