------------------------------ MODULE MCPacket ------------------------------
(* Small instances of Packet: devices and adapters that differ in how they *)
(* ask for packets, what they may do by DMA and what goes wrong.           *)
EXTENDS Packet

Command(op, dir, len) ==
  [op |-> op, dir |-> dir, len |-> len, lun |-> 0, aligned |-> TRUE]

FewCommands ==
  {Command("read", "in", 3), Command("write", "out", 2),
   [Command("rawread", "in", 2) EXCEPT !.aligned = FALSE],
   Command("control", "none", 0), Command("control", "out", 1),
   Command("seek", "none", 0), Command("sense", "in", 1),
   [Command("control", "in", 1) EXCEPT !.lun = 1]}

Opt(intDrq, useDpc, speed, discs, faults) ==
  [intDrq |-> intDrq, useDpc |-> useDpc, readWrite |-> TRUE, control |-> FALSE,
   rawRead |-> TRUE, readOnly |-> FALSE, speed |-> speed, discs |-> discs,
   faults |-> faults]

SomeOptions ==
  {Opt(i, u, s, 0, {"short", "late", "other", "hang"}) :
     i \in BOOLEAN, u \in BOOLEAN, s \in {"pio", "slow", "fast"}}
  \cup {Opt(i, TRUE, s, d, {"over", "hardware", "recovered", "wrong"}) :
     i \in BOOLEAN, d \in {0, 2}, s \in {"pio", "fast"}}
  \cup {Opt(FALSE, TRUE, "slow", 0, {"late", "refuse", "wrong"}),
        Opt(TRUE, FALSE, "slow", 0, {"block"}), Opt(TRUE, TRUE, "pio", 0, {"seeks"})}
  \cup {Opt(i, TRUE, s, 0, {"late", "over"}) : i \in BOOLEAN, s \in {"slow", "fast"}}
  \cup {[Opt(FALSE, TRUE, s, 0, {"refuse", "other"}) EXCEPT !.readOnly = TRUE,
                                                       !.control = TRUE] :
     s \in {"pio", "fast"}}
=============================================================================
