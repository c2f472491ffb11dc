----------------------------- MODULE MCAhciPort -----------------------------
(* Small instances of AhciPort: a hard disk and a packet device, with the  *)
(* faults that can meet in one request.                                    *)
EXTENDS AhciPort

Device(atapi, faults) == [atapi |-> atapi, faults |-> faults]

SomeDevices ==
  {Device(FALSE, {"task", "quiet", "size"}), Device(FALSE, {"link", "hot", "early"}),
   Device(FALSE, {"task", "stuck", "early"}), Device(FALSE, {"hot", "stuck", "size"}),
   Device(TRUE, {"early", "task", "size"}), Device(TRUE, {"link", "quiet", "stuck"})}
=============================================================================
