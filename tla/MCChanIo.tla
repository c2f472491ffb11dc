------------------------------ MODULE MCChanIo ------------------------------
(* ChanIo on requests of Commands, and the kinds of the runs. *)
EXTENDS ChanIo, Commands

(* Two transfers for device 0 that conflict and a command that is none;    *)
(* a command that is no transfer and a transfer for device 1.              *)
IoCmd == [TwoLunCmd EXCEPT ![r3] = Other(0), ![r4] = Other(1)]

(* The first of them takes two ATA commands. *)
IoParts == [r \in FiveReqs |-> IF r = r1 THEN 2 ELSE 1]

(* Two devices, everything ends with an interrupt. *)
PatientReqs  == {r1, r2, r4}
PatientCmd   == [r \in PatientReqs |-> IoCmd[r]]
PatientParts == [r \in PatientReqs |-> IoParts[r]]
PatientKind  == [r \in PatientReqs |-> IF r = r4 THEN "verify" ELSE "dma"]

(* Two devices, READ_CAPACITY and INQUIRY among the transfers. *)
MixedReqs  == {r1, r2, r4, r5}
MixedCmd   == [r \in MixedReqs |-> IoCmd[r]]
MixedParts == [r \in MixedReqs |-> IoParts[r]]
MixedKind  == [r \in MixedReqs |-> IF r = r4 THEN "sense" ELSE IF r = r5 THEN "probe" ELSE "dma"]

(* Two devices, the second without DMA, and a SMART request. *)
SmartReqs  == {r1, r3, r5}
SmartCmd   == [r \in SmartReqs |-> IoCmd[r]]
SmartParts == [r \in SmartReqs |-> IF r = r1 THEN 2 ELSE 1]
SmartKind  == (r1 :> "dma") @@ (r3 :> "smart") @@ (r5 :> "pio")
=============================================================================
