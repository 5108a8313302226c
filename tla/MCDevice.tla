------------------------------ MODULE MCDevice ------------------------------
(***************************************************************************)
(* The guard and the firmware load on a scaled-down address space:         *)
(* addresses 0 and 1 are A0-only RAM, 2 is internal RAM that A3 writes     *)
(* (0x1B40..0x3FFF), 3 and 4 are external.  The pinned stage-1 and the     *)
(* firmware disagree at 0 and both use 0 and 1, as Kodak's do around the   *)
(* reset vector.  `which` says who calls the guard: anyone, or a load.     *)
(***************************************************************************)
EXTENDS FwLoad, TLC

CONSTANTS x, y
VARIABLE which

Rec(a, n) == [addr |-> a, len |-> n]

MCByte == {x, y}
MCStage1 == (0 :> x) @@ (1 :> y)
MCOther  == (0 :> y)
MCS1Records == <<Rec(0, 2)>>
MCFw       == (0 :> y) @@ (2 :> y) @@ (3 :> x) @@ (4 :> y)
MCFwBeyond == (1 :> x) @@ (5 :> x)   \* a byte at A0_EXT_END: can never complete
MCFwLoad   == (0 :> y) @@ (1 :> x) @@ (2 :> y) @@ (3 :> x)
MCStage1Candidates == {MCStage1, MCOther}
MCFwImages == {MCFw, MCFwBeyond, MCFwLoad}

(* A file with records at an odd address and across the end of internal    *)
(* RAM, one with a record across A3_MIN_EXCL, which no request could       *)
(* write, one of whole records, and one that goes beyond external RAM.     *)
MCJobs == {[image |-> MCFwLoad, records |-> <<Rec(2, 2), Rec(0, 1), Rec(1, 1)>>],
           [image |-> MCFwLoad, records |-> <<Rec(0, 1), Rec(1, 2), Rec(3, 1)>>],
           [image |-> MCFw, records |-> <<Rec(0, 1), Rec(2, 1), Rec(3, 2)>>],
           [image |-> MCFwBeyond, records |-> <<Rec(1, 1), Rec(5, 1)>>]}

NoLoad == job = (CHOOSE j \in MCJobs : TRUE) /\ pc = "done" /\ k = 1 /\ bad = FALSE /\ res = "none"

MCInit == \/ which = "caller" /\ Init /\ NoLoad
          \/ which = "load" /\ FwInit

MCNext == /\ UNCHANGED which
          /\ \/ which = "caller" /\ Next /\ UNCHANGED loader /\ fw' # MCFwLoad
             \/ which = "load" /\ FwNext

MCSpec == MCInit /\ [][MCNext]_<<which, all>>
=============================================================================
