------------------------------- MODULE MCFiles -------------------------------
(***************************************************************************)
(* What comes in as bytes and is kept: the stream's line grid, a recorded  *)
(* trace, the vendor files, a registry export and the calibration chips,   *)
(* in one run: `which` says which part goes on, the others rest in an      *)
(* initial state of theirs.                                                *)
(***************************************************************************)
EXTENDS LineSync, Trace, VendorStore, PsiImport, ChipRead

VARIABLE which
MCVars == <<which, linevars, traceVars, vendorVars, psiVars, chipVars>>

LinesRest == LineInit /\ skip0 = 0 /\ resync
ChipRests == ChipInit /\ attached = CHOOSE s \in SCANNERS : TRUE

MCInit ==
  /\ TraceInit /\ VendorInit /\ PsiInit
  /\ \/ which \in {"trace", "vendor", "psi"} /\ LinesRest /\ ChipRests
     \/ which = "lines" /\ LineInit /\ ChipRests
     \/ which = "chip" /\ LinesRest /\ ChipInit

MCNext ==
  /\ UNCHANGED which
  /\ \/ which = "lines" /\ LineNext /\ UNCHANGED <<traceVars, vendorVars, psiVars, chipVars>>
     \/ which = "trace" /\ TraceNext /\ UNCHANGED <<linevars, vendorVars, psiVars, chipVars>>
     \/ which = "vendor" /\ VendorNext /\ UNCHANGED <<linevars, traceVars, psiVars, chipVars>>
     \/ which = "psi" /\ PsiNext /\ UNCHANGED <<linevars, traceVars, vendorVars, chipVars>>
     \/ which = "chip" /\ ChipNext /\ UNCHANGED <<linevars, traceVars, vendorVars, psiVars>>

MCSpec == MCInit /\ [][MCNext]_MCVars
=============================================================================
