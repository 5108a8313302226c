-------------------------------- MODULE MCStores --------------------------------
(***************************************************************************)
(* The two stores on small instances.  They share the unit's directory and *)
(* nothing else (EepromStore!InstallSyncs), so a behaviour is one of       *)
(* either; `which` says whose.                                             *)
(***************************************************************************)
EXTENDS CalStore, EepromStore

CONSTANTS ownCal, otherCal, psiCal, i1, i2, i3, p1, p2
VARIABLE which

MCSymmetry == Permutations({p1, p2})     \* the processes are alike

(* A session's own calibration, one of another scanner's session, and a    *)
(* PSI import, for another base.                                           *)
MCImported(c) == c = psiCal
MCElsewhere(c) == c = otherCal
MCUtc(c) == CASE c = ownCal -> 1 [] c = otherCal -> 2 [] c = psiCal -> 3
MCBase(c) == IF c = psiCal THEN 16 ELSE 8
MCIr(c) == FALSE
MCKeys == {[base |-> b, ir |-> FALSE] : b \in {0, 8}}
MCHasCalWiz(i) == i # i3

StoresInit == StoreInit /\ EepromInit /\ which \in {"calibrations", "images"}

StoresNext ==
    \/ which = "calibrations" /\ StoreNext /\ UNCHANGED <<eepromVars, which>>
    \/ which = "images" /\ EepromNext /\ UNCHANGED <<storeVars, which>>

StoresSpec == StoresInit /\ [][StoresNext]_<<storeVars, eepromVars, which>>
=============================================================================
