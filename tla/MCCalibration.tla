--------------------------- MODULE MCCalibration ---------------------------
(***************************************************************************)
(* The three parts of a calibration in one run: what `which` picks at the  *)
(* start goes on, the others rest in an initial state of theirs.           *)
(***************************************************************************)
EXTENDS MCLightSearch, Capture, CalRun

VARIABLE which
MCVars == <<which, lightVars, captureVars, calVars>>

NoJob == CHOOSE j \in JOBS : TRUE
LightRests == LightInit /\ job = NoJob
CalRests   == CalInit /\ ~ir /\ ~auto /\ records = <<>>

MCInit ==
    \/ which = "light" /\ LightInit /\ CaptureInit /\ CalRests
    \/ which = "capture" /\ LightRests /\ CaptureInit /\ CalRests
    \/ which = "run" /\ LightRests /\ CaptureInit /\ CalInit

MCNext ==
    /\ UNCHANGED which
    /\ \/ which = "light" /\ LightNext /\ UNCHANGED <<captureVars, calVars>>
       \/ which = "capture" /\ CaptureNext /\ UNCHANGED <<lightVars, calVars>>
       \/ which = "run" /\ CalNext /\ UNCHANGED <<lightVars, captureVars>>

MCSpec == MCInit /\ [][MCNext]_MCVars
=============================================================================
