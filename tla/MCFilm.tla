-------------------------------- MODULE MCFilm --------------------------------
(***************************************************************************)
(* A scan of a roll, the configuration it starts with, the sidecar it      *)
(* writes, and the film moved by hand, in one run: `which` says which part *)
(* goes on, the others rest in an initial state of theirs.                 *)
(***************************************************************************)
EXTENDS Scan, Config, Sidecar, Drive

VARIABLE which
MCVars == <<which, vars, configVars, sidecarVars, driveVars>>

AllLengths == 23..6401      \* every length the validation accepts, one beyond each end
AllControls == SUBSET {"splice", "scratch", "prescan", "unknown"}

DriveRests == DriveInit /\ job = "film"

MCInit ==
  \/ which \in {"scan", "config", "sidecar"} /\ ScanInit /\ ConfigInit /\ SidecarInit /\ DriveRests
  \/ which = "drive" /\ ScanInit /\ ConfigInit /\ SidecarInit /\ DriveInit

MCNext ==
  /\ UNCHANGED which
  /\ \/ which = "scan" /\ (Worker \/ Others) /\ UNCHANGED <<configVars, sidecarVars, driveVars>>
     \/ which = "config" /\ ConfigNext /\ UNCHANGED <<vars, sidecarVars, driveVars>>
     \/ which = "sidecar" /\ SidecarNext /\ UNCHANGED <<vars, configVars, driveVars>>
     \/ which = "drive" /\ DriveNext /\ UNCHANGED <<vars, configVars, sidecarVars>>

(* The fairness of ScanSpec and of DriveSpec.                              *)
MCSpec ==
  /\ MCInit /\ [][MCNext]_MCVars
  /\ WF_vars(which = "scan" /\ Worker)
  /\ WF_driveVars(which = "drive" /\ Main)
  /\ WF_driveVars(which = "drive" /\ Mover)
=============================================================================
