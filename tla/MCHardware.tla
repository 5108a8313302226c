------------------------------ MODULE MCHardware ------------------------------
(***************************************************************************)
(* What lies between the session and the scanner, in one run: `which` says *)
(* which part goes on, the others rest in an initial state of theirs.      *)
(***************************************************************************)
EXTENDS Link, Usb, Boards, Sense, Watch

VARIABLE which
MCVars == <<which, lvars, usbVars, boardsVars, senseVars, watchVars>>

(* Link: two threads, one of them capped like the idle status thread; a    *)
(* read and a write of the same board, and a poll and a command of the     *)
(* board the wedge ping goes to.                                           *)
MCRequest == {[type |-> "read", addr |-> "light"], [type |-> "write", addr |-> "light"],
              [type |-> "poll", addr |-> "host"], [type |-> "command", addr |-> "host"]}

(* Boards: the window of the three bases, two lamp settings.               *)
Base8  == [off |-> 1, end |-> 1, int |-> 1, gain |-> 0, offs |-> 1, binned |-> FALSE, ir |-> FALSE, l89 |-> 1]
Base16 == [Base8 EXCEPT !.int = 0, !.gain = 1, !.l89 = 0]
Base4  == [Base16 EXCEPT !.off = 0, !.end = 0, !.binned = TRUE]
MCConfigs == {Base8, Base16, Base4}
MCLights  == {[enable |-> 1, levels |-> 1, duty |-> 1], [enable |-> 3, levels |-> 1, duty |-> 2]}

(* Calls that set the CCD and calls that set the lamp touch different      *)
(* registers and shadows and meet only in the caller's phase: a behaviour  *)
(* has the ones or the others; the lamp-off and the opening are in both.   *)
CcdNext  == BoardsNext /\ op'.name # "lamp" /\ res'.name # "lamp"
LampNext == BoardsNext /\ {op'.name, res'.name} \intersect {"ccd", "acquire"} = {}

UsbRests   == UsbInit /\ \A d \in SCANNERS : ids[d] = "boot" /\ ease[d] = "all"
BoardsRest == BoardsInit /\ caller = "session"
WatchRests == WatchInit /\ cmd = "scan"

MCInit ==
  \/ which = "link" /\ LinkInit /\ UsbRests /\ BoardsRest /\ SenseInit /\ WatchRests
  \/ which = "usb" /\ LinkInit /\ UsbInit /\ BoardsRest /\ SenseInit /\ WatchRests
  \/ which \in {"ccd", "lamp"} /\ LinkInit /\ UsbRests /\ BoardsInit /\ SenseInit /\ WatchRests
  \/ which = "sense" /\ LinkInit /\ UsbRests /\ BoardsRest /\ SenseInit /\ WatchRests
  \/ which = "watch" /\ LinkInit /\ UsbRests /\ BoardsRest /\ SenseInit /\ WatchInit

MCNext ==
  /\ UNCHANGED which
  /\ \/ which = "link" /\ LinkNext /\ UNCHANGED <<usbVars, boardsVars, senseVars, watchVars>>
     \/ which = "usb" /\ UsbNext /\ UNCHANGED <<lvars, boardsVars, senseVars, watchVars>>
     \/ which = "ccd" /\ CcdNext /\ UNCHANGED <<lvars, usbVars, senseVars, watchVars>>
     \/ which = "lamp" /\ LampNext /\ UNCHANGED <<lvars, usbVars, senseVars, watchVars>>
     \/ which = "sense" /\ SenseNext /\ UNCHANGED <<lvars, usbVars, boardsVars, watchVars>>
     \/ which = "watch" /\ WatchNext /\ UNCHANGED <<lvars, usbVars, boardsVars, senseVars>>

(* The fairness of LinkFairSpec, SenseSpec and WatchSpec.                  *)
MCSpec ==
  /\ MCInit /\ [][MCNext]_MCVars
  /\ WF_lvars(which = "link" /\ Exchange)
  /\ WF_senseVars(which = "sense" /\ (Poll \/ LoopReads \/ LoopStores \/ Release))
  /\ WF_senseVars(which = "sense" /\ (SenseTakes \/ SenseReads))
  /\ WF_senseVars(which = "sense" /\ ScanStarts)
  /\ WF_watchVars(which = "watch" /\ Main)
  /\ WF_watchVars(which = "watch" /\ Watcher)
  /\ WF_watchVars(which = "watch" /\ RunIsCancelled)
=============================================================================
