-------------------------------- MODULE Watch ---------------------------------
(***************************************************************************)
(* The commands that drive a scan session from the command line            *)
(* (core/cli/hw2e.c): calibrate, track and scan, with the thread that      *)
(* turns Ctrl-C into pk_session_cancel and the session calls they make     *)
(* (pk_session_start, pk_session_wait, pk_calibrate, pk_track_test,        *)
(* pk_session_close in core/src/session/session.c).                        *)
(*                                                                         *)
(* The signal handler only sets a flag.  The watcher looks at it every     *)
(* 50 ms while a call runs; each start of a run clears the session's       *)
(* cancel flag, so a cancel sent just before is forgotten.  After a scan   *)
(* the session stays open until the film is removed.                       *)
(***************************************************************************)
EXTENDS Integers

CONSTANT PRESSES   \* bound: the Ctrl-C presses

ASSUME WatchAssumption == PRESSES \in Nat

VARIABLES
  cmd, at, passes,     \* the command, where it is, the calibration passes left
  watcher, stop, sent_cancel, \* the watcher thread, its stop flag, and whether it has cancelled once
  g_cli_intr,          \* the flag of the signal handler
  cancel,              \* the session's cancel flag
  sess,                \* the session: "none", "open", or "freed"
  running, st,         \* whether its worker runs, and the status of the last call
  pending,             \* pk_session_remove_film_pending: the film-removed hold
  rc, code,            \* the command's result and the exit code
  all,                 \* history: every run came to its own end
  presses

watchVars == <<cmd, at, passes, watcher, stop, sent_cancel, g_cli_intr, cancel, sess, running, st, pending, rc, code, all, presses>>
thread  == <<watcher, stop, sent_cancel>>
session == <<cancel, sess, running, st, pending, all>>
command == <<cmd, at, passes, rc, code>>
owner   == <<g_cli_intr, presses>>

Statuses == {"ok", "cancelled", "failed"}
Codes == {0, 1, 2, 130}

WatchTypeOK ==
  /\ cmd \in {"calibrate", "track", "scan"} /\ passes \in 1..2
  /\ at \in {"open", "arm", "start", "run", "stop", "join", "after", "hold", "wait", "left", "close", "end", "exit"}
  /\ watcher \in {"off", "look", "cancel"} /\ stop \in BOOLEAN /\ sent_cancel \in BOOLEAN
  /\ g_cli_intr \in BOOLEAN /\ presses \in 0..PRESSES
  /\ cancel \in BOOLEAN /\ sess \in {"none", "open", "freed"} /\ running \in BOOLEAN
  /\ st \in Statuses /\ pending \in BOOLEAN /\ all \in BOOLEAN
  /\ rc \in Codes /\ code \in Codes

Goes(from, to) == at = from /\ at' = to

-----------------------------------------------------------------------------
(* The watcher: it reads its stop flag and the signal's, cancels, sleeps   *)
Sends_Once == ~sent_cancel
Sends == TRUE

WatcherLooks ==
  /\ watcher = "look"
  /\ watcher' = IF stop THEN "off" ELSE IF g_cli_intr /\ Sends THEN "cancel" ELSE "look"
  /\ UNCHANGED <<stop, sent_cancel, session, command, owner>>

WatcherCancels ==
  /\ watcher = "cancel"
  /\ watcher' = "look" /\ sent_cancel' = TRUE /\ cancel' = TRUE
  /\ UNCHANGED <<stop, sess, running, st, pending, all, command, owner>>

-----------------------------------------------------------------------------
(* A call of the session: h2_open, watch_begin, the call, watch_end        *)
Opens ==
  /\ at = "open"
  /\ \/ at' = "arm" /\ sess' = "open" /\ UNCHANGED rc
     \/ at' = "end" /\ rc' = 1 /\ UNCHANGED sess
     \/ cmd = "scan" /\ at' = "close" /\ sess' = "open" /\ rc' \in {1, 2}     \* the setting is refused
  /\ UNCHANGED <<cmd, passes, code, thread, cancel, running, st, pending, all, owner>>

Arms ==
  /\ Goes("arm", "start")
  /\ watcher' \in {"look", "off"}                                            \* the thread may not start
  /\ stop' = FALSE /\ sent_cancel' = FALSE
  /\ UNCHANGED <<cmd, passes, rc, code, session, owner>>

Starts ==
  /\ at = "start"
  /\ \/ at' = "run" /\ cancel' = FALSE /\ running' = TRUE /\ UNCHANGED <<st, all>>
     \/ at' = "stop" /\ st' = "failed" /\ all' = FALSE /\ cancel' \in {cancel, FALSE} /\ UNCHANGED running
  /\ UNCHANGED <<cmd, passes, rc, code, thread, sess, pending, owner>>

RunReturns(s) ==
  /\ Goes("run", "stop") /\ running
  /\ running' = FALSE /\ st' = s /\ all' = (all /\ s = "ok")
  /\ pending' \in (IF cmd = "scan" THEN BOOLEAN ELSE {FALSE})
  /\ UNCHANGED <<cmd, passes, rc, code, thread, cancel, sess, owner>>
RunEndsByItself == \E s \in {"ok", "failed"} : RunReturns(s)
RunIsCancelled == cancel /\ RunReturns("cancelled")

StopsWatcher ==
  /\ Goes("stop", "join")
  /\ stop' = TRUE
  /\ UNCHANGED <<cmd, passes, rc, code, watcher, sent_cancel, session, owner>>

Joined == watcher = "off"

JoinsWatcher ==
  /\ Goes("join", "after") /\ Joined
  /\ UNCHANGED <<cmd, passes, rc, code, thread, session, owner>>

-----------------------------------------------------------------------------
(* What the command makes of it: finish_code, the second (IR) pass, the    *)
(* wait for the film to be removed, h2_close, the exit code                *)
finish_code(s) == CASE s = "ok" -> 0 [] s = "cancelled" -> 130 [] OTHER -> 1

PassAgain(c) == c = 0 /\ passes > 1

After(c) ==
  /\ at = "after" /\ cmd = c
  /\ rc' = finish_code(st)
  /\ UNCHANGED <<cmd, code, thread, session, owner>>
AfterCalibrate ==
  /\ After("calibrate")
  /\ IF PassAgain(rc') THEN at' = "arm" /\ passes' = passes - 1 ELSE at' = "close" /\ UNCHANGED passes
AfterTrack == After("track") /\ at' = "close" /\ UNCHANGED passes
AfterScan == After("scan") /\ at' = "hold" /\ UNCHANGED passes

HoldBegins ==
  /\ at = "hold"
  /\ at' = IF ~g_cli_intr /\ pending THEN "wait" ELSE "close"
  /\ UNCHANGED <<cmd, passes, rc, code, thread, session, owner>>

HoldIsLeft ==
  /\ Goes("wait", "left")
  /\ g_cli_intr \/ ~pending
  /\ UNCHANGED <<cmd, passes, rc, code, thread, session, owner>>

(* A Ctrl-C that only ends the wait is used up by it                       *)
FilmRemoved ==
  /\ Goes("left", "close")
  /\ g_cli_intr' = FALSE
  /\ UNCHANGED <<cmd, passes, rc, code, thread, session, presses>>

Closes ==
  /\ Goes("close", "end")
  /\ sess' = "freed" /\ cancel' = TRUE /\ pending' = FALSE
  /\ UNCHANGED <<cmd, passes, rc, code, thread, running, st, all, owner>>

Exits ==
  /\ Goes("end", "exit")
  /\ code' = IF g_cli_intr /\ rc = 0 THEN 130 ELSE rc
  /\ UNCHANGED <<cmd, passes, rc, thread, session, owner>>

-----------------------------------------------------------------------------
(* The owner, and the session's idle thread: it releases the hold, or dies *)
CtrlC ==
  /\ at # "exit" /\ presses < PRESSES
  /\ g_cli_intr' = TRUE /\ presses' = presses + 1
  /\ UNCHANGED <<thread, session, command>>

HoldIsReleased ==
  /\ pending /\ sess = "open" /\ pending' = FALSE
  /\ UNCHANGED <<thread, cancel, sess, running, st, all, command, owner>>

-----------------------------------------------------------------------------
WatchInit ==
  /\ cmd \in {"calibrate", "track", "scan"} /\ at = "open"
  /\ passes \in (IF cmd = "calibrate" THEN 1..2 ELSE {1})
  /\ watcher = "off" /\ stop = FALSE /\ sent_cancel = FALSE
  /\ g_cli_intr = FALSE /\ presses = 0
  /\ cancel = FALSE /\ sess = "none" /\ running = FALSE /\ st = "ok" /\ pending = FALSE /\ all = TRUE
  /\ rc = 0 /\ code = 0

Main ==
  \/ Opens \/ Arms \/ Starts \/ StopsWatcher \/ JoinsWatcher
  \/ AfterCalibrate \/ AfterTrack \/ AfterScan \/ HoldBegins \/ HoldIsLeft \/ FilmRemoved \/ Closes \/ Exits
Watcher == WatcherLooks \/ WatcherCancels

WatchNext == Main \/ Watcher \/ RunEndsByItself \/ RunIsCancelled \/ CtrlC \/ HoldIsReleased

(* The two threads run, and a run looks at the cancel flag in every wait.  *)
(* Nothing says that a run ends by itself or that the film is removed.     *)
WatchSpec ==
  /\ WatchInit /\ [][WatchNext]_watchVars
  /\ WF_watchVars(Main) /\ WF_watchVars(Watcher) /\ WF_watchVars(RunIsCancelled)

-----------------------------------------------------------------------------
(* A Ctrl-C during a call, or in the wait for the film, ends the program,  *)
(* also when its first cancel fell before the call cleared the flag        *)
(* (watch_main repeats it); only a run whose watcher could not be started  *)
(* does not hear it (hw2e.c:67).                                           *)
Unwatched == at \in {"start", "run"} /\ watcher = "off"
InterruptedCallEnds == (g_cli_intr /\ at \in {"run", "wait"} /\ ~Unwatched) ~> (at = "exit" \/ Unwatched)

(* The watcher never touches a session that h2_close has freed: watch_end  *)
(* joins it first, on every path.                                          *)
WatcherHasSession == watcher # "off" => sess = "open"

(* The exit code tells what the runs did: 0 only when every run came to    *)
(* its own end, and 130 only after a Ctrl-C (finish_code, cmd_calibrate's  *)
(* second pass, cli_cmd_hw2e's last line).                                 *)
ExitTellsTheRuns == at = "exit" => (code = 0 => all) /\ (code = 130 => presses > 0)

(* What the user may rely on of a Ctrl-C and of the exit code.             *)
InterruptIsHeard == InterruptedCallEnds /\ [](WatchTypeOK /\ WatcherHasSession /\ ExitTellsTheRuns)
==============================================================================
