-------------------------------- MODULE Drive ---------------------------------
(***************************************************************************)
(* The film drive and the callers that stop it (core/src/boards/film.c and *)
(* motor.c; cli/pakon.c, cli/hw1.c; session.c, calib/tests.c).  A move     *)
(* runs on a thread of its own and another thread stops it: pk_film_stop   *)
(* sends the stop and, when a move runs, asks it to end.  run() takes the  *)
(* film lock for each of its critical sections, so each is one step here,  *)
(* and clears the request when it starts.                                  *)
(*                                                                         *)
(* job is the caller: "film" (advance, reverse, eject), "motor" and "dx"   *)
(* (hw1's tests), "session" (pk_session_film_move with a stop from another *)
(* thread) and "track" (the read-only track test, which starts the motor   *)
(* without a mover).                                                       *)
(***************************************************************************)
EXTENDS Integers

CONSTANTS JOBS, FAULTS   \* callers, commands of which every attempt fails

ASSUME DriveAssumption == JOBS \subseteq {"film", "motor", "dx", "session", "track"} /\ FAULTS \in Nat

VARIABLES
  job, at, st,         \* the caller: where it is, the status it will return
  steps, sent, timed,  \* hw1 motor's moves left; move_for's flags
  mover, result,       \* the thread inside run(), and what run() returned
  film_moving, film_stop_req,
  intr,                \* Ctrl-C (the session's cancel, for the track test)
  motor, lost,         \* the film drive turns; the scanner is gone
  lastStop,            \* history: how the last motor stop ended
  asked,               \* history: the session's other thread has stopped the move it knew called
  faults

driveVars == <<job, at, st, steps, sent, timed, mover, result, film_moving, film_stop_req, intr, motor, lost, lastStop, asked, faults>>
caller == <<job, at, st, steps, sent, timed, intr, asked>>
thread == <<mover, result, film_moving>>

-----------------------------------------------------------------------------
(* pk_motor_stop: four attempts, and what the motor made of them.  A start *)
(* whose reply is lost may have started the motor, and is stopped unless   *)
(* the scanner is gone.                                                    *)
Mishap == faults < FAULTS /\ ~lost
Stops(m) ==
  (IF lost THEN {[motor |-> m, ok |-> FALSE, lost |-> TRUE]} ELSE {[motor |-> FALSE, ok |-> TRUE, lost |-> FALSE]})
  \union (IF Mishap THEN [motor : {m, FALSE}, ok : {FALSE}, lost : BOOLEAN] ELSE {})
Starts(m) ==
  (IF lost THEN {[motor |-> m, ok |-> FALSE, lost |-> TRUE]} ELSE {[motor |-> TRUE, ok |-> TRUE, lost |-> FALSE]})
  \union (IF Mishap THEN [motor : {m, TRUE}, ok : {FALSE}, lost : BOOLEAN] ELSE {})

Sends(o) == motor' = o.motor /\ lost' = o.lost /\ faults' = faults + (IF ~o.ok /\ ~lost THEN 1 ELSE 0)
Stopping(o) == Sends(o) /\ lastStop' = IF o.ok THEN "ok" ELSE "failed"

Started(o) ==   \* the start, with the stop of one that failed
  IF o.ok \/ o.lost THEN Sends(o) /\ UNCHANGED lastStop
  ELSE \E s \in Stops(o.motor) : Stopping(s)

FilmStop(o) == Stopping(o) /\ film_stop_req' = (film_stop_req \/ film_moving)
Status(o) == IF o.ok THEN "ok" ELSE "failed"

-----------------------------------------------------------------------------
(* run()                                                                   *)
RunStarts ==
  /\ mover = "called"
  /\ \E o \in Starts(motor) :
       /\ Started(o)
       /\ IF o.ok THEN mover' = "running" /\ film_moving' = TRUE /\ result' = "none"
          ELSE mover' = "done" /\ film_moving' = FALSE /\ result' = "failed"
  /\ film_stop_req' = FALSE
  /\ UNCHANGED caller

EndStatus(o, status) == IF o.ok THEN status ELSE "failed"
RunEnds(status) ==
  /\ \E o \in Stops(motor) : Stopping(o) /\ result' = EndStatus(o, status)
  /\ mover' = "done" /\ film_moving' = FALSE /\ film_stop_req' = FALSE
  /\ UNCHANGED caller

RunIsStopped == mover = "running" /\ film_stop_req /\ RunEnds("cancelled")
RunTimesOut  == mover = "running" /\ ~film_stop_req /\ RunEnds("ok")

-----------------------------------------------------------------------------
(* The callers                                                             *)
NewMove == mover' = "called" /\ result' = "none" /\ UNCHANGED film_moving
MainGoes(from, to) == at = from /\ at' = to

Begin ==
  /\ at = "begin" /\ job # "track"
  /\ NewMove
  /\ at' = (CASE job = "dx" -> "wait" [] job = "session" -> "blocked" [] OTHER -> "loop")
  /\ sent' = FALSE /\ timed' = FALSE
  /\ UNCHANGED <<job, st, steps, intr, asked, film_stop_req, motor, lost, lastStop, faults>>

(* move_for: a stop when Ctrl-C or the limit asks for one, and another     *)
(* each second while the mover has not returned                            *)
Resends_Once == ~sent
Resends == TRUE

MoveForStops ==
  /\ MainGoes("loop", "loop") /\ mover # "done"
  /\ Resends
  /\ sent' = TRUE /\ timed' = (timed \/ ~intr)
  /\ intr \/ timed \/ ~sent
  /\ \E o \in Stops(motor) : FilmStop(o)
  /\ UNCHANGED <<job, st, steps, intr, asked, thread>>

MoveForEnds ==
  /\ at = "loop" /\ mover = "done"
  /\ mover' = "none" /\ UNCHANGED <<result, film_moving>>
  /\ LET s == IF timed /\ ~intr /\ result = "cancelled" THEN "ok" ELSE result
     IN  /\ st' = s
         /\ at' = IF job = "motor" /\ s = "ok" THEN "report" ELSE "end"
  /\ UNCHANGED <<job, steps, sent, timed, intr, asked, film_stop_req, motor, lost, lastStop, faults>>

(* hw1 motor: the stop between its two moves, and the second's wait        *)
Report ==
  /\ at = "report"
  /\ \E o \in Stops(motor) :
       /\ FilmStop(o)
       /\ st' = (IF ~o.ok THEN "failed" ELSE IF intr THEN "cancelled" ELSE "ok")
       /\ at' = IF ~o.ok \/ intr THEN "end" ELSE IF steps > 1 THEN "begin" ELSE "exit"
  /\ steps' = steps - 1
  /\ UNCHANGED <<job, sent, timed, intr, asked, thread>>

(* hw1 dx: waits until a stop can take effect, then polls the reader until *)
(* the strip is through, Ctrl-C, or the end of the move                    *)
MayPass == mover = "done" \/ film_moving
DxWaits ==
  /\ at = "wait" /\ MayPass
  /\ st' = (IF intr THEN "cancelled" ELSE IF mover = "done" THEN "failed" ELSE "ok")
  /\ at' = IF st' = "ok" THEN "poll" ELSE "end"
  /\ UNCHANGED <<job, steps, sent, timed, intr, asked, thread, film_stop_req, motor, lost, lastStop, faults>>

DxPolls ==
  /\ MainGoes("poll", "end")
  /\ st' \in (IF intr THEN {"cancelled"} ELSE {"ok", "failed"})
  /\ UNCHANGED <<job, steps, sent, timed, intr, asked, thread, film_stop_req, motor, lost, lastStop, faults>>

DxJoins ==
  /\ MainGoes("join", "again") /\ mover = "done"
  /\ mover' = "none"
  /\ UNCHANGED <<job, st, steps, sent, timed, intr, asked, result, film_moving, film_stop_req, motor, lost, lastStop, faults>>

(* Every command's cleanup                                                 *)
CleanupStops ==
  /\ at \in {"end", "again"}
  /\ at' = IF at = "end" /\ job = "dx" THEN "join" ELSE "exit"
  /\ \E o \in Stops(motor) : FilmStop(o)
  /\ UNCHANGED <<job, st, steps, sent, timed, intr, asked, thread>>

(* pk_session_film_move returns; pk_session_film_stop, from any thread     *)
SessionMoveEnds ==
  /\ MainGoes("blocked", "exit") /\ mover = "done"
  /\ mover' = "none" /\ st' = result
  /\ UNCHANGED <<job, steps, sent, timed, intr, asked, result, film_moving, film_stop_req, motor, lost, lastStop, faults>>

SessionStops ==
  /\ at = "blocked" /\ ~asked /\ mover # "done"
  /\ \E o \in Stops(motor) : FilmStop(o) /\ asked' = o.ok
  /\ UNCHANGED <<job, at, st, steps, sent, timed, intr, thread>>

(* pkcal_track_test: the motor at three speeds, each a new start, and a    *)
(* stop; pk_track_test stops once more                                     *)
TrackStarts ==
  /\ job = "track" /\ at \in {"begin", "find", "film"} /\ ~intr
  /\ \E o \in Starts(motor) :
       /\ Started(o) /\ st' = Status(o)
       /\ at' = IF ~o.ok THEN (IF at = "begin" THEN "end" ELSE "stop")
                ELSE CASE at = "begin" -> "find" [] at = "find" -> "film" [] OTHER -> "through"
  /\ UNCHANGED <<job, steps, sent, timed, intr, asked, thread, film_stop_req>>

TrackCancelled ==
  /\ at \in {"find", "film", "through"} /\ intr
  /\ at' = "stop" /\ st' = "cancelled"
  /\ UNCHANGED <<job, steps, sent, timed, intr, asked, thread, film_stop_req, motor, lost, lastStop, faults>>

TrackStops ==   \* no film, the film through, or after a failure
  /\ at \in {"find", "film", "through", "stop"} /\ at' = "end"
  /\ \E o \in Stops(motor) : FilmStop(o) /\ st' = IF at # "stop" THEN Status(o) ELSE st
  /\ UNCHANGED <<job, steps, sent, timed, intr, asked, thread>>

TrackEnds ==
  /\ job = "track" /\ MainGoes("end", "exit")
  /\ \E o \in Stops(motor) : FilmStop(o) /\ st' = IF st = "ok" THEN Status(o) ELSE st
  /\ UNCHANGED <<job, steps, sent, timed, intr, asked, thread>>

Interrupt ==
  /\ ~intr /\ at # "exit" /\ job # "session" /\ (job = "track" => at # "begin")
  /\ intr' = TRUE
  /\ UNCHANGED <<job, at, st, steps, sent, timed, asked, thread, film_stop_req, motor, lost, lastStop, faults>>

DriveInit ==
  /\ job \in JOBS /\ at = "begin" /\ st = "ok"
  /\ steps = 2 /\ sent = FALSE /\ timed = FALSE
  /\ mover = "none" /\ result = "none" /\ film_moving = FALSE /\ film_stop_req = FALSE
  /\ intr = FALSE /\ motor = FALSE /\ lost = FALSE /\ lastStop = "none" /\ asked = FALSE /\ faults = 0

Main ==
  \/ Begin \/ MoveForStops \/ MoveForEnds \/ Report \/ DxWaits \/ DxPolls \/ DxJoins
  \/ job # "track" /\ CleanupStops
  \/ SessionMoveEnds \/ TrackStarts \/ TrackCancelled \/ TrackStops \/ TrackEnds
Mover == RunStarts \/ RunIsStopped

DriveNext == Main \/ Mover \/ RunTimesOut \/ SessionStops \/ Interrupt

(* The threads are scheduled.  A move's 300 s are no help: Ctrl-C must not *)
(* wait for them.                                                          *)
DriveSpec == DriveInit /\ [][DriveNext]_driveVars /\ WF_driveVars(Main) /\ WF_driveVars(Mover)

-----------------------------------------------------------------------------
(* When a command or a call has ended the motor stands, unless the last    *)
(* stop sent failed or the scanner is gone: no start comes after it.       *)
StoppedAtExit == at = "exit" /\ motor => lost \/ lastStop = "failed"

(* A command that returns success has stopped the motor; hw1's dx test,    *)
(* which returns what its reading gave, is the exception.                  *)
OkMeansStopped == at = "exit" /\ st = "ok" /\ job # "dx" => ~motor

(* Ctrl-C ends the command without waiting for the move's own limit, also  *)
(* when its first stop comes before the mover has started the motor and is *)
(* forgotten: "Ctrl-C always ends in the cleanup path" (cli/hw1.c:5).      *)
CtrlCEnds == intr ~> at = "exit"

(* However a move of the film is ended, it ends, with the motor stopped.   *)
DriveEnds == CtrlCEnds /\ [](StoppedAtExit /\ OkMeansStopped)

(* A move ends when another thread's stop was delivered ("Blocks until     *)
(* pk_film_stop", boards.h:156).                                           *)
StopEndsTheMove == asked ~> at = "exit"
=============================================================================
