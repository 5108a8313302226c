------------------------------- MODULE Session -------------------------------
(***************************************************************************)
(* The scan session (core/src/session/session.c, idle.c and the frame of   *)
(* scan.c and cal.c): the threads of one open session, the crash marker on *)
(* disk, and the scanner's film motor, lamp and film LED.                  *)
(*                                                                         *)
(* Threads.  The controlling thread c opens, starts, waits, calibrates,    *)
(* moves film and closes; the worker w performs one run; the idle status   *)
(* thread i polls between runs; any thread may cancel or stop the film.    *)
(* The process may die at any step and the cable may be pulled at any step.*)
(*                                                                         *)
(* A transfer to a scanner that answers succeeds, fails after taking       *)
(* effect (LOST) or fails without effect (FAIL).  A pulled cable or a      *)
(* wedged firmware fails every later transfer.                             *)
(***************************************************************************)

VARIABLES
  state, cancel, hw_busy, running, joinable, closing,   \* fields of pk_session
  cb,              \* whose callback s->cb is: "run", "cal" or "none"
  keep_film_led,   \* the remove-film hold
  shadow,          \* b->led.shadow: the film LED word last written with success
  end_motor_done, end_lamp_done,
  idle_active, film_manual, idle_stop, idle_dead,
  marker,          \* the file session.active exists
  c, w, i,         \* where the controlling, worker and idle threads are
  wst,             \* the worker's run status, later its final status
  wr,              \* the worker's `stopped r`
  motor, lamp,     \* who last started them: "off", "run", "manual", "track", "open", "cut"
  link,            \* "up", or how it fails for good: "GONE", "WEDGED"
  stop_acked,      \* history: pk_session_film_stop was acknowledged during this eject
  left_lit         \* history: an open removed the marker over a run's lamp it could not put out

api     == <<state, cancel, hw_busy, running, joinable, closing, cb>>
hold    == <<keep_film_led, shadow>>
ends    == <<end_motor_done, end_lamp_done>>
idle    == <<i, idle_active, idle_stop, idle_dead>>
worker  == <<w, wst, wr>>
scanner == <<motor, lamp, link>>
sessionHistory == <<stop_acked, left_lit>>
vars    == <<api, hold, ends, idle, film_manual, marker, c, worker, scanner, sessionHistory>>

State == {"IDLE", "WARMUP", "READY", "SCANNING", "DRAINING", "STOPPING", "FAULTED"}
Failed == {"HW", "GONE", "WEDGED"}
RunStatus == {"OK", "CANCELLED", "NO_FILM", "REFUSED"} \union Failed

IsHwFault(st) == st \in Failed
IsFinal(st)   == st \in {"GONE", "WEDGED"}

Replies   == IF link = "up" THEN {"OK", "LOST", "FAIL"} ELSE {link}
Took(r)   == r \in {"OK", "LOST"}
Status(r) == IF r \in {"LOST", "FAIL"} THEN "HW" ELSE r
After(r, old, new) == IF Took(r) THEN new ELSE old

NotStopped == [motor |-> FALSE, lamp |-> FALSE, absent |-> FALSE]

-----------------------------------------------------------------------------
(* A process without a session: calloc of the next pk_session, no threads. *)
Fresh ==
  /\ state' = "IDLE" /\ cancel' = FALSE /\ hw_busy' = FALSE /\ running' = FALSE
  /\ joinable' = FALSE /\ closing' = FALSE /\ cb' = "none"
  /\ keep_film_led' = FALSE /\ shadow' = "dark"
  /\ end_motor_done' = FALSE /\ end_lamp_done' = FALSE
  /\ i' = "none" /\ idle_active' = FALSE /\ idle_stop' = FALSE /\ idle_dead' = FALSE
  /\ film_manual' = FALSE
  /\ c' = "none" /\ w' = "none" /\ wst' = "OK" /\ wr' = NotStopped
  /\ stop_acked' = FALSE

Init ==
  /\ state = "IDLE" /\ cancel = FALSE /\ hw_busy = FALSE /\ running = FALSE
  /\ joinable = FALSE /\ closing = FALSE /\ cb = "none"
  /\ keep_film_led = FALSE /\ shadow = "dark"
  /\ end_motor_done = FALSE /\ end_lamp_done = FALSE
  /\ i = "none" /\ idle_active = FALSE /\ idle_stop = FALSE /\ idle_dead = FALSE
  /\ film_manual = FALSE
  /\ c = "none" /\ w = "none" /\ wst = "OK" /\ wr = NotStopped
  /\ stop_acked = FALSE
  /\ marker = FALSE /\ motor = "off" /\ lamp = "off" /\ link = "up" /\ left_lit = FALSE

-----------------------------------------------------------------------------
(* leave(): the replies <<m, l, f, x>> of the motor stop, the lamp-off, the*)
(* film-LED off and the other steps (acquire off, status LED), with `kept` *)
(* the hold at that moment.  A stop the scan's own end confirmed is not    *)
(* repeated; an LED the shadow says is dark is not written.                *)
LeaveReplies(kept) ==
  {p \in [m : Replies \union {"OK"}, l : Replies \union {"OK"},
          f : Replies \union {"OK"}, x : Replies \union {"OK"}] :
     /\ IF end_motor_done THEN p.m = "OK" ELSE p.m \in Replies
     /\ IF end_lamp_done THEN p.l = "OK" ELSE p.l \in Replies
     /\ IF kept \/ shadow = "dark" THEN p.f = "OK" ELSE p.f \in Replies}

Stopped(p) == [motor |-> p.m = "OK", lamp |-> p.l = "OK",
               absent |-> "GONE" \in {p.m, p.l, p.f, p.x}]

AllOK(p) == {p.m, p.l, p.f, p.x} = {"OK"}

Leave(p, kept) ==
  /\ motor' = IF end_motor_done THEN motor ELSE After(p.m, motor, "off")
  /\ lamp' = IF end_lamp_done THEN lamp ELSE After(p.l, lamp, "off")
  /\ shadow' = IF ~kept /\ p.f = "OK" THEN "dark" ELSE shadow
  /\ end_motor_done' = FALSE /\ end_lamp_done' = FALSE
  /\ UNCHANGED link

Clear(r) == (r.motor /\ r.lamp) \/ r.absent

(* pk_film_start_register: on a failure that is not final it stops the     *)
(* motor again, best effort (the reply q).                                 *)
StartMotor(r, q, who) ==
  motor' = IF r # "OK" /\ ~IsFinal(Status(r)) /\ Took(q) THEN "off" ELSE After(r, motor, who)

-----------------------------------------------------------------------------
(* pk_session_open.  A marker is stale: the process it names is gone.      *)
OpenBegin ==
  /\ c = "none" /\ link = "up"
  /\ c' = IF marker THEN "stop" ELSE "init"
  /\ UNCHANGED <<api, hold, ends, idle, film_manual, marker, worker, scanner, sessionHistory>>

(* safe_stop and marker_should_clear: the motor's stop alone removes the   *)
(* marker, also over a run's lamp that the lamp-off did not put out.       *)
OpenSafeStop ==
  /\ c = "stop"
  /\ \E m, l \in Replies :
       /\ motor' = After(m, motor, "off") /\ lamp' = After(l, lamp, "off")
       /\ IF m = "OK" \/ link = "GONE"
          THEN /\ marker' = FALSE
               /\ left_lit' = (lamp' = "run")
               /\ c' = "init"
               /\ UNCHANGED <<api, hold, ends, idle, film_manual, worker, stop_acked>>
          ELSE /\ Fresh
               /\ UNCHANGED <<marker, left_lit>>
  /\ UNCHANGED link

(* init_scanner up to its lamp-on, and from its lamp-off to the end.  A    *)
(* failure puts the lamp out again, bounded (lamp_off_bounded, reply q).   *)
(* A lamp a dead run left burning stays that run's until it is put out.    *)
OpenLampOn ==
  /\ c = "init"
  /\ \E r, q \in Replies :
       /\ lamp' = IF r # "OK" /\ Took(q) THEN "off"
                  ELSE After(r, lamp, IF lamp = "off" THEN "open" ELSE lamp)
       /\ IF r = "OK"
          THEN c' = "dark" /\ UNCHANGED <<api, hold, ends, idle, film_manual, worker, stop_acked>>
          ELSE Fresh
  /\ UNCHANGED <<marker, motor, link, left_lit>>

OpenDone ==
  /\ c = "dark"
  /\ \E r, q \in Replies :
       /\ lamp' = IF Took(r) \/ Took(q) THEN "off" ELSE lamp
       /\ IF r = "OK"
          THEN /\ c' = "free" /\ i' = "sleep" /\ left_lit' = FALSE
               /\ UNCHANGED <<api, hold, ends, idle_active, idle_stop, idle_dead, film_manual, worker, stop_acked>>
          ELSE Fresh /\ UNCHANGED left_lit
  /\ UNCHANGED <<marker, motor, link>>

-----------------------------------------------------------------------------
(* start_common, from the lock to the spawn; `spawned` is pthread_create's *)
(* result.  A refused start changes nothing but `joinable`.                *)
MayStart == state = "IDLE" /\ ~hw_busy /\ ~running /\ ~idle_active

Start(spawned) ==
  /\ c = "free" /\ MayStart
  /\ cb' = "run"
  /\ end_motor_done' = FALSE /\ end_lamp_done' = FALSE
  /\ cancel' = FALSE
  /\ IF spawned
     THEN /\ state' = "WARMUP" /\ hw_busy' = TRUE /\ running' = TRUE /\ joinable' = TRUE
          /\ marker' = TRUE
          /\ w' = "start"
     ELSE /\ joinable' = FALSE /\ marker' = FALSE
          /\ UNCHANGED <<state, hw_busy, running, w>>
  /\ stop_acked' = FALSE /\ UNCHANGED left_lit
  /\ UNCHANGED <<closing, hold, idle, film_manual, c, wst, wr, scanner>>

(* pk_session_wait.                                                        *)
WaitBegin ==
  /\ c = "free" /\ c' = "waiting"
  /\ UNCHANGED <<api, hold, ends, idle, film_manual, marker, worker, scanner, sessionHistory>>

WaitEnd ==
  /\ c = "waiting" /\ ~running
  /\ joinable' = FALSE /\ c' = "free"
  /\ UNCHANGED <<state, cancel, hw_busy, running, closing, cb, hold, ends, idle, film_manual, marker, worker, scanner, sessionHistory>>

(* pk_session_cancel and pk_session_film_stop, from any thread.            *)
Open == c \notin {"none", "stop", "init", "dark", "close_join", "destroy"}

Cancel ==
  /\ Open
  /\ cancel' = TRUE
  /\ UNCHANGED <<state, hw_busy, running, joinable, closing, cb, hold, ends, idle, film_manual, marker, c, worker, scanner, sessionHistory>>

FilmStop ==
  /\ Open
  /\ \E r \in Replies :
       /\ motor' = After(r, motor, "off")
       /\ stop_acked' = (stop_acked \/ (w \in {"eject", "push"} /\ r = "OK"))
  /\ UNCHANGED <<api, hold, ends, idle, film_manual, marker, c, worker, lamp, link, left_lit>>
-----------------------------------------------------------------------------
(* The worker.  Goto(to, st): the run goes on at `to` with status st.      *)
Goto(to, st) == w' = to /\ wst' = st /\ UNCHANGED wr

(* A step that ends in a failure the scanner or the cable gives.           *)
Failures == {Status(r) : r \in Replies \ {"OK"}}

(* pks_warm_lamp: lamp on, levels, duty; then the stability wait, which    *)
(* polls the cancel flag and gives up on a fault or at its time limit.     *)
WarmLamp ==
  /\ w = "start"
  /\ \E r \in Replies :
       /\ lamp' = After(r, lamp, "run")
       /\ IF r = "OK" THEN Goto("warming", "OK") ELSE Goto("end_run", Status(r))
  /\ UNCHANGED <<api, hold, ends, idle, film_manual, marker, c, motor, link, sessionHistory>>

WarmedUp ==
  /\ w = "warming"
  /\ \/ link = "up" /\ Goto("warm", "OK")
     \/ \E st \in Failures : Goto("end_run", st)
  /\ UNCHANGED <<api, hold, ends, idle, film_manual, marker, c, scanner, sessionHistory>>

WarmUpCancelled ==
  /\ w = "warming" /\ cancel
  /\ Goto("end_run", "CANCELLED")
  /\ UNCHANGED <<api, hold, ends, idle, film_manual, marker, c, scanner, sessionHistory>>

(* run(): READY, then SCANNING, each after a look at the cancel flag.      *)
RunGoesOn ==
  /\ w \in {"warm", "ready"}
  /\ IF cancel THEN Goto("end_run", "CANCELLED") /\ UNCHANGED state
     ELSE IF w = "warm" THEN Goto("ready", "OK") /\ state' = "READY"
     ELSE Goto("scan", "OK") /\ state' = "SCANNING"
  /\ UNCHANGED <<cancel, hw_busy, running, joinable, closing, cb, hold, ends, idle, film_manual, marker, c, scanner, sessionHistory>>

(* pks_scan_sequence up to the forced status pass; film over a sensor      *)
(* refuses the scan and lights "remove film" (led_phase 3), which is a     *)
(* hold only if the LED was really written.                                *)
HoldAfterWrite(r) == r = "OK"

ForcedPass ==
  /\ w = "scan"
  /\ \/ /\ cancel
        /\ Goto("end_scan", "CANCELLED")
        /\ keep_film_led' = FALSE /\ UNCHANGED shadow
     \/ \E st \in Failures :
          Goto("end_scan", st) /\ keep_film_led' = FALSE /\ UNCHANGED shadow
     \/ \E r \in Replies :
          /\ link = "up"
          /\ Goto("end_scan", "REFUSED")
          /\ keep_film_led' = HoldAfterWrite(r)
          /\ shadow' = IF r = "OK" THEN "remove" ELSE shadow
     \/ /\ link = "up"
        /\ Goto("armed", "OK")
        /\ keep_film_led' = FALSE /\ shadow' = "dark"
  /\ UNCHANGED <<api, ends, idle, film_manual, marker, c, scanner, sessionHistory>>

(* run_scan to the first line: the motor is started and does not wait; the *)
(* stream is armed after it, and either may fail.                          *)
ScanStarts ==
  /\ w = "armed"
  /\ \/ cancel /\ Goto("end_scan", "CANCELLED") /\ UNCHANGED motor
     \/ link = "up" /\ Goto("end_scan", "REFUSED") /\ UNCHANGED motor
     \/ \E r, q \in Replies :
          /\ StartMotor(r, q, "run")
          /\ \/ r = "OK" /\ Goto("scanning", "OK")
             \/ \E st \in Failures : (r # "OK" => st = Status(r)) /\ Goto("end_scan", st)
  /\ UNCHANGED <<api, hold, ends, idle, film_manual, marker, c, lamp, link, sessionHistory>>

(* The scan loop: the film LED follows the film; the loop ends with the    *)
(* roll, without film, on an error, or when it sees the cancel flag.       *)
(* end_scan then stops the stream (DRAINING).                              *)
FilmLedPhase ==
  /\ w = "scanning" /\ link = "up"
  /\ shadow' \in {"dark", "remove"} \ {shadow}
  /\ UNCHANGED <<api, keep_film_led, ends, idle, film_manual, marker, c, worker, scanner, sessionHistory>>

ScanEnds ==
  /\ w = "scanning"
  /\ \E st \in Failures \union (IF link = "up" THEN {"OK", "NO_FILM", "REFUSED", "HW"} ELSE {}) :
       Goto("end_scan", st)
  /\ state' = "DRAINING"
  /\ UNCHANGED <<cancel, hw_busy, running, joinable, closing, cb, hold, ends, idle, film_manual, marker, c, scanner, sessionHistory>>

ScanCancelled ==
  /\ w = "scanning" /\ cancel
  /\ Goto("end_scan", "CANCELLED")
  /\ state' = "DRAINING"
  /\ UNCHANGED <<cancel, hw_busy, running, joinable, closing, cb, hold, ends, idle, film_manual, marker, c, scanner, sessionHistory>>

(* end_scan: lamp off, DX stop (x), motor stop, each whatever the others   *)
(* gave; then the film LED off, or held while film covers a sensor.        *)
NoteStop_Sent(r) == TRUE
NoteStop(r) == r = "OK"

EndScan ==
  /\ w = "end_scan"
  /\ \E l, x, m \in Replies :
       /\ lamp' = After(l, lamp, "off") /\ end_lamp_done' = NoteStop(l)
       /\ motor' = After(m, motor, "off") /\ end_motor_done' = NoteStop(m)
       /\ Goto("end_run", IF wst = "OK" /\ {l, x, m} # {"OK"} THEN "HW" ELSE wst)
  /\ \/ /\ keep_film_led \/ state # "DRAINING"
        /\ UNCHANGED hold
     \/ /\ ~keep_film_led /\ state = "DRAINING" /\ shadow = "remove"
        /\ keep_film_led' = TRUE /\ UNCHANGED shadow
     \/ /\ ~keep_film_led /\ state = "DRAINING"
        /\ \E r \in Replies : shadow' = IF r = "OK" THEN "dark" ELSE shadow
        /\ UNCHANGED keep_film_led
  /\ UNCHANGED <<api, idle, film_manual, marker, c, link, sessionHistory>>

WorkerStopping ==
  /\ w = "end_run"
  /\ state' = "STOPPING" /\ w' = "leave"
  /\ UNCHANGED <<cancel, hw_busy, running, joinable, closing, cb, hold, ends, idle, film_manual, marker, c, wst, wr, scanner, sessionHistory>>

(* session_leave, the final status, and whether the film is ejected.       *)
WorkerLeave ==
  /\ w = "leave"
  /\ \E p \in LeaveReplies(keep_film_led) :
       LET r == Stopped(p) IN
         /\ Leave(p, keep_film_led)
         /\ wr' = r
         /\ wst' = IF ~AllOK(p) /\ ~IsHwFault(wst) THEN "HW" ELSE wst
         /\ w' = IF wst # "NO_FILM" /\ ~IsFinal(wst) /\ ~r.absent /\ r.motor /\ r.lamp /\ ~closing
                 THEN "eject" ELSE "finish"
  /\ UNCHANGED <<api, keep_film_led, idle, film_manual, marker, c, sessionHistory>>

(* eject_push: Sleep(300) unless the session closes, the push, the stop.   *)
EjectStart ==
  /\ w = "eject"
  /\ IF closing THEN w' = "finish" /\ UNCHANGED motor
     ELSE \E r, q \in Replies :
            /\ StartMotor(r, q, "run")
            /\ w' = IF r = "OK" \/ IsFinal(Status(r)) THEN "push" ELSE "push_failed"
  /\ UNCHANGED <<api, hold, ends, idle, film_manual, marker, c, wst, wr, lamp, link, sessionHistory>>

EjectStop ==
  /\ w \in {"push", "push_failed"}
  /\ \E m \in Replies :
       LET lost == w = "push" /\ IsFinal(Status(m)) IN
         /\ motor' = After(m, motor, "off")
         /\ wr' = [wr EXCEPT !.motor = @ /\ m = "OK",
                             !.absent = @ \/ (lost /\ m = "GONE")]
         /\ wst' = IF lost /\ ~IsHwFault(wst) THEN Status(m) ELSE wst
  /\ w' = "finish"
  /\ UNCHANGED <<api, hold, ends, idle, film_manual, marker, c, lamp, link, sessionHistory>>

(* The marker, then the end state; a hold does not survive FAULTED.        *)
EndState_IgnoresUnconfirmed == IF IsHwFault(wst) THEN "FAULTED" ELSE "IDLE"
EndState == IF IsHwFault(wst) \/ ~Clear(wr) THEN "FAULTED" ELSE "IDLE"

RunMarkerAfter_Always == FALSE
RunMarkerAfter == marker /\ ~Clear(wr)

WorkerFinish ==
  /\ w = "finish"
  /\ marker' = RunMarkerAfter
  /\ IF EndState = "FAULTED" \/ wr.absent
     THEN /\ keep_film_led' = FALSE
          /\ \E f \in Replies :
               shadow' = IF keep_film_led /\ ~wr.absent /\ f = "OK" THEN "dark" ELSE shadow
     ELSE UNCHANGED hold
  /\ w' = "settle"
  /\ UNCHANGED <<api, ends, idle, film_manual, c, wst, wr, scanner, sessionHistory>>

WorkerSettle ==
  /\ w = "settle"
  /\ state' = EndState /\ hw_busy' = FALSE
  /\ w' = "emit"
  /\ UNCHANGED <<cancel, running, joinable, closing, cb, hold, ends, idle, film_manual, marker, c, wst, wr, scanner, sessionHistory>>

(* pks_emit_state of the end state, through s->cb; then the thread ends.   *)
WorkerEmit ==
  /\ w = "emit" /\ w' = "exit"
  /\ UNCHANGED <<api, hold, ends, idle, film_manual, marker, c, wst, wr, scanner, sessionHistory>>

WorkerExit ==
  /\ w = "exit"
  /\ running' = FALSE
  /\ w' = "none" /\ wst' = "OK" /\ wr' = NotStopped
  /\ UNCHANGED <<state, cancel, hw_busy, joinable, closing, cb, hold, ends, idle, film_manual, marker, c, scanner, sessionHistory>>
-----------------------------------------------------------------------------
(* The idle status thread.  A poll starts under mu; a poll that ends tells *)
(* the waiting claims.  The first final status ends the thread.            *)
IdleMayPoll == ~running /\ state = "IDLE" /\ (~hw_busy \/ film_manual)

IdlePollBegin ==
  /\ i = "sleep" /\ ~idle_stop /\ IdleMayPoll
  /\ i' = "poll" /\ idle_active' = TRUE
  /\ UNCHANGED <<api, hold, ends, idle_stop, idle_dead, film_manual, marker, c, worker, scanner, sessionHistory>>

IdleActiveAfter(st) == FALSE

(* idle_poll: it fails, or does not release the hold, or sees both sensors *)
(* clear and puts the film LED out (release_hold).                         *)
IdlePollEnd ==
  /\ i = "poll"
  /\ \E r \in Replies :
       /\ i' = IF IsFinal(r) THEN "leaving" ELSE "sleep"
       /\ idle_active' = IdleActiveAfter(Status(r))
       /\ \/ UNCHANGED hold
          \/ /\ r = "OK" /\ keep_film_led
             /\ keep_film_led' = FALSE /\ shadow' = "dark"
  /\ UNCHANGED <<api, ends, idle_stop, idle_dead, film_manual, marker, c, worker, scanner, sessionHistory>>

IdleLeaves ==
  /\ i = "leaving"
  /\ keep_film_led' = FALSE /\ idle_dead' = TRUE /\ i' = "gone"
  /\ UNCHANGED <<api, shadow, ends, idle_active, idle_stop, film_manual, marker, c, worker, scanner, sessionHistory>>

IdleStops ==
  /\ i = "sleep" /\ idle_stop
  /\ i' = "gone"
  /\ UNCHANGED <<api, hold, ends, idle_active, idle_stop, idle_dead, film_manual, marker, c, worker, scanner, sessionHistory>>

-----------------------------------------------------------------------------
(* pks_claim: hw_busy is set first, then a poll in progress is waited for. *)
MayClaim_AnyState == ~hw_busy
MayClaim == state \in {"IDLE", "READY"} /\ ~hw_busy

Claiming == [control |-> "claim_control", track |-> "claim_track", cal |-> "claim_cal"]
Jobs == DOMAIN Claiming

Claim(job) ==
  /\ c = "free" /\ MayClaim
  /\ hw_busy' = TRUE /\ c' = Claiming[job]
  /\ UNCHANGED <<state, cancel, running, joinable, closing, cb, hold, ends, idle, film_manual, marker, worker, scanner, sessionHistory>>

GrantNow_Unwaited == TRUE
GrantNow == ~idle_active

Granted(job) ==
  /\ c = Claiming[job] /\ GrantNow
  /\ c' = job
  /\ UNCHANGED <<api, hold, ends, idle, film_manual, marker, worker, scanner, sessionHistory>>

(* pks_release.                                                            *)
Release == hw_busy' = FALSE /\ film_manual' = FALSE /\ c' = "free"

(* The short controls (leds_reset, guide_set, rollers): the LED, the guide *)
(* and the rollers; neither the motor nor the lamp.                        *)
ControlEnds ==
  /\ c = "control"
  /\ Release
  /\ UNCHANGED <<state, cancel, running, joinable, closing, cb, hold, ends, idle, marker, worker, scanner, sessionHistory>>

(* claim_film, then pk_film_move or pk_film_eject: start, run until Stop or*)
(* the time limit, stop.  No marker is written.                            *)
ClaimFilm ==
  /\ c = "free" /\ MayClaim
  /\ hw_busy' = TRUE /\ film_manual' = TRUE /\ c' = "move"
  /\ UNCHANGED <<state, cancel, running, joinable, closing, cb, hold, ends, idle, marker, worker, scanner, sessionHistory>>

MoveStarts ==
  /\ c = "move"
  /\ \E r, q \in Replies :
       /\ StartMotor(r, q, "manual")
       /\ IF r = "OK" THEN c' = "moving" /\ UNCHANGED <<hw_busy, film_manual>> ELSE Release
  /\ UNCHANGED <<state, cancel, running, joinable, closing, cb, hold, ends, idle, marker, worker, lamp, link, sessionHistory>>

MoveEnds ==
  /\ c = "moving"
  /\ \E m \in Replies : motor' = After(m, motor, "off")
  /\ Release
  /\ UNCHANGED <<state, cancel, running, joinable, closing, cb, hold, ends, idle, marker, worker, lamp, link, sessionHistory>>

(* pk_track_test: the motor runs under the marker; a motor stop alone      *)
(* clears it (no lamp is lit).  The session stays IDLE.                    *)
TrackStarts ==
  /\ c = "track"
  /\ cancel' = FALSE
  /\ \/ Release /\ UNCHANGED <<motor, marker>>
     \/ /\ marker' = TRUE
        /\ \E r, q \in Replies : StartMotor(r, q, "track")
        /\ c' = "tracking" /\ UNCHANGED <<hw_busy, film_manual>>
  /\ UNCHANGED <<state, running, joinable, closing, cb, hold, ends, idle, worker, lamp, link, sessionHistory>>

TrackEnds ==
  /\ c = "tracking"
  /\ \E m \in Replies :
       /\ motor' = After(m, motor, "off")
       /\ marker' = (marker /\ m # "OK" /\ m # "GONE")
  /\ Release
  /\ UNCHANGED <<state, cancel, running, joinable, closing, cb, hold, ends, idle, worker, lamp, link, sessionHistory>>

(* pk_calibrate on the controlling thread.  It fails to write the marker,  *)
(* or warms the lamp up and measures; pks_sync_end leaves and settles the  *)
(* state (cal_end_hw after a hardware failure).                            *)
CalBegins ==
  /\ c = "cal"
  /\ cancel' = FALSE
  /\ \/ Release /\ cb' = "none" /\ UNCHANGED <<state, marker>>
     \/ /\ marker' = TRUE /\ state' = "WARMUP" /\ cb' = "cal" /\ c' = "cal_dark"
        /\ UNCHANGED <<hw_busy, film_manual>>
  /\ UNCHANGED <<running, joinable, closing, hold, ends, idle, worker, scanner, sessionHistory>>

CalEnd(st) == c' = IF IsHwFault(st) THEN "cal_end_hw" ELSE "cal_end"

CalWarms ==
  /\ c = "cal_dark"
  /\ \/ CalEnd("REFUSED") /\ UNCHANGED lamp
     \/ \E r \in Replies :
          /\ lamp' = After(r, lamp, "run")
          /\ IF r = "OK" THEN c' = "cal_warming" ELSE CalEnd(Status(r))
  /\ UNCHANGED <<api, hold, ends, idle, film_manual, marker, worker, motor, link, sessionHistory>>

CalMeasures ==
  /\ c = "cal_warming"
  /\ \/ link = "up" /\ c' = "cal_measuring" /\ state' = "SCANNING"
     \/ UNCHANGED state /\ \E st \in Failures \union (IF cancel THEN {"CANCELLED"} ELSE {}) : CalEnd(st)
  /\ UNCHANGED <<cancel, hw_busy, running, joinable, closing, cb, hold, ends, idle, film_manual, marker, worker, scanner, sessionHistory>>

CalLampOff ==
  /\ c = "cal_measuring"
  /\ \E l \in Replies, st \in {"OK", "REFUSED"} \union Failures :
       /\ lamp' = After(l, lamp, "off") /\ end_lamp_done' = NoteStop(l)
       /\ CalEnd(IF st = "OK" THEN Status(l) ELSE st)
  /\ UNCHANGED <<api, hold, end_motor_done, idle, film_manual, marker, worker, motor, link, sessionHistory>>

CalSyncEnd ==
  /\ c \in {"cal_end", "cal_end_hw"}
  /\ keep_film_led' = FALSE
  /\ \E p \in LeaveReplies(FALSE) :
       /\ Leave(p, FALSE)
       /\ marker' = (marker /\ ~Clear(Stopped(p)))
       /\ state' = IF Clear(Stopped(p)) /\ c = "cal_end" THEN "IDLE" ELSE "FAULTED"
  /\ c' = "cal_return"
  /\ UNCHANGED <<cancel, hw_busy, running, joinable, closing, cb, idle, film_manual, worker, sessionHistory>>

CalReturns ==
  /\ c = "cal_return"
  /\ cb' = "none" /\ Release
  /\ UNCHANGED <<state, cancel, running, joinable, closing, hold, ends, idle, marker, worker, scanner, sessionHistory>>
-----------------------------------------------------------------------------
(* pk_session_close: cancel and wait for a run, end the idle thread, leave,*)
(* and clear a marker that is still there if the stops are confirmed.      *)
CancelAtClose_Missing == cancel
CancelAtClose == TRUE

CloseBegins ==
  /\ c = "free"
  /\ closing' = TRUE /\ cancel' = CancelAtClose
  /\ c' = "close_wait"
  /\ UNCHANGED <<state, hw_busy, running, joinable, cb, hold, ends, idle, film_manual, marker, worker, scanner, sessionHistory>>

CloseWaited ==
  /\ c = "close_wait" /\ ~running
  /\ joinable' = FALSE /\ idle_stop' = TRUE
  /\ c' = "close_join"
  /\ UNCHANGED <<state, cancel, hw_busy, running, closing, cb, hold, ends, i, idle_active, idle_dead, film_manual, marker, worker, scanner, sessionHistory>>

CloseLeaves ==
  /\ c = "close_join" /\ i = "gone"
  /\ keep_film_led' = FALSE
  /\ \E p \in LeaveReplies(FALSE) :
       Leave(p, FALSE) /\ marker' = (marker /\ ~Clear(Stopped(p)))
  /\ c' = "destroy"
  /\ UNCHANGED <<api, idle, film_manual, worker, sessionHistory>>

Destroy ==
  /\ c = "destroy"
  /\ Fresh
  /\ UNCHANGED <<marker, scanner, left_lit>>

-----------------------------------------------------------------------------
(* The world: the process dies and leaves the scanner and the disk as they *)
(* are; the cable is pulled, and with it every driver of the motor and the *)
(* lamp loses them ("cut"); the firmware wedges; between two sessions the  *)
(* cable comes back or the scanner is switched off and on.                 *)
Crash ==
  /\ c # "none"
  /\ Fresh
  /\ UNCHANGED <<marker, scanner, left_lit>>

Unplug ==
  /\ link = "up" /\ link' = "GONE"
  /\ motor' = IF motor \in {"run", "track"} THEN "cut" ELSE motor
  /\ lamp' = IF lamp = "run" THEN "cut" ELSE lamp
  /\ UNCHANGED <<api, hold, ends, idle, film_manual, marker, c, worker, sessionHistory>>

Wedge ==
  /\ c # "none" /\ link = "up" /\ link' = "WEDGED"
  /\ UNCHANGED <<api, hold, ends, idle, film_manual, marker, c, worker, motor, lamp, sessionHistory>>

Replug ==
  /\ c = "none" /\ link = "GONE" /\ link' = "up"
  /\ UNCHANGED <<api, hold, ends, idle, film_manual, marker, c, worker, motor, lamp, sessionHistory>>

PowerCycle ==
  /\ c = "none"
  /\ motor' = "off" /\ lamp' = "off" /\ link' = "up" /\ left_lit' = FALSE
  /\ UNCHANGED <<api, hold, ends, idle, film_manual, marker, c, worker, stop_acked>>

Controller ==
  \/ OpenBegin \/ OpenSafeStop \/ OpenLampOn \/ OpenDone
  \/ (\E b \in BOOLEAN : Start(b)) \/ WaitBegin \/ WaitEnd
  \/ (\E job \in Jobs : Claim(job) \/ Granted(job))
  \/ ControlEnds \/ ClaimFilm \/ MoveStarts \/ MoveEnds \/ TrackStarts \/ TrackEnds
  \/ CalBegins \/ CalWarms \/ CalMeasures \/ CalLampOff \/ CalSyncEnd \/ CalReturns
  \/ CloseBegins \/ CloseWaited \/ CloseLeaves \/ Destroy

AnyThread == Cancel \/ FilmStop

(* The worker's waits (warm-up, scan loop) have no bound of their own here.*)
WorkerWaits == WarmedUp \/ FilmLedPhase \/ ScanEnds
WorkerSteps ==
  \/ WarmLamp \/ WarmUpCancelled \/ RunGoesOn \/ ForcedPass \/ ScanStarts \/ ScanCancelled
  \/ EndScan \/ WorkerStopping \/ WorkerLeave \/ EjectStart \/ EjectStop
  \/ WorkerFinish \/ WorkerSettle \/ WorkerEmit \/ WorkerExit

IdleThread == IdlePollBegin \/ IdlePollEnd \/ IdleLeaves \/ IdleStops

World == Crash \/ Unplug \/ Wedge \/ Replug \/ PowerCycle

Next == Controller \/ AnyThread \/ WorkerWaits \/ WorkerSteps \/ IdleThread \/ World

Spec == Init /\ [][Next]_vars

(* A thread that can step does; a transfer ends.  Nothing is assumed of    *)
(* how long a warm-up or a scan lasts.                                     *)
Fairness ==
  /\ WF_vars(WorkerSteps)
  /\ WF_vars(IdlePollEnd \/ IdleLeaves \/ IdleStops)
  /\ WF_vars((\E job \in Jobs : Granted(job)) \/ WaitEnd \/ CloseWaited \/ CloseLeaves \/ Destroy)

FairSpec == Spec /\ Fairness

-----------------------------------------------------------------------------
Absent == {"none", "stop", "init", "dark"}
WorkerOwns == w \notin {"none", "emit", "exit"}
ControlOwns == c \in {"control", "track", "tracking", "cal", "cal_dark", "cal_warming", "cal_measuring", "cal_end", "cal_end_hw"}
MoveOwns == c \in {"move", "moving"}

(* Types; a worker thread exists exactly while `running`, and idle_active  *)
(* says exactly when the idle thread's poll is on the bus.                 *)
TypeOK ==
  /\ state \in State
  /\ {cancel, hw_busy, running, joinable, closing, keep_film_led, end_motor_done, end_lamp_done,
      idle_active, film_manual, idle_stop, idle_dead, marker, stop_acked, left_lit} \subseteq BOOLEAN
  /\ cb \in {"none", "run", "cal"} /\ shadow \in {"dark", "remove"}
  /\ motor \in {"off", "run", "manual", "track", "cut"} /\ lamp \in {"off", "run", "open", "cut"}
  /\ link \in {"up", "GONE", "WEDGED"}
  /\ wst \in RunStatus /\ wr \in [motor : BOOLEAN, lamp : BOOLEAN, absent : BOOLEAN]
  /\ (w # "none") = running
  /\ (i = "poll") = idle_active

(* idle.c:6 and session.h: the boards have one user at a time.  A run and  *)
(* a control never overlap, and an idle poll runs beside neither; only a   *)
(* manual film move may have a poll beside it.                             *)
BoardsHaveOneOwner ==
  /\ WorkerOwns => ~ControlOwns /\ ~MoveOwns
  /\ i = "poll" => ~WorkerOwns /\ ~ControlOwns

(* A motor that a run started and that may still turn is told by the       *)
(* marker on disk at every point at which the process can die.  So is a    *)
(* lamp a run or a calibration lit, but for one: of a marker a dead        *)
(* process left, the next open asks the motor's stop alone, and the lamp   *)
(* it has not put out then burns untold until an open gets it dark.  In an *)
(* open session every run's lamp is told.                                  *)
RunIsMarked ==
  /\ motor = "run" => marker
  /\ lamp = "run" => marker \/ (left_lit /\ c \in Absent)

(* A session that says IDLE has stopped the motor and the lamp of every    *)
(* run and calibration it made; otherwise it must say FAULTED.             *)
IdleIsStopped ==
  c \notin Absent /\ state = "IDLE" => motor # "run" /\ lamp \notin {"run", "open"}

(* session_leave skips a stop the scan's own end confirmed: rightly, since *)
(* nothing starts the motor or the lamp in between.                        *)
SkippedStopsAreTrue ==
  /\ end_motor_done => motor = "off"
  /\ end_lamp_done => lamp = "off"

(* pk_session_remove_film_pending: the hold stands only while the film LED *)
(* was last written "remove film", and never in a FAULTED session.         *)
HoldIsLit == keep_film_led => state # "FAULTED" /\ shadow = "remove"

(* What the session's own books say of its threads and of the hardware.    *)
BooksAreTrue == TypeOK /\ SkippedStopsAreTrue /\ HoldIsLit

(* A FAULTED session stays FAULTED until it is closed or dies.             *)
FaultedUntilClosed == [][state = "FAULTED" => state' = "FAULTED" \/ c' = "none"]_vars

(* A cancelled run ends, eject included.                                   *)
CancelEndsRun == cancel /\ running ~> ~running

(* A control that has claimed the boards gets them: the poll it waits for  *)
(* ends, also when the poll finds the scanner gone.                        *)
ClaimIsGranted == c \in {"claim_control", "claim_track", "claim_cal"} ~> c \notin {"claim_control", "claim_track", "claim_cal"}

(* pk_session_close returns.                                               *)
CloseReturns == closing ~> c = "none"

(* No caller of the session waits for ever.                                *)
WaitsEnd == CancelEndsRun /\ ClaimIsGranted /\ CloseReturns

-----------------------------------------------------------------------------
(* session.h:118: pk_session_film_stop stops the eject at once, so the     *)
(* motor does not run in an eject that has been stopped.                   *)
StoppedEjectStaysStopped == ~(stop_acked /\ w = "push" /\ motor = "run")

(* session.h:92: the STATE event of a run's end closes its eject: it must  *)
(* reach the callback the run was started with.                            *)
EndEventReachesItsRun == w = "emit" => cb = "run"

(* session.c:5-6: the marker lets the next process stop a scanner that a   *)
(* dead one left running: an opened session's film motor stands still.     *)
OpenStopsLeftovers == c = "dark" => motor = "off"

(* The same of the lamp: whatever a run lit and that still burns, the      *)
(* marker tells.                                                           *)
LampIsMarked == lamp = "run" => marker

=============================================================================
