---------------------------- MODULE SessionProofs ----------------------------
(***************************************************************************)
(* The session keeps its promises whatever its threads, the scanner and    *)
(* the cable do: the inductive invariant of Session, proved action by      *)
(* action.  It says, for every place of the three threads, who owns the    *)
(* boards, what the session says it does, and what stands or runs.         *)
(***************************************************************************)
EXTENDS Session, TLAPS

Claims == ControlOwns \/ MoveOwns \/ c \in {"claim_control", "claim_track", "claim_cal", "cal_return"}

(* TypeOK in two parts: the flags, and what else there is to say of types. *)
Flags ==
  /\ cancel \in BOOLEAN /\ hw_busy \in BOOLEAN /\ running \in BOOLEAN /\ joinable \in BOOLEAN
  /\ closing \in BOOLEAN /\ keep_film_led \in BOOLEAN /\ end_motor_done \in BOOLEAN
  /\ end_lamp_done \in BOOLEAN /\ idle_active \in BOOLEAN /\ film_manual \in BOOLEAN
  /\ idle_stop \in BOOLEAN /\ idle_dead \in BOOLEAN /\ marker \in BOOLEAN /\ stop_acked \in BOOLEAN
  /\ left_lit \in BOOLEAN

Types ==
  /\ state \in State
  /\ cb \in {"none", "run", "cal"} /\ shadow \in {"dark", "remove"}
  /\ motor \in {"off", "run", "manual", "track", "cut"} /\ lamp \in {"off", "run", "open", "cut"}
  /\ link \in {"up", "GONE", "WEDGED"}
  /\ wst \in RunStatus /\ wr \in [motor : BOOLEAN, lamp : BOOLEAN, absent : BOOLEAN]
  /\ w # "none" <=> running
  /\ i = "poll" <=> idle_active

Places ==
  /\ c \in Absent \union {"free", "waiting", "close_wait", "close_join", "destroy",
                          "claim_control", "claim_track", "claim_cal", "control", "track", "tracking",
                          "cal", "cal_dark", "cal_warming", "cal_measuring", "cal_end", "cal_end_hw",
                          "cal_return", "move", "moving"}
  /\ w \in {"none", "start", "warming", "warm", "ready", "scan", "armed", "scanning", "end_scan", "end_run",
            "leave", "eject", "push", "push_failed", "finish", "settle", "emit", "exit"}
  /\ i \in {"none", "sleep", "poll", "leaving", "gone"}

(* Who holds the boards: hw_busy says a claim or a worker does, never both;*)
(* a poll is alone with a manual move; a thread lives in an open session.  *)
Owners ==
  /\ hw_busy <=> Claims \/ WorkerOwns
  /\ ~(Claims /\ WorkerOwns)
  /\ film_manual <=> MoveOwns
  /\ w # "none" => c \notin Absent \union {"close_join", "destroy"}
  /\ i = "poll" => w = "none" /\ ~ControlOwns /\ c # "cal_return"
  /\ c \in Absent => i = "none"

(* What the session says it does at each place of the thread that does it. *)
Says ==
  /\ w \in {"start", "warming", "warm"} => state = "WARMUP"
  /\ w = "ready" => state = "READY"
  /\ w \in {"scan", "armed", "scanning"} => state = "SCANNING"
  /\ w \in {"end_scan", "end_run"} => state \notin {"IDLE", "FAULTED"}
  /\ w \in {"leave", "eject", "push", "push_failed", "finish", "settle"} => state = "STOPPING"
  /\ c \in {"cal_dark", "cal_warming", "cal_measuring", "cal_end", "cal_end_hw"} => state \notin {"IDLE", "FAULTED"}
  /\ c \in Absent \/ (Claims /\ c \notin {"cal_dark", "cal_warming", "cal_measuring", "cal_end", "cal_end_hw", "cal_return"})
        => state = "IDLE"
  /\ c \notin {"cal_dark", "cal_warming", "cal_measuring", "cal_end", "cal_end_hw"} /\ ~WorkerOwns
        => state \in {"IDLE", "FAULTED"}

(* The marker is on disk while a run, a test or a calibration may start    *)
(* the motor or the lamp; a pulled cable has cut what they started.        *)
Marked ==
  /\ WorkerOwns /\ w # "settle" => marker
  /\ c \in {"tracking", "cal_dark", "cal_warming", "cal_measuring", "cal_end", "cal_end_hw"} => marker
  /\ link = "GONE" => motor \notin {"run", "track"} /\ lamp # "run"
  /\ c \in {"init", "dark"} => motor # "run"
  /\ c \notin Absent => lamp # "open" /\ ~left_lit

(* What the worker's books say is stopped stands still.                    *)
Stops ==
  /\ end_motor_done => w \in {"end_run", "leave"}
  /\ end_lamp_done => w \in {"end_run", "leave"} \/ c \in {"cal_end", "cal_end_hw"}
  /\ w \in {"eject", "push", "push_failed"} => wr.motor /\ wr.lamp
  /\ w \in {"finish", "settle", "eject"} => (wr.motor => motor = "off")
  /\ w \in {"finish", "settle", "eject", "push", "push_failed"} => (wr.lamp => lamp = "off")
  /\ w \in {"finish", "settle", "eject", "push", "push_failed"} /\ wr.absent => link = "GONE" /\ IsHwFault(wst)
  /\ w = "settle" /\ ~Clear(wr) => marker

(* The hold is not yet decided while the scan writes the film LED, and is  *)
(* given up by a run that ends FAULTED.                                    *)
Holds ==
  /\ w \in {"armed", "scanning"} => ~keep_film_led
  /\ w = "settle" /\ EndState = "FAULTED" => ~keep_film_led

SessionInv ==
  /\ Types /\ Places /\ Owners /\ Says /\ Marked /\ Stops /\ Holds
  /\ BoardsHaveOneOwner /\ RunIsMarked /\ IdleIsStopped /\ SkippedStopsAreTrue /\ HoldIsLit
(* Flags and Types say what TypeOK says.                                   *)
LEMMA TypesAreOK == TypeOK <=> Flags /\ Types
<1>1. TypeOK => Flags /\ Types
  BY DEF TypeOK, Flags, Types
<1>2. Flags /\ Types => TypeOK
  BY DEF TypeOK, Flags, Types
<1>3. QED
  BY <1>1, <1>2

-----------------------------------------------------------------------------
(* A session just allocated has all its flags down.                        *)
LEMMA FreshIsLow ==
  ASSUME Fresh, marker' \in BOOLEAN, left_lit' \in BOOLEAN
  PROVE  Flags'
BY Zenon DEF Fresh, Flags

(* The flags stay flags.  The steps that lower one are told apart from     *)
(* those that only raise or copy flags.                                    *)
LEMMA FlagsStay == Flags /\ Next => Flags'
<1> SUFFICES ASSUME Flags, Next PROVE Flags'
  OBVIOUS
<1> USE DEF api, hold, ends, idle, worker, scanner, sessionHistory
<1>1. CASE OpenSafeStop
  <2>1. CASE UNCHANGED <<api, hold, ends, idle, film_manual, stop_acked>> /\ marker' = FALSE /\ left_lit' = (lamp' = "run")
    <3>1. marker' \in BOOLEAN /\ left_lit' \in BOOLEAN
      BY <2>1, Zenon
    <3>2. QED
      BY <2>1, <3>1 DEF Flags
  <2>2. CASE Fresh /\ UNCHANGED <<marker, left_lit>>
    BY <2>2, FreshIsLow DEF Flags
  <2>3. QED
    BY <1>1, <2>1, <2>2, Zenon DEF OpenSafeStop
<1>2. CASE OpenLampOn \/ OpenDone
  <2>1. CASE /\ UNCHANGED <<api, hold, ends, idle_active, idle_stop, idle_dead, film_manual, stop_acked, marker>>
             /\ UNCHANGED left_lit \/ left_lit' = FALSE
    <3>1. left_lit' \in BOOLEAN
      BY <2>1, Zenon DEF Flags
    <3>2. QED
      BY <2>1, <3>1 DEF Flags
  <2>2. CASE Fresh /\ UNCHANGED <<marker, left_lit>>
    BY <2>2, FreshIsLow DEF Flags
  <2>3. QED
    BY <1>2, <2>1, <2>2, Zenon DEF OpenLampOn, OpenDone
<1>3. CASE Destroy \/ Crash
  <2>1. Fresh /\ UNCHANGED <<marker, left_lit>>
    BY <1>3 DEF Destroy, Crash
  <2>2. QED
    BY <2>1, FreshIsLow DEF Flags
<1>4. ASSUME NEW b \in BOOLEAN, Start(b) PROVE Flags'
  BY <1>4, Zenon DEF Start, Flags
<1>5. CASE WaitEnd \/ CloseWaited
  <2>1. joinable' \in BOOLEAN
    BY <1>5, Zenon DEF WaitEnd, CloseWaited
  <2>2. CASE WaitEnd
    BY <2>2, <2>1 DEF WaitEnd, Flags
  <2>3. CASE CloseWaited
    BY <2>3, <2>1 DEF CloseWaited, Flags
  <2>4. QED
    BY <1>5, <2>2, <2>3
<1>6. CASE ControlEnds \/ MoveStarts \/ MoveEnds \/ TrackEnds \/ CalReturns
  <2>1. hw_busy' \in BOOLEAN /\ film_manual' \in BOOLEAN
    BY <1>6, Zenon DEF ControlEnds, MoveStarts, MoveEnds, TrackEnds, CalReturns, Release, Flags
  <2>2. CASE ControlEnds
    BY <2>2, <2>1 DEF ControlEnds, Flags
  <2>3. CASE MoveStarts
    BY <2>3, <2>1 DEF MoveStarts, Flags
  <2>4. CASE MoveEnds
    BY <2>4, <2>1 DEF MoveEnds, Flags
  <2>5. CASE TrackEnds
    BY <2>5, <2>1 DEF TrackEnds, Flags
  <2>6. CASE CalReturns
    BY <2>6, <2>1 DEF CalReturns, Flags
  <2>7. QED
    BY <1>6, <2>2, <2>3, <2>4, <2>5, <2>6
<1>7. CASE TrackStarts \/ CalBegins
  <2>1. cancel' \in BOOLEAN /\ hw_busy' \in BOOLEAN /\ film_manual' \in BOOLEAN /\ marker' \in BOOLEAN
    BY <1>7, Zenon DEF TrackStarts, CalBegins, Release, Flags
  <2>2. QED
    BY <1>7, <2>1 DEF TrackStarts, CalBegins, Flags
<1>8. CASE CalSyncEnd \/ CloseLeaves
  <2>1. keep_film_led' \in BOOLEAN /\ end_motor_done' \in BOOLEAN /\ end_lamp_done' \in BOOLEAN
    BY <1>8, Zenon DEF CalSyncEnd, CloseLeaves, Leave
  <2>2. QED
    BY <1>8, <2>1, ZenonT(60) DEF CalSyncEnd, CloseLeaves, Flags
<1>9. CASE ForcedPass \/ EndScan \/ WorkerFinish
  <2>1. keep_film_led' \in BOOLEAN
    <3>1. CASE ForcedPass
      BY <3>1, Zenon DEF ForcedPass, HoldAfterWrite
    <3>2. CASE EndScan
      BY <3>2, Zenon DEF EndScan, Flags
    <3>3. CASE WorkerFinish
      BY <3>3, Zenon DEF WorkerFinish, Flags
    <3>4. QED
      BY <1>9, <3>1, <3>2, <3>3
  <2>2. CASE ForcedPass
    BY <2>2, <2>1 DEF ForcedPass, Flags
  <2>3. CASE EndScan
    BY <2>3, <2>1 DEF EndScan, NoteStop, Flags
  <2>4. CASE WorkerFinish
    BY <2>4, <2>1 DEF WorkerFinish, RunMarkerAfter, Flags
  <2>5. QED
    BY <1>9, <2>2, <2>3, <2>4
<1>10. CASE WorkerLeave
  <2>1. end_motor_done' \in BOOLEAN /\ end_lamp_done' \in BOOLEAN
    BY <1>10, Zenon DEF WorkerLeave, Leave
  <2>2. QED
    BY <1>10, <2>1 DEF WorkerLeave, Flags
<1>11. CASE WorkerSettle \/ WorkerExit
  <2>1. hw_busy' \in BOOLEAN /\ running' \in BOOLEAN
    BY <1>11, Zenon DEF WorkerSettle, WorkerExit, Flags
  <2>2. QED
    BY <1>11, <2>1 DEF WorkerSettle, WorkerExit, Flags
<1>12. CASE IdlePollEnd \/ IdleLeaves
  <2>1. keep_film_led' \in BOOLEAN /\ idle_active' \in BOOLEAN
    BY <1>12, Zenon DEF IdlePollEnd, IdleLeaves, IdleActiveAfter, Flags
  <2>2. CASE IdlePollEnd
    BY <2>2, <2>1 DEF IdlePollEnd, Flags
  <2>3. CASE IdleLeaves
    BY <2>3, <2>1 DEF IdleLeaves, Flags
  <2>4. QED
    BY <1>12, <2>2, <2>3
<1>13. ASSUME NEW job \in Jobs, Claim(job) \/ Granted(job) PROVE Flags'
  <2>1. CASE Claim(job)
    BY <2>1 DEF Claim, Flags
  <2>2. CASE Granted(job)
    BY <2>2 DEF Granted, Flags
  <2>3. QED
    BY <1>13, <2>1, <2>2
<1>14. CASE OpenBegin \/ WaitBegin \/ ClaimFilm \/ CalWarms \/ CalMeasures \/ CalLampOff \/ CloseBegins \/ AnyThread
  <2>1. CASE OpenBegin
    BY <2>1 DEF OpenBegin, Flags
  <2>2. CASE WaitBegin
    BY <2>2 DEF WaitBegin, Flags
  <2>3. CASE ClaimFilm
    BY <2>3 DEF ClaimFilm, Flags
  <2>4. CASE CalWarms
    BY <2>4 DEF CalWarms, Flags
  <2>5. CASE CalMeasures
    BY <2>5 DEF CalMeasures, Flags
  <2>6. CASE CalLampOff
    BY <2>6 DEF CalLampOff, NoteStop, Flags
  <2>7. CASE CloseBegins
    BY <2>7 DEF CloseBegins, CancelAtClose, Flags
  <2>8. CASE Cancel
    BY <2>8 DEF Cancel, Flags
  <2>9. CASE FilmStop
    BY <2>9 DEF FilmStop, Flags
  <2>10. QED
    BY <1>14, <2>1, <2>2, <2>3, <2>4, <2>5, <2>6, <2>7, <2>8, <2>9 DEF AnyThread
<1>15. CASE WorkerWaits \/ WarmLamp \/ WarmUpCancelled \/ RunGoesOn \/ ScanStarts \/ ScanCancelled \/ WorkerStopping
            \/ EjectStart \/ EjectStop \/ WorkerEmit
  <2>1. CASE WarmedUp
    BY <2>1 DEF WarmedUp, Goto, Flags
  <2>2. CASE FilmLedPhase
    BY <2>2 DEF FilmLedPhase, Flags
  <2>3. CASE ScanEnds
    BY <2>3 DEF ScanEnds, Goto, Flags
  <2>4. CASE WarmLamp
    BY <2>4 DEF WarmLamp, Goto, Flags
  <2>5. CASE WarmUpCancelled
    BY <2>5 DEF WarmUpCancelled, Goto, Flags
  <2>6. CASE RunGoesOn
    BY <2>6 DEF RunGoesOn, Goto, Flags
  <2>7. CASE ScanStarts
    BY <2>7 DEF ScanStarts, Goto, Flags
  <2>8. CASE ScanCancelled
    BY <2>8 DEF ScanCancelled, Goto, Flags
  <2>9. CASE WorkerStopping
    BY <2>9 DEF WorkerStopping, Flags
  <2>10. CASE EjectStart
    BY <2>10 DEF EjectStart, Flags
  <2>11. CASE EjectStop
    BY <2>11 DEF EjectStop, Flags
  <2>12. CASE WorkerEmit
    BY <2>12 DEF WorkerEmit, Flags
  <2>13. QED
    BY <1>15, <2>1, <2>2, <2>3, <2>4, <2>5, <2>6, <2>7, <2>8, <2>9, <2>10, <2>11, <2>12 DEF WorkerWaits
<1>16. CASE IdlePollBegin \/ IdleStops \/ Unplug \/ Wedge \/ Replug \/ PowerCycle
  <2>1. CASE IdlePollBegin
    BY <2>1 DEF IdlePollBegin, Flags
  <2>2. CASE IdleStops
    BY <2>2 DEF IdleStops, Flags
  <2>3. CASE Unplug
    BY <2>3 DEF Unplug, Flags
  <2>4. CASE Wedge
    BY <2>4 DEF Wedge, Flags
  <2>5. CASE Replug
    BY <2>5 DEF Replug, Flags
  <2>6. CASE PowerCycle
    <3>1. UNCHANGED <<api, hold, ends, idle, film_manual, marker, stop_acked>> /\ left_lit' = FALSE
      BY <2>6, Zenon DEF PowerCycle
    <3>2. left_lit' \in BOOLEAN
      BY <3>1, Zenon
    <3>3. QED
      BY <3>1, <3>2 DEF Flags
  <2>7. QED
    BY <1>16, <2>1, <2>2, <2>3, <2>4, <2>5, <2>6
<1>17. QED
  BY <1>1, <1>2, <1>3, <1>4, <1>5, <1>6, <1>7, <1>8, <1>9, <1>10, <1>11, <1>12, <1>13, <1>14, <1>15, <1>16
  DEF Next, Controller, WorkerSteps, IdleThread, World

-----------------------------------------------------------------------------
(* From here on the vocabulary of the actions and the parts of the         *)
(* invariant are expanded.                                                 *)
USE DEF State, Failed, RunStatus, IsHwFault, IsFinal, Replies, Took, Status, After, NotStopped, Clear,
        Failures, EndState, CancelAtClose, api, hold, ends, idle, worker, scanner, sessionHistory,
        Absent, WorkerOwns, ControlOwns, MoveOwns, Claims,
        Types, Places, Owners, Says, Marked, Stops, Holds,
        BoardsHaveOneOwner, RunIsMarked, IdleIsStopped, SkippedStopsAreTrue, HoldIsLit, SessionInv

(* A process without a session satisfies SessionInv, whatever it left the  *)
(* scanner doing, as long as the marker tells of it.                       *)
LEMMA FreshKeeps ==
  ASSUME SessionInv, Fresh, link' = link, RunIsMarked',
         motor' \in {motor, "off"}, lamp' \in {lamp, "off", "open"}
  PROVE  SessionInv'
<1>1. /\ state' = "IDLE" /\ c' = "none" /\ w' = "none" /\ i' = "none" /\ cb' = "none" /\ shadow' = "dark"
      /\ ~hw_busy' /\ ~running' /\ ~keep_film_led' /\ ~end_motor_done' /\ ~end_lamp_done' /\ ~idle_active'
      /\ ~film_manual'
      /\ wst' = "OK" /\ wr' = NotStopped
  BY DEF Fresh
<1>2. QED
  BY <1>1

(* What the replies of leave() say is stopped stands still, and a scanner  *)
(* is called absent only when the cable is pulled.                         *)
LEMMA LeaveStops ==
  ASSUME SessionInv, NEW kept, NEW p \in LeaveReplies(kept), Leave(p, kept)
  PROVE  /\ Stopped(p) \in [motor : BOOLEAN, lamp : BOOLEAN, absent : BOOLEAN]
         /\ Stopped(p).absent <=> "GONE" \in {p.m, p.l, p.f, p.x}
         /\ Stopped(p).motor => motor' = "off"
         /\ Stopped(p).lamp => lamp' = "off"
         /\ Stopped(p).absent => link = "GONE"
         /\ motor' \in {motor, "off"} /\ lamp' \in {lamp, "off"} /\ shadow' \in {shadow, "dark"}
         /\ kept => shadow' = shadow
         /\ ~end_motor_done' /\ ~end_lamp_done' /\ link' = link
<1>1. /\ p.m \in Replies \union {"OK"} /\ p.l \in Replies \union {"OK"}
      /\ p.f \in Replies \union {"OK"} /\ p.x \in Replies \union {"OK"}
  BY DEF LeaveReplies
<1>2. /\ motor' = IF end_motor_done THEN motor ELSE After(p.m, motor, "off")
      /\ lamp' = IF end_lamp_done THEN lamp ELSE After(p.l, lamp, "off")
      /\ shadow' = IF ~kept /\ p.f = "OK" THEN "dark" ELSE shadow
      /\ ~end_motor_done' /\ ~end_lamp_done' /\ link' = link
  BY DEF Leave
<1>3. Stopped(p) = [motor |-> p.m = "OK", lamp |-> p.l = "OK", absent |-> "GONE" \in {p.m, p.l, p.f, p.x}]
  BY DEF Stopped
<1>4. (p.m = "OK") \in BOOLEAN /\ (p.l = "OK") \in BOOLEAN /\ ("GONE" \in {p.m, p.l, p.f, p.x}) \in BOOLEAN
  OBVIOUS
<1>5. Stopped(p) \in [motor : BOOLEAN, lamp : BOOLEAN, absent : BOOLEAN]
  BY <1>3, <1>4
<1>6. (Stopped(p).motor <=> p.m = "OK") /\ (Stopped(p).lamp <=> p.l = "OK")
  BY DEF Stopped
<1>7. Stopped(p).absent <=> "GONE" \in {p.m, p.l, p.f, p.x}
  BY DEF Stopped
<1>8. QED
  BY <1>1, <1>2, <1>5, <1>6, <1>7

-----------------------------------------------------------------------------
(* Opening a session.                                                      *)
LEMMA OpeningKeeps ==
  ASSUME SessionInv, OpenBegin \/ OpenSafeStop \/ OpenLampOn \/ OpenDone
  PROVE  SessionInv'
<1>1. CASE OpenBegin
  BY <1>1 DEF OpenBegin
<1>2. CASE OpenSafeStop
  <2>1. /\ c = "stop" /\ link' = link /\ motor' \in {motor, "off"} /\ lamp' \in {lamp, "off"}
        /\ \/ /\ c' = "init" /\ ~marker' /\ (left_lit' <=> lamp' = "run")
              /\ motor' = "off" \/ link = "GONE"
              /\ UNCHANGED <<api, hold, ends, idle, film_manual, worker, stop_acked>>
           \/ Fresh /\ UNCHANGED <<marker, left_lit>>
    BY <1>2 DEF OpenSafeStop
  <2>2. CASE Fresh /\ UNCHANGED <<marker, left_lit>>
    BY <2>1, <2>2, FreshKeeps DEF Fresh
  <2>3. CASE /\ c' = "init" /\ ~marker' /\ (left_lit' <=> lamp' = "run")
             /\ motor' = "off" \/ link = "GONE"
             /\ UNCHANGED <<api, hold, ends, idle, film_manual, worker, stop_acked>>
    BY <2>1, <2>3
  <2>4. QED
    BY <2>1, <2>2, <2>3
<1>3. CASE OpenLampOn
  <2>1. /\ c = "init" /\ link' = link /\ motor' = motor /\ UNCHANGED <<marker, left_lit>>
        /\ lamp' \in {lamp, "off", "open"}
        /\ Fresh \/ (c' = "dark" /\ UNCHANGED <<api, hold, ends, idle, film_manual, worker, stop_acked>>)
    BY <1>3 DEF OpenLampOn
  <2>2. CASE Fresh
    BY <2>1, <2>2, FreshKeeps DEF Fresh
  <2>3. CASE c' = "dark" /\ UNCHANGED <<api, hold, ends, idle, film_manual, worker, stop_acked>>
    BY <2>1, <2>3
  <2>4. QED
    BY <2>1, <2>2, <2>3
<1>4. CASE OpenDone
  <2>1. /\ c = "dark" /\ link' = link /\ motor' = motor /\ UNCHANGED marker
        /\ lamp' \in {lamp, "off"}
        /\ \/ Fresh /\ UNCHANGED left_lit
           \/ /\ c' = "free" /\ i' = "sleep" /\ lamp' = "off" /\ ~left_lit'
              /\ UNCHANGED <<api, hold, ends, idle_active, idle_stop, idle_dead, film_manual, worker, stop_acked>>
    BY <1>4 DEF OpenDone
  <2>2. CASE Fresh /\ UNCHANGED left_lit
    BY <2>1, <2>2, FreshKeeps DEF Fresh
  <2>3. CASE /\ c' = "free" /\ i' = "sleep" /\ lamp' = "off" /\ ~left_lit'
             /\ UNCHANGED <<api, hold, ends, idle_active, idle_stop, idle_dead, film_manual, worker, stop_acked>>
    BY <2>1, <2>3
  <2>4. QED
    BY <2>1, <2>2, <2>3
<1>5. QED
  BY <1>1, <1>2, <1>3, <1>4

(* Starting a run, waiting for it, cancelling it, stopping the film.       *)
LEMMA StartKeeps ==
  ASSUME SessionInv, (\E b \in BOOLEAN : Start(b)) \/ WaitBegin \/ WaitEnd \/ Cancel \/ FilmStop
  PROVE  SessionInv'
<1>1. ASSUME NEW b \in BOOLEAN, Start(b) PROVE SessionInv'
  BY <1>1 DEF Start, MayStart
<1>2. CASE WaitBegin
  BY <1>2 DEF WaitBegin
<1>3. CASE WaitEnd
  BY <1>3 DEF WaitEnd
<1>4. CASE Cancel
  BY <1>4 DEF Cancel
<1>5. CASE FilmStop
  BY <1>5 DEF FilmStop
<1>6. QED
  BY <1>1, <1>2, <1>3, <1>4, <1>5

-----------------------------------------------------------------------------
(* The worker's way to the scan.                                           *)
LEMMA WarmUpKeeps ==
  ASSUME SessionInv, WarmLamp \/ WarmedUp \/ WarmUpCancelled \/ RunGoesOn
  PROVE  SessionInv'
<1>1. CASE WarmLamp
  BY <1>1 DEF WarmLamp, Goto
<1>2. CASE WarmedUp
  BY <1>2 DEF WarmedUp, Goto
<1>3. CASE WarmUpCancelled
  BY <1>3 DEF WarmUpCancelled, Goto
<1>4. CASE RunGoesOn
  BY <1>4 DEF RunGoesOn, Goto
<1>5. QED
  BY <1>1, <1>2, <1>3, <1>4

(* The scan, from its forced status pass to its end.                       *)
LEMMA ScanKeeps ==
  ASSUME SessionInv, ForcedPass \/ ScanStarts \/ FilmLedPhase \/ ScanEnds \/ ScanCancelled \/ EndScan
  PROVE  SessionInv'
<1>1. CASE ForcedPass
  <2>1. /\ w = "scan" /\ wst' \in RunStatus /\ wr' = wr
        /\ shadow' \in {"dark", "remove"} /\ (keep_film_led' => shadow' = "remove")
        /\ w' = "end_scan" \/ (w' = "armed" /\ ~keep_film_led')
    BY <1>1 DEF ForcedPass, Goto, HoldAfterWrite
  <2>2. UNCHANGED <<api, ends, idle, film_manual, marker, c, scanner, sessionHistory>>
    BY <1>1 DEF ForcedPass
  <2>3. QED
    BY <2>1, <2>2
<1>2. CASE ScanStarts
  BY <1>2 DEF ScanStarts, StartMotor, Goto
<1>3. CASE FilmLedPhase
  BY <1>3 DEF FilmLedPhase
<1>4. CASE ScanEnds
  BY <1>4 DEF ScanEnds, Goto
<1>5. CASE ScanCancelled
  BY <1>5 DEF ScanCancelled, Goto
<1>6. CASE EndScan
  <2>1. /\ w = "end_scan" /\ w' = "end_run" /\ wst' \in RunStatus /\ wr' = wr
        /\ lamp' \in {lamp, "off"} /\ motor' \in {motor, "off"}
        /\ (end_lamp_done' => lamp' = "off") /\ (end_motor_done' => motor' = "off")
    BY <1>6, ZenonT(60) DEF EndScan, Goto, NoteStop
  <2>2. shadow' \in {"dark", "remove"} /\ (keep_film_led' => shadow' = "remove")
    BY <1>6 DEF EndScan
  <2>3. UNCHANGED <<api, idle, film_manual, marker, c, link, sessionHistory>>
    BY <1>6 DEF EndScan
  <2>4. QED
    BY <2>1, <2>2, <2>3
<1>7. QED
  BY <1>1, <1>2, <1>3, <1>4, <1>5, <1>6

(* The end of a run: leave, eject, the marker, the end state.              *)
LEMMA RunEndKeeps ==
  ASSUME SessionInv,
         WorkerStopping \/ WorkerLeave \/ EjectStart \/ EjectStop \/ WorkerFinish \/ WorkerSettle \/ WorkerEmit \/ WorkerExit
  PROVE  SessionInv'
<1>1. CASE WorkerStopping
  BY <1>1 DEF WorkerStopping
<1>2. CASE WorkerLeave
  <2>1. PICK p \in LeaveReplies(keep_film_led) :
          /\ Leave(p, keep_film_led) /\ wr' = Stopped(p)
          /\ wst' = IF ~AllOK(p) /\ ~IsHwFault(wst) THEN "HW" ELSE wst
          /\ w' \in {"eject", "finish"}
          /\ w' = "eject" => Stopped(p).motor /\ Stopped(p).lamp /\ ~Stopped(p).absent
    BY <1>2 DEF WorkerLeave
  <2>2. Stopped(p).absent => IsHwFault(wst')
    BY <2>1, LeaveStops DEF AllOK
  <2>3. w = "leave" /\ UNCHANGED <<api, keep_film_led, idle, film_manual, marker, c, sessionHistory>>
    BY <1>2 DEF WorkerLeave
  <2>4. QED
    BY <2>1, <2>2, <2>3, LeaveStops
<1>3. CASE EjectStart
  BY <1>3 DEF EjectStart, StartMotor
<1>4. CASE EjectStop
  <2>1. /\ w \in {"push", "push_failed"} /\ w' = "finish" /\ motor' \in {motor, "off"} /\ wst' \in RunStatus
        /\ wr' \in [motor : BOOLEAN, lamp : BOOLEAN, absent : BOOLEAN]
        /\ wr'.motor => motor' = "off"
        /\ wr'.lamp <=> wr.lamp
        /\ wr'.absent => link = "GONE" /\ IsHwFault(wst')
    BY <1>4, ZenonT(60) DEF EjectStop
  <2>2. UNCHANGED <<api, hold, ends, idle, film_manual, marker, c, lamp, link, sessionHistory>>
    BY <1>4 DEF EjectStop
  <2>3. QED
    BY <2>1, <2>2
<1>5. CASE WorkerFinish
  <2>1. /\ w = "finish" /\ w' = "settle"
        /\ marker' <=> marker /\ ~Clear(wr)
        /\ UNCHANGED <<api, ends, idle, film_manual, c, wst, wr, scanner, sessionHistory>>
    BY <1>5 DEF WorkerFinish, RunMarkerAfter
  <2>2. \/ ~keep_film_led' /\ shadow' \in {shadow, "dark"}
        \/ EndState # "FAULTED" /\ UNCHANGED hold
    BY <1>5 DEF WorkerFinish
  <2>3. EndState' = EndState /\ marker
    BY <2>1 DEF EndState
  <2>4. QED
    BY <2>1, <2>2, <2>3
<1>6. CASE WorkerSettle
  BY <1>6 DEF WorkerSettle, EndState
<1>7. CASE WorkerEmit
  BY <1>7 DEF WorkerEmit
<1>8. CASE WorkerExit
  BY <1>8 DEF WorkerExit
<1>9. QED
  BY <1>1, <1>2, <1>3, <1>4, <1>5, <1>6, <1>7, <1>8

-----------------------------------------------------------------------------
(* The idle status thread.                                                 *)
LEMMA IdleKeeps ==
  ASSUME SessionInv, IdleThread
  PROVE  SessionInv'
<1>1. CASE IdlePollBegin
  BY <1>1 DEF IdlePollBegin, IdleMayPoll
<1>2. CASE IdlePollEnd
  <2>1. /\ i = "poll" /\ i' \in {"leaving", "sleep"} /\ ~idle_active'
        /\ UNCHANGED hold \/ (~keep_film_led' /\ shadow' = "dark")
    BY <1>2 DEF IdlePollEnd, IdleActiveAfter
  <2>2. UNCHANGED <<api, ends, idle_stop, idle_dead, film_manual, marker, c, worker, scanner, sessionHistory>>
    BY <1>2 DEF IdlePollEnd
  <2>3. QED
    BY <2>1, <2>2
<1>3. CASE IdleLeaves
  BY <1>3 DEF IdleLeaves
<1>4. CASE IdleStops
  BY <1>4 DEF IdleStops
<1>5. QED
  BY <1>1, <1>2, <1>3, <1>4 DEF IdleThread

(* Claims, the short controls and the manual film move.                    *)
LEMMA ControlKeeps ==
  ASSUME SessionInv,
         (\E job \in Jobs : Claim(job) \/ Granted(job)) \/ ControlEnds \/ ClaimFilm \/ MoveStarts \/ MoveEnds
  PROVE  SessionInv'
<1>1. ASSUME NEW job \in Jobs, Claim(job) PROVE SessionInv'
  BY <1>1 DEF Claim, MayClaim, Jobs, Claiming
<1>2. ASSUME NEW job \in Jobs, Granted(job) PROVE SessionInv'
  BY <1>2 DEF Granted, GrantNow, Jobs, Claiming
<1>3. CASE ControlEnds
  BY <1>3 DEF ControlEnds, Release
<1>4. CASE ClaimFilm
  BY <1>4 DEF ClaimFilm, MayClaim
<1>5. CASE MoveStarts
  <2>1. \/ c' = "moving" /\ (hw_busy' <=> hw_busy) /\ (film_manual' <=> film_manual)
        \/ c' = "free" /\ ~hw_busy' /\ ~film_manual'
    BY <1>5 DEF MoveStarts, Release
  <2>2. motor' \in {motor, "off", "manual"}
    BY <1>5 DEF MoveStarts, StartMotor
  <2>3. c = "move" /\ UNCHANGED <<state, cancel, running, joinable, closing, cb, hold, ends, idle, marker, worker, lamp, link, sessionHistory>>
    BY <1>5 DEF MoveStarts
  <2>4. QED
    BY <2>1, <2>2, <2>3
<1>6. CASE MoveEnds
  BY <1>6 DEF MoveEnds, Release
<1>7. QED
  BY <1>1, <1>2, <1>3, <1>4, <1>5, <1>6

(* The track test, under its marker.                                       *)
LEMMA TrackKeeps ==
  ASSUME SessionInv, TrackStarts \/ TrackEnds
  PROVE  SessionInv'
<1>1. CASE TrackStarts
  <2>1. \/ /\ c' = "free" /\ ~hw_busy' /\ ~film_manual'
           /\ motor' = motor /\ (marker' <=> marker)
        \/ /\ c' = "tracking" /\ (hw_busy' <=> hw_busy) /\ (film_manual' <=> film_manual)
           /\ marker' /\ motor' \in {motor, "off", "track"} /\ (link = "GONE" => motor' = motor)
    BY <1>1 DEF TrackStarts, StartMotor, Release
  <2>2. c = "track" /\ UNCHANGED <<state, running, joinable, closing, cb, hold, ends, idle, worker, lamp, link, sessionHistory>>
    BY <1>1 DEF TrackStarts
  <2>3. QED
    BY <2>1, <2>2
<1>2. CASE TrackEnds
  BY <1>2 DEF TrackEnds, Release
<1>3. QED
  BY <1>1, <1>2

(* The calibration, under its marker.                                      *)
LEMMA CalibrationKeeps ==
  ASSUME SessionInv, CalBegins \/ CalWarms \/ CalMeasures \/ CalLampOff \/ CalSyncEnd \/ CalReturns
  PROVE  SessionInv'
<1>1. CASE CalBegins
  <2>1. \/ /\ c' = "free" /\ ~hw_busy' /\ ~film_manual'
           /\ state' = state /\ (marker' <=> marker) /\ cb' = "none"
        \/ /\ c' = "cal_dark" /\ (hw_busy' <=> hw_busy) /\ (film_manual' <=> film_manual)
           /\ state' = "WARMUP" /\ marker' /\ cb' = "cal"
    BY <1>1 DEF CalBegins, Release
  <2>2. c = "cal" /\ UNCHANGED <<running, joinable, closing, hold, ends, idle, worker, scanner, sessionHistory>>
    BY <1>1 DEF CalBegins
  <2>3. QED
    BY <2>1, <2>2
<1>2. CASE CalWarms
  BY <1>2 DEF CalWarms, CalEnd
<1>3. CASE CalMeasures
  BY <1>3 DEF CalMeasures, CalEnd
<1>4. CASE CalLampOff
  <2>1. /\ c = "cal_measuring" /\ c' \in {"cal_end", "cal_end_hw"}
        /\ lamp' \in {lamp, "off"} /\ (end_lamp_done' => lamp' = "off")
    BY <1>4 DEF CalLampOff, CalEnd, NoteStop
  <2>2. UNCHANGED <<api, hold, end_motor_done, idle, film_manual, marker, worker, motor, link, sessionHistory>>
    BY <1>4 DEF CalLampOff
  <2>3. QED
    BY <2>1, <2>2
<1>5. CASE CalSyncEnd
  <2>1. PICK p \in LeaveReplies(FALSE) :
          /\ Leave(p, FALSE)
          /\ marker' = (marker /\ ~Clear(Stopped(p)))
          /\ state' = IF Clear(Stopped(p)) /\ c = "cal_end" THEN "IDLE" ELSE "FAULTED"
    BY <1>5 DEF CalSyncEnd
  <2>2. /\ c \in {"cal_end", "cal_end_hw"} /\ c' = "cal_return" /\ ~keep_film_led'
        /\ UNCHANGED <<cancel, hw_busy, running, joinable, closing, cb, idle, film_manual, worker, sessionHistory>>
    BY <1>5 DEF CalSyncEnd
  <2>3. (marker' <=> marker /\ ~Clear(Stopped(p))) /\ state' \in {"IDLE", "FAULTED"}
    BY <2>1
  <2>4. state' = "IDLE" => Clear(Stopped(p))
    BY <2>1
  <2>5. /\ motor' \in {motor, "off"} /\ lamp' \in {lamp, "off"} /\ shadow' \in {shadow, "dark"}
        /\ ~end_motor_done' /\ ~end_lamp_done' /\ link' = link
        /\ Clear(Stopped(p)) => (motor' = "off" /\ lamp' = "off") \/ link = "GONE"
    BY <2>1, LeaveStops
  <2>6. QED
    BY <2>2, <2>3, <2>4, <2>5
<1>6. CASE CalReturns
  BY <1>6 DEF CalReturns, Release
<1>7. QED
  BY <1>1, <1>2, <1>3, <1>4, <1>5, <1>6

(* Closing a session.                                                      *)
LEMMA CloseKeeps ==
  ASSUME SessionInv, CloseBegins \/ CloseWaited \/ CloseLeaves \/ Destroy
  PROVE  SessionInv'
<1>1. CASE CloseBegins
  BY <1>1 DEF CloseBegins
<1>2. CASE CloseWaited
  BY <1>2 DEF CloseWaited
<1>3. CASE CloseLeaves
  <2>1. PICK p \in LeaveReplies(FALSE) : Leave(p, FALSE) /\ marker' = (marker /\ ~Clear(Stopped(p)))
    BY <1>3 DEF CloseLeaves
  <2>2. /\ c = "close_join" /\ c' = "destroy" /\ ~keep_film_led'
        /\ UNCHANGED <<api, idle, film_manual, worker, sessionHistory>>
    BY <1>3 DEF CloseLeaves
  <2>3. marker' <=> marker /\ ~Clear(Stopped(p))
    BY <2>1
  <2>4. /\ motor' \in {motor, "off"} /\ lamp' \in {lamp, "off"} /\ shadow' \in {shadow, "dark"}
        /\ ~end_motor_done' /\ ~end_lamp_done' /\ link' = link
        /\ Clear(Stopped(p)) => (motor' = "off" /\ lamp' = "off") \/ link = "GONE"
    BY <2>1, LeaveStops
  <2>5. QED
    BY <2>2, <2>3, <2>4
<1>4. CASE Destroy
  BY <1>4, FreshKeeps DEF Destroy, Fresh
<1>5. QED
  BY <1>1, <1>2, <1>3, <1>4

(* The process dies; the cable, the firmware and the power come and go.    *)
LEMMA WorldKeeps ==
  ASSUME SessionInv, World
  PROVE  SessionInv'
<1>1. CASE Crash
  BY <1>1, FreshKeeps DEF Crash, Fresh
<1>2. CASE Unplug
  BY <1>2 DEF Unplug
<1>3. CASE Wedge
  BY <1>3 DEF Wedge
<1>4. CASE Replug
  BY <1>4 DEF Replug
<1>5. CASE PowerCycle
  BY <1>5 DEF PowerCycle
<1>6. QED
  BY <1>1, <1>2, <1>3, <1>4, <1>5 DEF World

(* No step at all.                                                         *)
LEMMA StutterKeeps ==
  ASSUME SessionInv, UNCHANGED vars
  PROVE  SessionInv'
BY DEF vars, EndState

HIDE DEF State, Failed, RunStatus, IsHwFault, IsFinal, Replies, Took, Status, After, NotStopped, Clear,
         Failures, EndState, CancelAtClose, api, hold, ends, idle, worker, scanner, sessionHistory,
         Absent, WorkerOwns, ControlOwns, MoveOwns, Claims,
         Types, Places, Owners, Says, Marked, Stops, Holds,
         BoardsHaveOneOwner, RunIsMarked, IdleIsStopped, SkippedStopsAreTrue, HoldIsLit, SessionInv

-----------------------------------------------------------------------------
(* Every step of every thread keeps SessionInv.                            *)
LEMMA StepKeeps == SessionInv /\ [Next]_vars => SessionInv'
<1> USE DEF Next, Controller, AnyThread, WorkerWaits, WorkerSteps
<1>1. CASE Controller \/ AnyThread
  BY <1>1, OpeningKeeps, StartKeeps, ControlKeeps, TrackKeeps, CalibrationKeeps, CloseKeeps
<1>2. CASE WorkerWaits \/ WorkerSteps
  BY <1>2, WarmUpKeeps, ScanKeeps, RunEndKeeps
<1>3. QED
  BY <1>1, <1>2, IdleKeeps, WorldKeeps, StutterKeeps

(* Nothing is open and nothing runs at first.                              *)
LEMMA InitEstablishes == Init => SessionInv /\ Flags
<1>1. Init => Flags
  BY Zenon DEF Init, Flags
<1>2. Init => SessionInv
  BY DEF Init, SessionInv, Types, Places, Owners, Says, Marked, Stops, Holds, BoardsHaveOneOwner, RunIsMarked,
     IdleIsStopped, SkippedStopsAreTrue, HoldIsLit, State, RunStatus, NotStopped, Absent, WorkerOwns, ControlOwns, MoveOwns, Claims
<1>3. QED
  BY <1>1, <1>2

(* The session's inductive invariant, with its flags' types.               *)
THEOREM SessionInvariance == Spec => [](SessionInv /\ Flags)
<1>1. SessionInv /\ Flags /\ [Next]_vars => SessionInv' /\ Flags'
  <2>1. Flags /\ UNCHANGED vars => Flags'
    BY DEF Flags, vars, api, hold, ends, idle, scanner, sessionHistory
  <2>2. QED
    BY <2>1, StepKeeps, FlagsStay
<1>2. QED
  BY InitEstablishes, <1>1, PTL DEF Spec

(* The boards have one user at a time: a run and a control never overlap,  *)
(* and an idle poll runs beside neither (session.c pks_claim, idle.c).     *)
THEOREM BoardsAreOwned == Spec => []BoardsHaveOneOwner
<1>1. SessionInv => BoardsHaveOneOwner
  BY DEF SessionInv
<1>2. QED
  BY <1>1, SessionInvariance, PTL

(* The motor a run started is told by the marker at every point at which   *)
(* the process can die, and so is the lamp a run or a calibration lit, but *)
(* for the one lamp that a later open's safe_stop did not put out when it  *)
(* removed the marker (session.c marker_write, marker_should_clear).       *)
THEOREM RunsAreMarked == Spec => []RunIsMarked
<1>1. SessionInv => RunIsMarked
  BY DEF SessionInv
<1>2. QED
  BY <1>1, SessionInvariance, PTL

(* A session that says IDLE has stopped the motor and the lamp of all its  *)
(* runs and calibrations (session.c session_leave, end_state).             *)
THEOREM IdleMeansStopped == Spec => []IdleIsStopped
<1>1. SessionInv => IdleIsStopped
  BY DEF SessionInv
<1>2. QED
  BY <1>1, SessionInvariance, PTL

(* The types; the stops that session_leave skips; the remove-film hold.    *)
THEOREM SessionBooksAreTrue == Spec => []BooksAreTrue
<1>1. SessionInv /\ Flags => BooksAreTrue
  BY TypesAreOK DEF SessionInv, BooksAreTrue
<1>2. QED
  BY <1>1, SessionInvariance, PTL

(* No thread that is on its way overwrites FAULTED: whoever may change the *)
(* state has found it to be something else, and it has stayed that.        *)
LEMMA FaultedStep ==
  ASSUME SessionInv, Next, state = "FAULTED"
  PROVE  state' = "FAULTED" \/ c' = "none"
<1> USE DEF api, Absent, WorkerOwns, Claims, ControlOwns, MoveOwns
<1>1. Says /\ Owners
  BY DEF SessionInv
<1>2. ASSUME c' # "none" PROVE ~Fresh
  BY <1>2 DEF Fresh
<1>3. CASE OpenBegin \/ OpenSafeStop \/ OpenLampOn \/ OpenDone
  BY <1>1, <1>3 DEF Says, OpenBegin, OpenSafeStop, OpenLampOn, OpenDone
<1>4. ASSUME NEW b \in BOOLEAN, Start(b) PROVE state' = "FAULTED"
  BY <1>4 DEF Start, MayStart
<1>5. CASE WaitBegin \/ WaitEnd \/ Cancel \/ FilmStop
  BY <1>5 DEF WaitBegin, WaitEnd, Cancel, FilmStop
<1>6. CASE WorkerWaits
  BY <1>1, <1>6 DEF Says, WorkerWaits, WarmedUp, FilmLedPhase, ScanEnds
<1>7. CASE WorkerSteps
  BY <1>1, <1>7 DEF Says, WorkerSteps, WarmLamp, WarmUpCancelled, RunGoesOn, ForcedPass, ScanStarts, ScanCancelled,
     EndScan, WorkerStopping, WorkerLeave, EjectStart, EjectStop, WorkerFinish, WorkerSettle, WorkerEmit, WorkerExit
<1>8. CASE IdleThread
  BY <1>8 DEF IdleThread, IdlePollBegin, IdlePollEnd, IdleLeaves, IdleStops
<1>9. ASSUME NEW job \in Jobs, Claim(job) \/ Granted(job) PROVE state' = "FAULTED"
  BY <1>9 DEF Claim, Granted
<1>10. CASE ControlEnds \/ ClaimFilm \/ MoveStarts \/ MoveEnds \/ TrackStarts \/ TrackEnds
  BY <1>10 DEF ControlEnds, ClaimFilm, MoveStarts, MoveEnds, TrackStarts, TrackEnds
<1>11. CASE CalBegins \/ CalWarms \/ CalMeasures \/ CalLampOff \/ CalSyncEnd \/ CalReturns
  BY <1>1, <1>11 DEF Says, CalBegins, CalWarms, CalMeasures, CalLampOff, CalSyncEnd, CalReturns
<1>12. CASE CloseBegins \/ CloseWaited \/ CloseLeaves \/ Destroy
  BY <1>12, <1>2 DEF CloseBegins, CloseWaited, CloseLeaves, Destroy
<1>13. CASE World
  BY <1>13, <1>2 DEF World, Crash, Unplug, Wedge, Replug, PowerCycle
<1>14. QED
  BY <1>3, <1>4, <1>5, <1>6, <1>7, <1>8, <1>9, <1>10, <1>11, <1>12, <1>13 DEF Next, Controller, AnyThread

(* A FAULTED session stays FAULTED until it is closed or dies: only a new  *)
(* session may start again (session.c start_common, pks_claim).            *)
THEOREM FaultStays == Spec => FaultedUntilClosed
<1>1. SessionInv /\ [Next]_vars => [state = "FAULTED" => state' = "FAULTED" \/ c' = "none"]_vars
  BY FaultedStep
<1>2. QED
  BY <1>1, SessionInvariance, PTL DEF FaultedUntilClosed, Spec
=============================================================================
