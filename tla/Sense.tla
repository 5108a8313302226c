-------------------------------- MODULE Sense ---------------------------------
(***************************************************************************)
(* The light board's events and their readers (core/src/boards/host.c,     *)
(* film.c, dx.c, lamp.c; session/idle.c, session.c).  Register 0x02        *)
(* announces once that the lamp is stable ("lamp") or that register 0x90   *)
(* has a record ("dx"), and two kinds of thread read both registers: the   *)
(* session's own one (the idle status thread between runs, the worker in a *)
(* run) and any that asks for the film sensors.  What one reader takes,    *)
(* the other does not see: the driver keeps what it has acknowledged in    *)
(* irq_pending and what the records said in dx_nibble, each under a lock.  *)
(***************************************************************************)
EXTENDS Integers

CONSTANTS
  MOVES,    \* how often film comes or goes
  FAULTS,   \* how many transfers fail
  RUNS      \* how many runs are started

ASSUME SenseAssumption == MOVES \in Nat /\ FAULTS \in Nat /\ RUNS \in Nat

VARIABLES
  film,        \* the sensors: "over" (entry or exit covered) or "clear"
  raised,      \* the bits register 0x02 has to report
  record,      \* register 0x90 has a record to give
  stable,      \* the lamp is lit and its temperature is
  irq_pending, dx_nibble, dx_rec_seq, lamp_state,   \* struct pk_boards
  state,       \* the session: "IDLE", "WARMING", "SCANNING", "FAULTED"
  hold, hold_seq,   \* keep_film_led and the record it was set at
  loop, packet,     \* the session's own reader and the record in its hands
  own,              \* the sensors as the scan's DX reader (pk_dx) last saw them
  sense,            \* pk_session_film_sense's thread, which holds nib_mu at "read90"
  latest, wentClear, \* history: the last record the board gave, one of them clear since the hold
  unread,           \* history: a record whose event was taken and whose read failed
  moves, faults, runs

board  == <<film, raised, record, stable>>
driver == <<irq_pending, dx_nibble, dx_rec_seq, lamp_state>>
senseVars == <<board, driver, state, hold, hold_seq, loop, packet, own, sense, latest, wentClear, unread, moves, faults, runs>>

SenseInit ==
  /\ film = "clear" /\ raised = {} /\ record = FALSE /\ stable = FALSE
  /\ irq_pending = {} /\ dx_nibble = "none" /\ dx_rec_seq = 0 /\ lamp_state = -1
  /\ state = "IDLE" /\ hold = FALSE /\ hold_seq = 0
  /\ loop = "wait" /\ packet = "none" /\ own = "clear" /\ sense = "none"
  /\ latest = "none" /\ wentClear = FALSE /\ unread = FALSE
  /\ moves = 0 /\ faults = 0 /\ runs = 0

-----------------------------------------------------------------------------
(* The light board                                                         *)

FilmMoves ==
  /\ moves < MOVES /\ moves' = moves + 1
  /\ film' = IF film = "over" THEN "clear" ELSE "over"
  /\ raised' = raised \union {"dx"} /\ record' = TRUE
  /\ UNCHANGED <<stable, driver, state, hold, hold_seq, loop, packet, own, sense, latest, wentClear, unread, faults, runs>>

LampStabilises ==
  /\ state = "WARMING" /\ ~stable
  /\ stable' = TRUE /\ raised' = raised \union {"lamp"}
  /\ UNCHANGED <<film, record, driver, state, hold, hold_seq, loop, packet, own, sense, latest, wentClear, unread, moves, faults, runs>>

Fault == faults < FAULTS /\ faults' = faults + 1

-----------------------------------------------------------------------------
(* irq_take_locked: the bits read stay in irq_pending whatever becomes of  *)
(* the acknowledge, and the call fails with it.  irq_mu is held throughout *)
(* (a bit the board raises again in between is acknowledged with the rest, *)
(* as if it had come before the read).                                     *)
Event == raised # {}
Kept_OnlyAcknowledged(acked) == IF acked THEN irq_pending \union raised ELSE irq_pending
Kept(acked) == irq_pending \union raised

TakeFails ==
  /\ Fault
  /\ \/ UNCHANGED <<raised, irq_pending>>                                \* the read of 0x02
     \/ Event /\ irq_pending' = Kept(FALSE) /\ raised' \in {raised, {}}  \* the acknowledge

Left(mask) == Kept(TRUE) \ mask
Take(mask) == irq_pending' = Left(mask) /\ raised' = {} /\ UNCHANGED faults
Taken(mask) == Kept(TRUE) \intersect mask

(* A read of 0x90 takes the board's record; one that fails may have, too.  *)
ReadRecord ==
  /\ packet' = IF record THEN film ELSE "empty"
  /\ record' = FALSE /\ latest' = IF record THEN film ELSE latest
  /\ wentClear' = (wentClear \/ (record /\ film = "clear"))
  /\ UNCHANGED <<faults, unread>>

ReadFails ==
  /\ Fault
  /\ record' \in {record, FALSE} /\ unread' = (unread \/ record)
  /\ UNCHANGED <<packet, latest, wentClear>>

-----------------------------------------------------------------------------
(* pk_session_film_sense: during a run's scan it answers from the cache    *)
(* (no state changes); before that it looked at the state, unlocked.       *)

SenseStarts ==
  /\ sense = "none" /\ state # "SCANNING"
  /\ sense' = "take"
  /\ UNCHANGED <<board, driver, state, hold, hold_seq, loop, packet, own, latest, wentClear, unread, moves, faults, runs>>

(* nibble_locked, under nib_mu from here to SenseReads                     *)
SenseTakes ==
  /\ sense = "take"
  /\ \/ TakeFails /\ sense' = "none"
     \/ Take({"dx"}) /\ sense' = IF Taken({"dx"}) # {} \/ dx_nibble = "none" THEN "read90" ELSE "none"
  /\ UNCHANGED <<film, record, stable, dx_nibble, dx_rec_seq, lamp_state, state, hold, hold_seq, loop, packet, own,
                 latest, wentClear, unread, moves, runs>>

SenseReads ==
  /\ sense = "read90" /\ sense' = "none"
  /\ \/ /\ ReadFails /\ UNCHANGED <<dx_nibble, dx_rec_seq>>
     \/ /\ record' = FALSE /\ UNCHANGED <<faults, unread, packet>>
        /\ latest' = IF record THEN film ELSE latest
        /\ wentClear' = (wentClear \/ (record /\ film = "clear"))
        /\ dx_rec_seq' = IF record THEN dx_rec_seq + 1 ELSE dx_rec_seq
        /\ dx_nibble' = IF record THEN film ELSE IF dx_nibble = "none" THEN "clear" ELSE dx_nibble
  /\ UNCHANGED <<film, raised, stable, irq_pending, lamp_state, state, hold, hold_seq, loop, own, moves, runs>>

NibbleFree == sense # "read90"

-----------------------------------------------------------------------------
(* The session's own reader: idle_poll, pk_lamp_warmup's poll and          *)
(* pks_scan_poll.  The warm-up takes only the lamp's bits.                 *)

Mask == IF state = "WARMING" THEN {"lamp"} ELSE {"lamp", "dx"}

(* idle_poll reads 0x90 after an event or for a taken bit, the scan only   *)
(* after an event of its own read.                                         *)
Reads90 ==
  \/ state = "IDLE" /\ (Event \/ "dx" \in Taken(Mask))
  \/ state = "SCANNING" /\ Event

(* A failed transfer ends the idle thread's pass; it faults a run.         *)
PassFails ==
  /\ loop' = "wait"
  /\ state' = IF state = "IDLE" THEN state ELSE "FAULTED"

(* pks_scan_poll asks register 0x02 when the host reports an interrupt.    *)
MayPoll == state \in {"IDLE", "WARMING"} \/ (state = "SCANNING" /\ Event)

(* pkb_lamp_monitor: lamp_state is latched.  Between runs the lamp is off  *)
(* and the lamp's bits are dropped.                                        *)
Judged == IF state # "IDLE" /\ "lamp" \in Taken(Mask) THEN 1 ELSE lamp_state

AfterPoll == IF Reads90 THEN "read90" ELSE IF state = "IDLE" THEN "release" ELSE "wait"

Poll ==
  /\ loop = "wait" /\ MayPoll
  /\ \/ TakeFails /\ PassFails /\ UNCHANGED lamp_state
     \/ /\ Take(Mask)
        /\ lamp_state' = Judged
        /\ loop' = AfterPoll
        /\ UNCHANGED state
  /\ UNCHANGED <<film, record, stable, dx_nibble, dx_rec_seq, hold, hold_seq, packet, own, sense, latest, wentClear, unread, moves, runs>>

(* dx_read_packet: the transfer, and under nib_mu what it brought          *)
LoopReads ==
  /\ loop = "read90"
  /\ \/ ReadFails /\ PassFails
     \/ ReadRecord /\ loop' = "store" /\ UNCHANGED state
  /\ UNCHANGED <<film, raised, stable, driver, hold, hold_seq, own, sense, moves, runs>>

LoopStores ==
  /\ loop = "store" /\ NibbleFree
  /\ IF packet = "empty" THEN UNCHANGED <<dx_nibble, dx_rec_seq>>
     ELSE dx_nibble' = packet /\ dx_rec_seq' = dx_rec_seq + 1
  /\ own' = IF state = "SCANNING" /\ packet # "empty" THEN packet ELSE own
  /\ packet' = "none"
  /\ loop' = IF state = "IDLE" THEN "release" ELSE "wait"
  /\ UNCHANGED <<board, irq_pending, lamp_state, state, hold, hold_seq, sense, latest, wentClear, unread, moves, faults, runs>>

(* release_hold, on every pass that gets this far                          *)
Releasable == hold /\ dx_rec_seq # hold_seq /\ dx_nibble = "clear"

Release ==
  /\ loop = "release" /\ NibbleFree /\ loop' = "wait"
  /\ IF Releasable THEN (hold' = FALSE /\ UNCHANGED faults) \/ (Fault /\ UNCHANGED hold)
     ELSE UNCHANGED <<hold, faults>>
  /\ UNCHANGED <<board, driver, state, hold_seq, packet, own, sense, latest, wentClear, unread, moves, runs>>

-----------------------------------------------------------------------------
(* Runs.  A start waits for an idle poll in progress.                      *)

StartRun ==
  /\ state = "IDLE" /\ loop = "wait" /\ runs < RUNS
  /\ runs' = runs + 1 /\ state' = "WARMING" /\ stable' = FALSE
  /\ UNCHANGED <<film, raised, record, driver, hold, hold_seq, loop, packet, own, sense, latest, wentClear, unread, moves, faults>>

(* pk_lamp_warmup returns PK_OK; pks_scan_sequence ends the hold of the    *)
(* last run.                                                               *)
WarmedUp == lamp_state > 0

ScanStarts ==
  /\ state = "WARMING" /\ loop = "wait" /\ WarmedUp
  /\ state' = "SCANNING" /\ hold' = FALSE /\ own' = "clear"
  /\ UNCHANGED <<board, driver, hold_seq, loop, packet, sense, latest, wentClear, unread, moves, faults, runs>>

(* end_scan, and a warm-up that was cancelled: with film at the sensors,   *)
(* as the scan's reader saw them, the film LED is held                     *)
(* (pks_hold_film_led, under nib_mu).                                      *)
RunEnds ==
  /\ state \in {"WARMING", "SCANNING"} /\ loop = "wait"
  /\ state' = "IDLE" /\ stable' = FALSE
  /\ \/ UNCHANGED <<hold, hold_seq, wentClear>>
     \/ /\ state = "SCANNING" /\ own = "over" /\ NibbleFree
        /\ hold' = TRUE /\ hold_seq' = dx_rec_seq /\ wentClear' = FALSE
  /\ UNCHANGED <<film, raised, record, driver, loop, packet, own, sense, latest, unread, moves, faults, runs>>

SenseNext ==
  \/ FilmMoves \/ LampStabilises
  \/ SenseStarts \/ SenseTakes \/ SenseReads
  \/ Poll \/ LoopReads \/ LoopStores \/ Release
  \/ StartRun \/ ScanStarts \/ RunEnds

(* Both threads go on: the session's polls on a timer, the other one makes *)
(* a call that takes no wait but the lock's.                               *)
SenseSpec ==
  /\ SenseInit /\ [][SenseNext]_senseVars
  /\ WF_senseVars(Poll \/ LoopReads \/ LoopStores \/ Release)
  /\ WF_senseVars(SenseTakes \/ SenseReads)
  /\ WF_senseVars(ScanStarts)

-----------------------------------------------------------------------------
(* The film LED's hold ends between runs only when a record that the board *)
(* gave after the hold began showed both sensors clear, whoever read it.   *)
HoldEndsOnNews == [][hold /\ ~hold' /\ state = "IDLE" => wentClear]_senseVars

(* ... and it does end once the driver has seen that, though the write of  *)
(* the LED may fail first.                                                 *)
HoldEnds == Releasable /\ state = "IDLE" ~> ~hold \/ state # "IDLE" \/ dx_nibble = "over"

(* A lamp that became stable ends the warm-up, also when another thread's  *)
(* look at the film sensors acknowledged the event that says so.           *)
LampIsSeen ==
  state = "WARMING" /\ stable ~> state # "WARMING"

(* A record the board announced is read, whichever thread took the event   *)
(* and whether or not its acknowledge got through, unless the read itself  *)
(* fails or a run comes between.                                           *)
RecordsAreRead == "dx" \in raised \union irq_pending /\ state = "IDLE" ~> ~record \/ unread \/ state # "IDLE"

(* What the board announced reaches the session, whichever of the two      *)
(* threads takes it.                                                       *)
NewsIsTaken == HoldEndsOnNews /\ HoldEnds /\ LampIsSeen /\ RecordsAreRead

(* dx.c's "keeps pk_film_sense / eject current": between two calls the     *)
(* cached sensors are those of the last record the board gave.             *)
CacheIsCurrent == sense = "none" /\ loop = "wait" /\ latest # "none" /\ ~unread => dx_nibble = latest
=============================================================================
