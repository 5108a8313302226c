--------------------------------- MODULE Scan ---------------------------------
(***************************************************************************)
(* A roll's scan (core/src/session/scan.c): the worker drives the strips   *)
(* and writes the sidecar (core/src/stream/sidecar.c) while the stream's   *)
(* reader thread hands every line to the film detector.  The session       *)
(* around it is Session, the stream below it Stream; here are the strips,  *)
(* the detector between the two threads, and what the files say at any     *)
(* moment the process may die.                                             *)
(*                                                                         *)
(* A line is its green mean (scan.c's green_mean4) and the segment the     *)
(* stream gave it.  The board traffic of a step is one choice: it works or *)
(* it fails.                                                               *)
(***************************************************************************)
EXTENDS Integers, Sequences

CONSTANTS
  STRIPS_MAX, LINES_PER_STRIP,   \* pk_scan_strip_budget
  LEVELS,                        \* green means the lines may have
  MAX_LINES                      \* bound: lines the scanner sends

DETECT_FILM_G  == 54000
DETECT_WHITE_G == 61000
SENSE_SUM_LINES == 3
REBASE_MARGIN  == 100
GREEN_MAX == 65532             \* green_mean4: 14 bits, times four

(* The start line takes the budget to one less: a budget of one would never*)
(* run out.  The smallest the configuration allows is hundreds of lines.   *)
ASSUME ScanAssumption ==
  /\ STRIPS_MAX \in Nat \ {0} /\ LINES_PER_STRIP \in Nat \ {0, 1}
  /\ LEVELS \subseteq 0..GREEN_MAX /\ MAX_LINES \in Nat

VARIABLES
  pc,       \* the worker
  det,      \* the detector, under its mutex
  late,     \* the strip's no-film deadline has passed
  open,     \* x->strip_open
  done,     \* x->strips_done
  segment,  \* x->segment: the segment the worker reads next
  run,      \* the sequence's status so far
  sc, disk, \* the sidecar in memory, and the roll's .json
  live,     \* the stream's threads run
  fatal,    \* the stream's first fatal error
  raw,      \* whether every byte reached the raw file
  st_seg,   \* the stream's segment
  rearm,    \* a re-arm it has not taken yet
  cancel,   \* the session's cancel flag
  lines     \* history: the lines handed on

detector == <<det, late>>
strips   == <<open, done, segment>>
files    == <<sc, disk>>
stream   == <<live, fatal, raw, st_seg, rearm, lines>>
vars     == <<pc, detector, strips, run, files, stream, cancel>>

-----------------------------------------------------------------------------
(* The detector                                                            *)

(* det_begin                                                               *)
Armed(seg) ==
  [seg |-> seg, film |-> DETECT_FILM_G, white |-> DETECT_WHITE_G, sum_left |-> SENSE_SUM_LINES, sum |-> 0,
   budget |-> LINES_PER_STRIP, started |-> FALSE, ended |-> FALSE, no_film |-> FALSE, hit |-> FALSE,
   start |-> 0, end |-> 0]

(* The thresholds follow an empty gate that is dimmer or brighter.         *)
Summed(d, g) ==
  LET sum == d.sum + g
      white == sum \div SENSE_SUM_LINES - REBASE_MARGIN
      s == [d EXCEPT !.sum_left = @ - 1, !.sum = sum]
  IN IF d.sum_left = 0 THEN d
     ELSE IF d.sum_left = 1 /\ d.film < g
          THEN [s EXCEPT !.white = white, !.film = white - (d.white - d.film)]
          ELSE s

(* det_line for line n: the ending line is not of the strip.               *)
Sensed(d, n, g, past) ==
  LET s == Summed(d, g)
      left == d.budget - 1
      over == left = 0 \/ g >= d.white
  IN IF d.started
     THEN [d EXCEPT !.budget = left, !.hit = left = 0, !.ended = over, !.end = IF over THEN @ ELSE n]
     ELSE IF g < s.film
          THEN [s EXCEPT !.started = TRUE, !.sum_left = 0, !.budget = left, !.start = n, !.end = n]
          ELSE [s EXCEPT !.no_film = past, !.ended = past]

IsForIt_Any(d, seg) == ~d.ended
IsForIt(d, seg) == seg = d.seg /\ ~d.ended
DetLine(d, n, l, past) == IF IsForIt(d, l.seg) THEN Sensed(d, n, l.level, past) ELSE d

(* det_check_deadline, by the worker                                       *)
Overdue_OnLinesOnly(d, past) == d
Overdue(d, past) == IF past /\ ~d.started /\ ~d.ended THEN [d EXCEPT !.no_film = TRUE, !.ended = TRUE] ELSE d

-----------------------------------------------------------------------------
(* The sidecar                                                             *)

NoFile == [complete |-> FALSE, error |-> "none", strips |-> <<>>]
Opened == [NoFile EXCEPT !.error = "null"]
Finished(s) == s.ended_by # "incomplete"

(* strip_obj                                                               *)
Strip(d, partial) ==
  [seg |-> d.seg, start |-> d.start, end |-> d.end,
   ended_by |-> IF partial THEN "incomplete" ELSE IF d.hit THEN "max_film_length" ELSE "film_end"]

(* pk_sidecar_truncate_strips, pk_sidecar_set_strip_json at the next index *)
Kept(s) == SubSeq(s.strips, 1, done)
WithStrip(s, strip) == [s EXCEPT !.strips = Append(Kept(s), strip)]

(* sidecar_flush: the strip in progress is rewritten; the file is replaced *)
(* whole or stays as it was.                                               *)
Flushed(s) ==
  IF open /\ det.started THEN WithStrip(s, Strip(det, TRUE)) ELSE [s EXCEPT !.strips = Kept(s)]
Writes(s) == sc' = Flushed(s) /\ disk' = Flushed(s)
WriteFails(s) == sc' = Flushed(s) /\ UNCHANGED disk

-----------------------------------------------------------------------------
(* The stream's threads                                                    *)

ByReader == UNCHANGED <<pc, strips, run, files, cancel>>

LineArrives ==
  /\ live /\ fatal = "OK" /\ Len(lines) < MAX_LINES
  /\ \E g \in LEVELS :
       LET l == [seg |-> st_seg, level |-> g]
       IN lines' = Append(lines, l) /\ det' = DetLine(det, Len(lines) + 1, l, late)
  /\ UNCHANGED <<late, live, fatal, raw, st_seg, rearm>> /\ ByReader

RearmTaken ==
  /\ live /\ fatal = "OK" /\ rearm
  /\ rearm' = FALSE /\ st_seg' = st_seg + 1
  /\ UNCHANGED <<detector, live, fatal, raw, lines>> /\ ByReader

(* The first fatal error stays; the writer may still fail after it.        *)
First(a, b) == IF a = "OK" THEN b ELSE a
ReaderFails ==
  /\ live /\ fatal = "OK" /\ fatal' \in {"LOST_SYNC", "NOMEM"}
  /\ UNCHANGED <<detector, live, raw, st_seg, rearm, lines>> /\ ByReader
RawFails ==
  /\ live /\ raw = "whole" /\ raw' = "cut" /\ fatal' = First(fatal, "IO")
  /\ UNCHANGED <<detector, live, st_seg, rearm, lines>> /\ ByReader

DeadlinePasses ==
  /\ live /\ ~late /\ late' = TRUE
  /\ UNCHANGED <<det, stream>> /\ ByReader
Cancels ==
  /\ pc \notin {"returned", "crashed"} /\ ~cancel /\ cancel' = TRUE
  /\ UNCHANGED <<pc, detector, strips, run, files, stream>>

-----------------------------------------------------------------------------
(* The worker                                                              *)

Goes(from, to) == pc = from /\ pc' = to
Steps(from, to) == Goes(from, to) /\ UNCHANGED <<detector, strips, run, files, stream, cancel>>
Fails(from, st) ==
  /\ Goes(from, "end") /\ run' = st
  /\ UNCHANGED <<detector, strips, files, stream, cancel>>

(* The lamp's health, the cancel and the forced pass come before any file. *)
Gate == Steps("gate", "open")
GateRefuses == \E st \in {"DEVICE", "CANCELLED", "FILM_IN_GUIDES"} :
  (st = "CANCELLED" => cancel) /\ Fails("gate", st)

OpensSidecar ==
  /\ Goes("open", "prepare") /\ Writes(Opened)
  /\ UNCHANGED <<detector, strips, run, stream, cancel>>
OpenFails ==
  /\ Goes("open", "end") /\ run' = "IO" /\ WriteFails(Opened)
  /\ UNCHANGED <<detector, strips, stream, cancel>>

(* Calibration, CCD, lamp, motor; then the detector is armed and the       *)
(* stream, the acquisition and the DX reader start.                        *)
Prepare ==
  /\ \/ Goes("prepare", "loop") /\ UNCHANGED run
     \/ Goes("prepare", "end") /\ run' = "DEVICE"        \* the acquisition or 0x91, after the stream's start
  /\ live' = TRUE
  /\ UNCHANGED <<detector, strips, files, fatal, raw, st_seg, rearm, lines, cancel>>
PrepareFails == \E st \in {"DEVICE", "CANCELLED"} : (st = "CANCELLED" => cancel) /\ Fails("prepare", st)

(* The loop's head: the cancel, the boards' poll, the stream's poll, and   *)
(* PKS_PACKET_READY_MS without a byte.                                     *)
Cancelled == cancel
LoopPasses == ~Cancelled /\ fatal = "OK" /\ Steps("loop", "look")
LoopEnds ==
  \/ Cancelled /\ Fails("loop", "CANCELLED")
  \/ ~Cancelled /\ Fails("loop", "DEVICE")
  \/ ~Cancelled /\ fatal # "OK" /\ Fails("loop", fatal)
  \/ ~Cancelled /\ fatal = "OK" /\ Fails("loop", "TIMEOUT")

(* The worker's look at the detector.                                      *)
Look ==
  /\ pc = "look"
  /\ LET d == Overdue(det, late)
     IN /\ det' = d /\ open' = (open \/ d.started)
        /\ IF ~d.ended THEN pc' \in {"loop", "flush"} /\ UNCHANGED run
           ELSE IF ~d.no_film THEN pc' = "finish" /\ UNCHANGED run
           ELSE pc' = "end" /\ run' = IF done = 0 THEN "NO_FILM" ELSE "OK"
  /\ UNCHANGED <<late, done, segment, files, stream, cancel>>
LedFails ==
  /\ Goes("look", "end") /\ run' = "DEVICE"
  /\ det.started /\ (det.ended \/ ~open) /\ open' = TRUE
  /\ UNCHANGED <<detector, done, segment, files, stream, cancel>>

(* PKS_SIDECAR_EVERY_MS                                                    *)
TimedFlush ==
  /\ \/ Goes("flush", "loop") /\ Writes(sc) /\ UNCHANGED run
     \/ Goes("flush", "end") /\ WriteFails(sc) /\ run' = "IO"
  /\ UNCHANGED <<detector, strips, stream, cancel>>

(* strip_finish: the DX is drained and analysed, the strip is recorded, and*)
(* the sidecar written before anything else.                               *)
DrainFails == Fails("finish", "DEVICE")
FinishStrip ==
  /\ Goes("finish", "keep")
  /\ sc' = WithStrip(sc, Strip(det, FALSE))
  /\ done' = done + 1 /\ open' = FALSE
  /\ UNCHANGED <<detector, segment, run, disk, stream, cancel>>
KeepStrip_AtNextFlush ==
  /\ Goes("keep", IF done >= STRIPS_MAX THEN "end" ELSE "arm") /\ sc' = Flushed(sc)
  /\ UNCHANGED <<detector, strips, run, disk, stream, cancel>>
KeepStrip ==
  /\ \/ Goes("keep", IF done >= STRIPS_MAX THEN "end" ELSE "arm") /\ Writes(sc) /\ UNCHANGED run
     \/ Goes("keep", "end") /\ WriteFails(sc) /\ run' = "IO"
  /\ UNCHANGED <<detector, strips, stream, cancel>>

(* The next strip: the detector is armed for the new segment before the    *)
(* stream is told of it.                                                   *)
ArmFails == Fails("arm", "NOMEM")
ArmDetector ==
  /\ Goes("arm", "rearm")
  /\ segment' = segment + 1 /\ det' = Armed(segment + 1) /\ late' = FALSE
  /\ UNCHANGED <<open, done, run, files, stream, cancel>>
Rearm ==
  /\ \/ pc = "rearm" /\ pc' \in {"loop", "flush"} /\ UNCHANGED run
     \/ Goes("rearm", "end") /\ run' = "DEVICE"          \* 0x91 or the LED after it
  /\ rearm' = TRUE
  /\ UNCHANGED <<detector, strips, files, live, fatal, raw, st_seg, lines, cancel>>

(* end_scan: acquisition off, the stream stopped and joined - the file's   *)
(* last flush or close may fail -, lamp, DX and motor.                     *)
EndScan ==
  /\ Goes("end", "last") /\ live' = FALSE
  /\ \/ UNCHANGED <<raw, fatal>>
     \/ live /\ raw' = "cut" /\ fatal' = First(fatal, "IO")
  /\ UNCHANGED <<detector, strips, run, files, st_seg, rearm, lines, cancel>>

(* The roll's last words.  Without a sidecar there are none.               *)
IsComplete == run = "OK"
LastWords ==
  /\ Goes("last", "recheck")
  /\ LET s == [sc EXCEPT !.complete = IsComplete, !.error = run]
     IN IF sc.error = "none" THEN UNCHANGED <<run, files>>
        ELSE \/ Writes(s) /\ UNCHANGED run
             \/ WriteFails(s) /\ run' = First(run, "IO")
  /\ UNCHANGED <<detector, strips, stream, cancel>>

(* What the stream's stop said counts when it is the file's or memory's.   *)
SpoilsRoll == run = "OK" /\ fatal \in {"IO", "NOMEM"}
Recheck ==
  /\ Goes("recheck", "returned")
  /\ LET s == [sc EXCEPT !.complete = FALSE, !.error = fatal]
     IN IF SpoilsRoll THEN run' = fatal /\ (Writes(s) \/ WriteFails(s))
                      ELSE UNCHANGED <<run, files>>
  /\ UNCHANGED <<detector, strips, stream, cancel>>

(* The process may die between any two steps.                              *)
Dies ==
  /\ pc \notin {"returned", "crashed"} /\ pc' = "crashed" /\ live' = FALSE
  /\ UNCHANGED <<detector, strips, run, files, fatal, raw, st_seg, rearm, lines, cancel>>

ScanInit ==
  /\ pc = "gate" /\ det = Armed(0) /\ late = FALSE
  /\ open = FALSE /\ done = 0 /\ segment = 0
  /\ run = "OK" /\ sc = NoFile /\ disk = NoFile
  /\ live = FALSE /\ fatal = "OK" /\ raw = "whole" /\ st_seg = 0 /\ rearm = FALSE
  /\ cancel = FALSE /\ lines = <<>>

Worker ==
  \/ Gate \/ GateRefuses \/ OpensSidecar \/ OpenFails \/ Prepare \/ PrepareFails
  \/ LoopPasses \/ LoopEnds \/ Look \/ LedFails \/ TimedFlush
  \/ DrainFails \/ FinishStrip \/ KeepStrip \/ ArmFails \/ ArmDetector \/ Rearm
  \/ EndScan \/ LastWords \/ Recheck
Others == LineArrives \/ RearmTaken \/ ReaderFails \/ RawFails \/ DeadlinePasses \/ Cancels \/ Dies

(* The worker's thread is scheduled and its calls return; nothing is asked *)
(* of the film, the clock or the scanner.                                  *)
ScanSpec == ScanInit /\ [][Worker \/ Others]_vars /\ WF_vars(Worker)

-----------------------------------------------------------------------------
(* What the strips, the files and the end promise                          *)

(* A strip's place in the roll is its own: the detector saw every line of  *)
(* the strip's segment from its first and no other line, whenever it was   *)
(* armed and however late the stream took the re-arm; so a recorded strip  *)
(* lies in its segment, has fewer lines than the budget, and was stopped by*)
(* the budget exactly when only the ending line was left of it.            *)
SeenIn(ls, seg) ==
  LET seen[n \in 0..Len(ls)] ==
        IF n = 0 THEN Armed(seg)
        ELSE LET d == seen[n - 1]
             IN IF ls[n].seg = seg /\ ~d.ended THEN Sensed(d, n, ls[n].level, FALSE) ELSE d
  IN seen[Len(ls)]
StripsOfTheirSegments ==
  /\ det.no_film \/ det = SeenIn(lines, det.seg)
  /\ \A k \in 1..Len(sc.strips) :
       LET s == sc.strips[k]
       IN Finished(s) =>
            /\ s.seg = k - 1 /\ \A n \in s.start..s.end : lines[n].seg = s.seg
            /\ s.end - s.start + 1 < LINES_PER_STRIP
            /\ s.ended_by = "max_film_length" <=> s.end - s.start + 2 = LINES_PER_STRIP

(* What the .json on disk says at any moment, also after the process died: *)
(* complete only when the roll came to its end with every strip of it      *)
(* finished and none in progress; and a scan that returns PK_OK left that. *)
CompleteIsAll ==
  /\ disk.complete =>
       /\ disk.error = "OK" /\ Len(disk.strips) = done /\ done > 0
       /\ \A k \in 1..done : Finished(disk.strips[k])
  /\ pc = "returned" /\ run = "OK" => disk.complete

(* What the sidecar says of the film, in memory and on disk.               *)
SidecarIsTrue == StripsOfTheirSegments /\ CompleteIsAll

(* A finished strip is on disk before the next one is looked for, and no   *)
(* later flush, whole or failed, takes it away or changes it.              *)
FinishedIn(f) == {k \in 1..Len(f.strips) : Finished(f.strips[k])}
FinishedIsKept ==
  [][/\ \A k \in FinishedIn(disk) : k \in FinishedIn(disk') /\ disk'.strips[k] = disk.strips[k]
     /\ pc' \in {"loop", "look", "flush", "finish", "arm", "rearm"} => FinishedIn(disk') = 1..done']_vars

(* A scan that must end does: cancelled, a failed stream, a strip's end or *)
(* the no-film deadline is noticed even if no further line ever comes.     *)
MustEnd == cancel \/ (fatal # "OK" /\ live) \/ det.ended \/ (late /\ ~det.started)
ScanEnds == MustEnd ~> (~MustEnd \/ pc \in {"returned", "crashed"})

(* scan.c:739 of the stream's errors after the last strip: "do not touch   *)
(* the roll; a failed raw-file write does".                                *)
FailedWriteIsTold == pc = "returned" /\ run = "OK" => raw = "whole"
=============================================================================
