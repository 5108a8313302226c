------------------------------ MODULE Capture ------------------------------
(***************************************************************************)
(* The lines a calibration reads (calib/capture.c): after each setting it  *)
(* sums NEED lines that were exposed under that setting.  The device holds *)
(* up to BUFFER finished lines; the stream's reader has one chunk in       *)
(* flight and files a whole chunk under the segment that is current when   *)
(* the chunk returns; a re-arm starts the next segment.  A line is the     *)
(* number of the setting it was exposed under.                             *)
(***************************************************************************)
EXTENDS Integers, Sequences

CONSTANTS
    BUFFER,          \* lines the device may hold back
    CHUNK,           \* lines of a chunk
    SETTLE_LINES,    \* PKCAL_SETTLE_LINES
    NEED,            \* lines of a sum
    SETTINGS         \* settings written, one sum each

ASSUME CaptureAssumption ==
    /\ {BUFFER, CHUNK, NEED, SETTINGS} \subseteq Nat \ {0}
    /\ SETTLE_LINES \in Nat /\ SETTLE_LINES >= BUFFER

VARIABLES
    setting,         \* what the device exposes under
    buffered,        \* lines in the device
    flight,          \* lines of the chunk in flight
    filed,           \* [seg, lines]: the chunk the reader hands out
    rearm,           \* a re-arm the reader has not taken
    capture          \* struct pkcal_cap and where pkcal_cap_lines is
captureVars == <<setting, buffered, flight, filed, rearm, capture>>

CaptureInit ==
    /\ setting = 0 /\ rearm = FALSE
    /\ buffered = <<>> /\ flight = <<>>
    /\ filed = [seg |-> 0, lines |-> <<>>]
    /\ capture = [at |-> "idle", want |-> 0, probing |-> FALSE, seen |-> FALSE,
                  active |-> FALSE, skip |-> 0, sum |-> <<>>]
-----------------------------------------------------------------------------
(* The device and the bus.                                                 *)

Expose ==
    /\ Len(buffered) < BUFFER
    /\ buffered' = Append(buffered, setting)
    /\ UNCHANGED <<setting, flight, filed, rearm, capture>>

Transfer ==
    /\ buffered # <<>> /\ Len(flight) < CHUNK
    /\ flight' = Append(flight, Head(buffered))
    /\ buffered' = Tail(buffered)
    /\ UNCHANGED <<setting, filed, rearm, capture>>

\* A full chunk, or a read that timed out with a part of one, comes back: the
\* reader takes a pending re-arm first.
ChunkReturns ==
    /\ flight # <<>> /\ filed.lines = <<>>
    /\ filed' = [seg |-> IF rearm THEN filed.seg + 1 ELSE filed.seg, lines |-> flight]
    /\ flight' = <<>>
    /\ rearm' = FALSE
    /\ UNCHANGED <<setting, buffered, capture>>

\* on_line, under the lock.
OnLine ==
    LET ours == filed.seg = capture.want
    IN /\ filed.lines # <<>>
       /\ filed' = [filed EXCEPT !.lines = Tail(@)]
       /\ capture' = [capture EXCEPT
              !.seen = @ \/ (capture.probing /\ ours),
              !.skip = IF capture.active /\ ours /\ @ > 0 THEN @ - 1 ELSE @,
              !.sum  = IF capture.active /\ ours /\ capture.skip = 0 /\ Len(@) < NEED
                       THEN Append(@, Head(filed.lines)) ELSE @]
       /\ UNCHANGED <<setting, buffered, flight, rearm>>
-----------------------------------------------------------------------------
(* The calibration: a setting, then pkcal_cap_lines.                       *)

WriteSetting ==
    /\ capture.at = "idle" /\ setting < SETTINGS
    /\ setting' = setting + 1
    /\ capture' = [capture EXCEPT !.at = "written", !.sum = <<>>]
    /\ UNCHANGED <<buffered, flight, filed, rearm>>

\* The first segment is only watched for ...
Probe ==
    /\ capture.at = "written"
    /\ capture' = [capture EXCEPT !.at = "probe", !.want = @ + 1, !.probing = TRUE, !.seen = FALSE]
    /\ UNCHANGED <<setting, buffered, flight, filed, rearm>>

Rearms(from, to) ==
    /\ capture.at = from
    /\ capture' = [capture EXCEPT !.at = to]
    /\ rearm' = TRUE
    /\ UNCHANGED <<setting, buffered, flight, filed>>

\* ... so that the chunk in flight is over before the one that is summed.
ProbeOver == capture.at = "watch" /\ capture.seen

Skipped_None == 0
Skipped == SETTLE_LINES

Arm ==
    /\ ProbeOver
    /\ capture' = [capture EXCEPT !.at = "arm", !.probing = FALSE, !.active = TRUE,
                                  !.want = @ + 1, !.skip = Skipped]
    /\ UNCHANGED <<setting, buffered, flight, filed, rearm>>

Summed ==
    /\ capture.at = "sum" /\ Len(capture.sum) = NEED
    /\ capture' = [capture EXCEPT !.at = "idle", !.active = FALSE]
    /\ UNCHANGED <<setting, buffered, flight, filed, rearm>>

\* No progress for PKCAL_LINE_TIMEOUT_MS, a cancel, a lost stream: the run is over.
CaptureFails ==
    /\ capture.at \in {"watch", "sum"}
    /\ capture' = [capture EXCEPT !.at = "failed", !.active = FALSE, !.probing = FALSE]
    /\ UNCHANGED <<setting, buffered, flight, filed, rearm>>

CaptureNext ==
    \/ Expose \/ Transfer \/ ChunkReturns \/ OnLine
    \/ WriteSetting \/ Probe \/ Rearms("probe", "watch") \/ Arm \/ Rearms("arm", "sum")
    \/ Summed \/ CaptureFails

CaptureSpec == CaptureInit /\ [][CaptureNext]_captureVars
-----------------------------------------------------------------------------
\* No line that was exposed before the setting was written is ever summed,
\* wherever it was when the setting changed: in the device, in the chunk in
\* flight or between the reader and on_line.
SumsAreOfTheSetting ==
    \A k \in 1..Len(capture.sum) : capture.sum[k] = setting

\* The segment a capture waits for is the reader's or the next one it starts:
\* two re-arms that the reader takes as one would leave the capture waiting
\* for a segment that never comes, until the line timeout.
SegmentIsComing ==
    capture.at \in {"watch", "sum"} => capture.want = filed.seg + (IF rearm THEN 1 ELSE 0)

\* A capture sums its own lines, and they come.
CaptureIsOfTheSetting == SumsAreOfTheSetting /\ SegmentIsComing
=============================================================================
