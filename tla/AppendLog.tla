------------------------------- MODULE AppendLog -------------------------------
(***************************************************************************)
(* The append-only text logs of the calibration store (selection.log,      *)
(* hidden.log, local.log) and of the EEPROM image store (eeprom.log).  A   *)
(* line is what it says, a sequence that begins with what it is about, and *)
(* how it ends; one that lost its end to a crash or a full disk is torn,   *)
(* and the next append must end it first.                                  *)
(***************************************************************************)
EXTENDS Naturals, Sequences, FiniteSetsExt

(* How a line ends: "nl" complete; "bare" only the newline is missing;      *)
(* "cut" shorter than that; "bad" ended, but by a mark that makes it        *)
(* invalid (or it was too short to be valid).                               *)
Torn == {"bare", "cut"}

EmptyLog == [lines |-> <<>>,     \* each with its text and its end
             hard |-> 0]         \* how many of them a power loss cannot take

LastTorn(log) == log.lines # <<>> /\ log.lines[Len(log.lines)].end \in Torn

(* append_line's repair writes "!\n": the mark keeps the line invalid.      *)
MarkedBad == [end \in Torn |-> "bad"]
(* eeprom_store's repair writes "\n": a line that lacked only that counts.  *)
JustEnded == [end \in Torn |-> IF end = "bare" THEN "nl" ELSE "bad"]

Mended(log, repair) ==
    IF LastTorn(log)
    THEN LET n == Len(log.lines)
         IN [lines |-> [log.lines EXCEPT ![n].end = repair[@]],
             hard |-> IF log.hard = n THEN n - 1 ELSE log.hard]
    ELSE log

Added(log, text, end) ==
    [log EXCEPT !.lines = Append(@, [text |-> text, end |-> end])]

Synced(log) == [log EXCEPT !.hard = Len(log.lines)]

(* The log a failed append leaves: untouched, mended, or with a torn line.  *)
Spoiled(log, text, repair) ==
    {log, Mended(log, repair)} \union
    {Added(Mended(log, repair), text, e) : e \in Torn}

(* What a power loss may leave: any part of what was not yet synced.        *)
AfterLoss(log) ==
    UNION {LET kept == SubSeq(log.lines, 1, n)
           IN {Synced([log EXCEPT !.lines = kept])} \union
              IF n = log.hard THEN {}
              ELSE {Synced([log EXCEPT !.lines = [kept EXCEPT ![n].end = e]])
                    : e \in Torn}
           : n \in log.hard .. Len(log.lines)}

(* The lines about something that a reader accepts, and what the last says. *)
InForce(log, of) ==
    {n \in DOMAIN log.lines : log.lines[n].end = "nl" /\ log.lines[n].text[1] = of}

LastSaid(log, of, default) ==
    LET said == InForce(log, of)
    IN IF said = {} THEN default ELSE log.lines[Max(said)].text[2]
=============================================================================
