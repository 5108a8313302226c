-------------------------------- MODULE Config --------------------------------
(***************************************************************************)
(* The scan configuration (core/src/session/config.c): its validation, the *)
(* film length limit and the strip budget, and the way through the roll's  *)
(* sidecar.  A caller configures a scan of the F-135 Plus (tables/         *)
(* models.def); a configuration that is accepted starts a scan, which      *)
(* writes it to the sidecar; a later program reads it back.                *)
(*                                                                         *)
(* The fields kept are those that decide: the base, the strip mode, the    *)
(* length, the scan control's bits with ir, the feed mode with its advance *)
(* time, and the IR crosstalk factor.  The others are one range test each. *)
(* LENGTHS bounds the lengths asked for.                                   *)
(***************************************************************************)
EXTENDS Integers

CONSTANTS LENGTHS, CONTROLS, FEEDS, TIMES, FACTORS

ASSUME ConfigAssumption ==
  /\ LENGTHS \subseteq Nat /\ FEEDS \subseteq Nat /\ TIMES \subseteq Nat /\ FACTORS \subseteq Nat
  /\ CONTROLS \subseteq SUBSET {"splice", "scratch", "prescan", "unknown"}

VARIABLES cfg, verdict, sidecar, back
configVars == <<cfg, verdict, sidecar, back>>

-----------------------------------------------------------------------------
(* The F-135 Plus's geometry at each base                                  *)
Bases == {4, 8, 16}
hires_px(base) == CASE base = 4 -> 1000 [] base = 8 -> 1500 [] base = 16 -> 2000
window_lines(base) == CASE base = 4 -> 1603 [] base = 8 -> 2405 [] base = 16 -> 3206
LEN_PX_DIV == 23700
MAX_STRIPS == 15

(* The defaults, and the shortest film                                     *)
DEFAULT_MM == 1670
DEFAULT_ADVANCE == 750
DEFAULT_FACTOR == 10
MIN_MM == 24

(* mm * px * 1000 / 23700, without leaving 32 bits                         *)
LengthLimit(c) == (c.mm * hires_px(c.base) * 10) \div 237

Window(base) == (window_lines(base) * LEN_PX_DIV) \div hires_px(base)     \* one frame window, in micrometres
PerStrip(u, frames) == frames * u + u \div 4
Capped(n) == IF n > MAX_STRIPS THEN MAX_STRIPS ELSE n

Strips(c) == IF c.strips = 0 THEN 1 ELSE Capped((c.mm * 1000) \div PerStrip(Window(c.base), c.strips))
LinesPerStrip(c) ==
  IF c.strips = 0 THEN LengthLimit(c) ELSE IF Strips(c) = 0 THEN 0 ELSE LengthLimit(c) \div Strips(c)

-----------------------------------------------------------------------------
(* pk_scan_config_validate                                                 *)
FeedFits(c) == c.feed_mode <= 2 /\ (c.feed_mode = 2 => c.advance >= 1 /\ c.advance <= 300000)
LengthFits(c) == MIN_MM <= c.mm /\ c.mm <= 6400
ControlFits(c) ==
  /\ "unknown" \notin c.control
  /\ ~({"splice", "scratch"} \subseteq c.control)
  /\ c.ir = ("scratch" \in c.control)
BudgetFits_Not(c) == TRUE
BudgetFits(c) == Strips(c) # 0 /\ LinesPerStrip(c) # 0

Verdict(c) ==
  IF ~(c.strips \in {0, 4, 5, 6} /\ ControlFits(c) /\ LengthFits(c) /\ FeedFits(c)) THEN "arg"
  ELSE IF "prescan" \in c.control THEN "unsupported"
  ELSE IF ~BudgetFits(c) THEN "arg" ELSE "ok"

(* pk_scan_config_to_json and config_from_json; an older sidecar has       *)
(* neither the feed mode with its time, nor the crosstalk factor           *)
Clamp(v) == IF v < 1 THEN 1 ELSE IF v > 20 THEN 20 ELSE v
ToJson(c) == [c EXCEPT !.factor = Clamp(c.factor)]
Older(j) == [j EXCEPT !.feed_mode = 0, !.advance = DEFAULT_ADVANCE, !.factor = DEFAULT_FACTOR]
FromJson(j) == [j EXCEPT !.factor = Clamp(j.factor)]

-----------------------------------------------------------------------------
NoConfig ==
  [base |-> 16, strips |-> 0, mm |-> DEFAULT_MM, control |-> {}, ir |-> FALSE,
   feed_mode |-> 0, advance |-> DEFAULT_ADVANCE, factor |-> DEFAULT_FACTOR]

(* The caller asks; what is asked need not make sense.  The length is      *)
(* crossed with the strips, the other fields with each other               *)
Asked ==
  [base : Bases, strips : {0, 3, 4, 5, 6}, mm : LENGTHS, control : {{}}, ir : {FALSE},
   feed_mode : {0}, advance : {DEFAULT_ADVANCE}, factor : {DEFAULT_FACTOR}]
    \union
  [base : {16}, strips : {0, 6}, mm : {MIN_MM, DEFAULT_MM}, control : CONTROLS, ir : BOOLEAN,
   feed_mode : FEEDS, advance : TIMES, factor : FACTORS]

Configure ==
  /\ verdict = "none"
  /\ cfg' \in Asked
  /\ verdict' = Verdict(cfg')
  /\ UNCHANGED <<sidecar, back>>

Record ==
  /\ verdict = "ok" /\ sidecar = "none"
  /\ sidecar' \in {"written", "older"}
  /\ UNCHANGED <<cfg, verdict, back>>

ReadBack ==
  /\ sidecar # "none" /\ back = NoConfig
  /\ back' = FromJson(IF sidecar = "older" THEN Older(ToJson(cfg)) ELSE ToJson(cfg))
  /\ UNCHANGED <<cfg, verdict, sidecar>>

ConfigInit == cfg = NoConfig /\ verdict = "none" /\ sidecar = "none" /\ back = NoConfig
ConfigNext == Configure \/ Record \/ ReadBack
ConfigSpec == ConfigInit /\ [][ConfigNext]_configVars

-----------------------------------------------------------------------------
(* An accepted scan's budget is sound for every length: at least one strip *)
(* (det_begin and the division by the strips rely on it), at most 15, no   *)
(* more lines than the film may have, and in each strip room for all its   *)
(* frame windows.                                                          *)
StripsHoldTheirFrames ==
  verdict = "ok" =>
    /\ Strips(cfg) \in 1..MAX_STRIPS /\ LinesPerStrip(cfg) > 0
    /\ Strips(cfg) * LinesPerStrip(cfg) <= LengthLimit(cfg)
    /\ cfg.strips * window_lines(cfg.base) <= LinesPerStrip(cfg)

(* What a scan recorded can start a scan again: it reads back to a         *)
(* configuration that is accepted and has the same budget.                 *)
RecordedIsAccepted ==
  back # NoConfig =>
    /\ Verdict(back) = "ok" /\ LinesPerStrip(back) = LinesPerStrip(cfg) /\ Strips(back) = Strips(cfg)
    /\ back.factor \in 1..20

(* What an accepted configuration gives the scan, and what is left of it   *)
(* in the roll's file.                                                     *)
BudgetIsSound == StripsHoldTheirFrames /\ RecordedIsAccepted
==============================================================================
