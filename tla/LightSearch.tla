---------------------------- MODULE LightSearch ----------------------------
(***************************************************************************)
(* One light calibration (calib/measure.c, pkcal_measure): the black level *)
(* of the AFE, the search of the LED currents and of the duties, the loop  *)
(* that raises a current or a gain that does not suffice, the flat frame.  *)
(*                                                                         *)
(* What is kept of the numbers: a current is a step of its limit, a duty a *)
(* step of its channel's greatest one (MAXD, and MAXD + 1 for the "0.001   *)
(* more" that marks a duty that does not suffice), an AFE gain a small     *)
(* number, and every channel's reading is normalised to its own target     *)
(* window.  A reading is the product of the channel's sensitivity and what *)
(* the device has been SENT, which is what the search is about: set is     *)
(* what the code holds, dev what the boards were given.                    *)
(***************************************************************************)
EXTENDS Integers, FiniteSets, Sequences

CONSTANTS
    JOBS,            \* the calibrations: [ir, full, light, dark, cur, duty, gain]
    DARK_ROUNDS, DUTY_ROUNDS, DUTY_CONFIRM, CURRENT_STEPS_MAX, OUTER_MAX,
    LIM_RGB, LIM_IR, \* limits of the LED currents, without and with the IR LED
    MAXD,            \* the duty that is 10^-D
    GAIN_START, GAIN_FAIL_ABOVE, GAIN_MAX,
    OFFSET_START, OFFSET_MAX

VARIABLES job, at, set, dev, search
lightVars == <<job, at, set, dev, search>>

RGB == {"R", "G", "B"}
CH  == RGB \cup {"Ir"}
FULL   == 30                    \* the reading of a saturated pixel
TARGET == 24
LO     == 23
HI     == 24
IR_FLAG_BELOW == 6              \* a quarter of the target (10000 of 40000)
PERIOD == MAXD + 2

Least(a, b)    == IF a < b THEN a ELSE b
Greatest(a, b) == IF a > b THEN a ELSE b
\* As often as a channel can be raised: to its limit, and at the limit to GAIN_MAX.
Raises(lim, c) == Greatest(GAIN_MAX, lim[c] - 1 + GAIN_MAX - GAIN_START)

\* The limits of the boards, the AFE's gains, and the two bounds of the port.
ASSUME LightAssumption ==
    /\ {DARK_ROUNDS, DUTY_ROUNDS, CURRENT_STEPS_MAX, OUTER_MAX, MAXD, OFFSET_MAX} \subseteq Nat \ {0}
    /\ DUTY_CONFIRM \in Nat \ {0, 1}
    /\ LIM_RGB \in [CH -> 0..CURRENT_STEPS_MAX] /\ LIM_IR \in [CH -> 1..CURRENT_STEPS_MAX]
    /\ LIM_RGB["Ir"] = 0 /\ \A c \in RGB : LIM_RGB[c] > 0
    /\ GAIN_START \in 1..GAIN_FAIL_ABOVE /\ GAIN_FAIL_ABOVE \in Nat /\ GAIN_MAX = GAIN_FAIL_ABOVE + 1
    /\ OFFSET_START \in 0..OFFSET_MAX
    /\ \A lim \in {LIM_RGB, LIM_IR} :
         Raises(lim, "R") + Raises(lim, "G") + Raises(lim, "B") + Greatest(1, lim["Ir"]) < OUTER_MAX

ASSUME JobAssumption ==
    \A j \in JOBS : /\ j.ir \in BOOLEAN
                    /\ j.light \in [CH -> Nat] /\ j.dark \in [RGB -> Int]
                    /\ j.cur \in [CH -> Nat] /\ j.duty \in [CH -> Nat] /\ \A c \in RGB : j.gain[c] \in Nat

Channels == IF job.ir THEN CH ELSE RGB
Limit    == IF job.ir THEN LIM_IR ELSE LIM_RGB

\* A channel's brightest active pixel with what the device holds.
Reading(c) ==
    LET gain == IF c = "Ir" THEN 1 ELSE dev.gain[c]
    IN  Least(FULL, (job.light[c] * dev.lv[c] * dev.on[c] * gain) \div MAXD)

\* The duty that goes with current n: half the greatest one below 3.
DutyForCurrent(n) == Greatest(1, IF n < 3 THEN MAXD \div 2 ELSE (MAXD * (n - 1)) \div n)

\* lamp_apply: currents clamped to the limits, none for the IR LED without IR,
\* on-counts at most PERIOD - 2.
OnCount(d) == Least(d, PERIOD - 2)
Lit(vis, cur, d) ==
    [dev EXCEPT !.vis = vis,
                !.lv = [c \in CH |-> Least(cur[c], Limit[c])],
                !.on = [c \in CH |-> IF c = "Ir" /\ ~job.ir THEN 0 ELSE OnCount(d[c])]]

Shown == [dev EXCEPT !.gain = set.gain, !.off = set.off]     \* pk_host_ccd_update
SearchFrom(n) == [round |-> 0, done |-> {}, last |-> [c \in CH |-> 0], last2 |-> [c \in CH |-> 0],
                  confirm |-> n, steps |-> 0, outer |-> 0, flags |-> {}, failed |-> "none"]
NoSearch_OneRound == SearchFrom(1)
NoSearch == SearchFrom(DUTY_CONFIRM)

LightInit ==
    /\ job \in JOBS
    /\ at = "window"
    /\ set = [cur |-> [c \in CH |-> 1], d |-> [c \in CH |-> 1], words |-> 3,
              gain |-> [c \in RGB |-> GAIN_START], off |-> [c \in RGB |-> OFFSET_START]]
    /\ dev = [vis |-> FALSE, lv |-> [c \in CH |-> 0], on |-> [c \in CH |-> 0], ir |-> FALSE,
              gain |-> [c \in RGB |-> 1], off |-> [c \in RGB |-> 0], acquiring |-> FALSE]
    /\ search = NoSearch

LightFails(why) == at' = "over" /\ search' = [search EXCEPT !.failed = why] /\ UNCHANGED <<job, set>>
-----------------------------------------------------------------------------
(* The black level.                                                        *)

\* C2, C1: lamp off, the window with a 3-channel line, the stream, acquisition on.
\* The window goes out with the stored gains and offsets, which record.c:131 has
\* bounded; pkcal_afe_converge sends the start values before the first frame is
\* read, and those are what is kept here.
OpenWindow ==
    /\ at = "window"
    /\ at' = "black"
    /\ dev' = [Shown EXCEPT !.vis = FALSE, !.ir = FALSE, !.acquiring = TRUE]
    /\ UNCHANGED <<job, set, search>>

ClampOffset(o) == IF o > OFFSET_MAX THEN OFFSET_MAX ELSE IF o < 1 - OFFSET_MAX THEN 1 - OFFSET_MAX ELSE o

\* C3, one round: a channel outside the window moves its offset the other way.
BlackRound ==
    LET m(c)  == job.dark[c] + dev.off[c]
        wrong == {c \in RGB : m(c) \notin -1..1}
        off   == [c \in RGB |-> IF c \in wrong THEN ClampOffset(set.off[c] - m(c)) ELSE set.off[c]]
    IN /\ at = "black" /\ wrong # {} /\ search.round < DARK_ROUNDS
       /\ set' = [set EXCEPT !.off = off]
       /\ dev' = [dev EXCEPT !.off = off]
       /\ search' = [search EXCEPT !.round = @ + 1]
       /\ UNCHANGED <<job, at>>

\* An IR run goes on with the IR bit and a 4-channel line; then the dark frames.
Darkened ==
    /\ at = "black"
    /\ search.round = DARK_ROUNDS \/ \A c \in RGB : job.dark[c] + dev.off[c] \in -1..1
    /\ at' = "light"
    /\ search' = NoSearch
    /\ set' = [set EXCEPT !.words = IF job.ir THEN 4 ELSE 3]
    /\ dev' = [dev EXCEPT !.ir = job.ir]
    /\ UNCHANGED job
-----------------------------------------------------------------------------
(* The currents.                                                           *)

StartFull ==
    LET cur == [c \in CH |-> 1]
        d   == [c \in CH |-> MAXD]
    IN /\ at = "light" /\ job.full
       /\ at' = "currents"
       /\ set' = [set EXCEPT !.cur = cur, !.d = d]
       /\ dev' = Lit(TRUE, cur, d)
       /\ search' = [NoSearch EXCEPT !.done = CH \ Channels]
       /\ UNCHANGED job

\* A channel stops when it saturates or is at its limit, else it rises by one.
CurrentStep ==
    LET stops == {c \in Channels : Reading(c) > HI \/ set.cur[c] >= Limit[c]}
        done  == search.done \cup stops
        cur   == [c \in CH |-> IF c \in done THEN set.cur[c] ELSE set.cur[c] + 1]
        d     == IF done = CH THEN [c \in CH |-> DutyForCurrent(cur[c])] ELSE set.d
    IN /\ at = "currents"
       /\ set' = [set EXCEPT !.cur = cur, !.d = d, !.gain = IF done = CH THEN [c \in RGB |-> GAIN_START] ELSE @]
       /\ dev' = Lit(TRUE, cur, d)
       /\ at' = IF done = CH THEN "duty" ELSE "currents"
       /\ search' = IF done = CH THEN [NoSearch EXCEPT !.done = CH \ Channels]
                    ELSE [search EXCEPT !.done = done, !.steps = @ + 1]
       /\ UNCHANGED job

StoredCurrent(c) ==
    LET n == Greatest(1, job.cur[c])
    IN  IF Limit[c] > 0 THEN Least(n, Limit[c]) ELSE n
StoredGain(c) == Least(job.gain[c], GAIN_MAX)

\* C6a: the stored currents, duties and gains, brought into their ranges.
StartStored ==
    LET cur  == [c \in CH |-> StoredCurrent(c)]
        d    == [c \in CH |-> IF job.duty[c] > 0 THEN Least(job.duty[c], MAXD) ELSE MAXD \div 2]
        gain == [c \in RGB |-> StoredGain(c)]
    IN /\ at = "light" /\ ~job.full
       /\ at' = "duty"
       /\ set' = [set EXCEPT !.cur = cur, !.d = d, !.gain = gain]
       /\ dev' = [Lit(TRUE, cur, d) EXCEPT !.gain = gain]
       /\ search' = [NoSearch EXCEPT !.done = CH \ Channels]
       /\ UNCHANGED job
-----------------------------------------------------------------------------
(* The duties.                                                             *)

Scaled(c) == Greatest(1, (set.d[c] * TARGET) \div Reading(c))
Settles(c) == Reading(c) \in LO..HI \/ dev.on[c] \in {search.last[c], search.last2[c]}

\* A channel's duty after a round, before it is held against MAXD.
NextDuty(c) ==
    IF c \in search.done THEN IF Reading(c) = 0 THEN MAXD + 1 ELSE Scaled(c)
    ELSE IF Settles(c) THEN set.d[c]
    ELSE IF Reading(c) = 0 THEN 2 * set.d[c] ELSE Scaled(c)

DutyRound ==
    LET d    == [c \in CH |-> IF c \in Channels THEN Least(NextDuty(c), MAXD + 1) ELSE set.d[c]]
        done == search.done \cup {c \in Channels : Settles(c) \/ d[c] > MAXD}
        flags == IF done # CH THEN {}
                 ELSE {c \in Channels : d[c] > MAXD /\ (c = "Ir" => Reading(c) < IR_FLAG_BELOW)}
        confirm == IF done = CH THEN search.confirm - 1 ELSE search.confirm
        settled == done = CH /\ flags = {} /\ confirm < 1
        capped == [c \in CH |-> Least(d[c], MAXD)]
    IN /\ at = "duty" /\ search.round < DUTY_ROUNDS
       /\ IF flags # {} \/ settled
          THEN /\ set' = [set EXCEPT !.d = capped]
               /\ at' = IF flags = {} THEN "flat" ELSE "raise"
               /\ UNCHANGED dev
          ELSE /\ set' = [set EXCEPT !.d = d]
               /\ dev' = Lit(TRUE, set.cur, d)
               /\ UNCHANGED at
       /\ search' = [search EXCEPT !.round = @ + 1, !.done = done, !.flags = flags, !.confirm = confirm,
                          !.last  = [c \in CH |-> IF c \in search.done THEN @[c] ELSE dev.on[c]],
                          !.last2 = [c \in CH |-> IF c \in search.done THEN @[c] ELSE search.last[c]]]
       /\ UNCHANGED job

\* The rounds are used up: the duties as they are, and no flag.
DutyRoundsEnd ==
    /\ at = "duty" /\ search.round = DUTY_ROUNDS
    /\ at' = "flat"
    /\ set' = [set EXCEPT !.d = [c \in CH |-> Least(set.d[c], MAXD)]]
    /\ UNCHANGED <<job, dev, search>>

MayRise(c) == set.cur[c] < Limit[c]

CannotBeLit(c) ==
    /\ c \in search.flags /\ ~MayRise(c)
    /\ c \in RGB => set.gain[c] > GAIN_FAIL_ABOVE

\* C8: every flagged channel gets a higher current, or at the limit a higher
\* gain.  The gains are sent at once, the currents by the next duty search.
Raise ==
    LET up  == {c \in search.flags : MayRise(c)}
        cur == [c \in CH |-> IF c \in up THEN set.cur[c] + 1 ELSE set.cur[c]]
        reseeded == (IF up \cap RGB # {} THEN RGB ELSE {}) \cup (up \cap {"Ir"})
        gain == [c \in RGB |-> IF c \in up THEN GAIN_START
                               ELSE IF c \in search.flags THEN set.gain[c] + 1 ELSE set.gain[c]]
    IN /\ at = "raise"
       /\ \A c \in CH : ~CannotBeLit(c)
       /\ at' = "duty"
       /\ set' = [set EXCEPT !.cur = cur, !.gain = gain,
                             !.d = [c \in CH |-> IF c \in reseeded THEN DutyForCurrent(cur[c]) ELSE @[c]]]
       /\ dev' = [dev EXCEPT !.gain = gain]
       /\ search' = [NoSearch EXCEPT !.done = CH \ Channels, !.outer = search.outer + 1]
       /\ UNCHANGED job

\* The first channel that no setting can light ends the run (E_CAL_LIGHT).
Insufficient ==
    at = "raise" /\ UNCHANGED dev /\ \E c \in CH : CannotBeLit(c) /\ LightFails(c)
-----------------------------------------------------------------------------
(* C10, C11: the flat frame, the IR LED alone, acquisition off.            *)

Flat ==
    /\ at = "flat"
    /\ at' = IF job.ir THEN "lag" ELSE "over"
    /\ dev' = IF job.ir THEN Lit(FALSE, set.cur, set.d) ELSE [dev EXCEPT !.acquiring = FALSE]
    /\ UNCHANGED <<job, set, search>>

Lag == at = "lag" /\ at' = "over" /\ dev' = [dev EXCEPT !.acquiring = FALSE] /\ UNCHANGED <<job, set, search>>

\* A cancel, film over a sensor, a lost board or stream: from any wait.
LightAborts == at # "over" /\ LightFails("call") /\ dev' = [dev EXCEPT !.acquiring = FALSE]

LightNext ==
    \/ OpenWindow \/ BlackRound \/ Darkened \/ StartFull \/ CurrentStep
    \/ StartStored \/ DutyRound \/ DutyRoundsEnd \/ Raise \/ Insufficient
    \/ Flat \/ Lag \/ LightAborts
    \/ at = "over" /\ UNCHANGED lightVars

LightSpec == LightInit /\ [][LightNext]_lightVars
-----------------------------------------------------------------------------
(* What the light board and the AFE accept (light.c level_max, check_duty; *)
(* host.c ccd_check).                                                      *)
LevelMax == IF dev.lv["Ir"] > 0 THEN LIM_IR ELSE LIM_RGB

\* Every value the search sends is one the boards' own checks let through,
\* whatever the stored settings, the readings and the raises were: a refused
\* one would end the calibration with an argument error nobody could act on.
SettingsFit ==
    /\ \A c \in CH : dev.lv[c] <= LevelMax[c] /\ dev.on[c] <= PERIOD - 2
    /\ \A c \in RGB : dev.gain[c] <= GAIN_MAX /\ dev.off[c] \in (1 - OFFSET_MAX)..OFFSET_MAX

\* The flat frame, from which the gain tables are made, is taken under the
\* currents and gains that are stored with the tables, and on a line of as many
\* channels as the run has: also when the last raise was settled in one round.
TablesAreOfTheLight ==
    at = "flat" => /\ \A c \in Channels : dev.lv[c] = set.cur[c]
                   /\ dev.gain = set.gain /\ dev.off = set.off
                   /\ dev.vis /\ dev.acquiring /\ dev.ir = job.ir
                   /\ set.words = Cardinality(Channels)

\* The two bounds the port added to loops that had none (64 steps, 256 raises)
\* are never what ends a search: BoundsSuffice is also why the model has no
\* step for them.
BoundsSuffice ==
    /\ at = "currents" => search.steps < CURRENT_STEPS_MAX
    /\ at = "raise" => search.outer + 1 < OUTER_MAX

\* What holds of every light search: BoundsSuffice with the settings it sends
\* and those it stores.
LightIsSound == SettingsFit /\ TablesAreOfTheLight /\ BoundsSuffice

\* A run that ends with "cannot be lit: its brightest pixel reads ... at the
\* highest LED current and AFE gain" (measure.c) has read that pixel so.
InsufficientIsMeasured ==
    search.failed \in CH =>
        LET c == search.failed
        IN  dev.lv[c] = Limit[c] /\ (c \in RGB => dev.gain[c] = GAIN_MAX)
=============================================================================
