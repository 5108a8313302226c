-------------------------------- MODULE Boards --------------------------------
(***************************************************************************)
(* The registers of the scanner's boards and the shadows the driver keeps  *)
(* of them (core/src/boards/host.c, light.c; struct pk_boards): the CCD    *)
(* window and AFE, the FPGA's control word, and the lamp's enable, levels  *)
(* and duty.  The driver sends only what differs from its shadow, so a     *)
(* shadow that is wrong leaves the scanner with another setting than the   *)
(* scan's, and nothing reads the registers back.                           *)
(*                                                                         *)
(* A write to the scanner succeeds, fails after it took effect ("LOST"),   *)
(* or fails without effect ("FAIL"); a failure may be final, and then it   *)
(* is not retried.  The calls are the session's: a failed one faults the   *)
(* session, after which only its lamp-off goes out until the scanner is    *)
(* opened anew.  A "tool" is a caller without that rule, such as the       *)
(* command line tools, which use the boards directly.                      *)
(***************************************************************************)
EXTENDS Integers, Sequences

CONSTANTS
  CONFIGS,    \* pk_ccd_cfg's: what a scan or calibration sets the CCD to
  LIGHTS,     \* lamp settings: records of enable, levels and duty
  ATTEMPTS    \* PKB_LAMP_OFF_ATTEMPTS

CCD == {"off", "end", "int", "gain", "offs"}

ASSUME BoardsAssumption ==
  /\ ATTEMPTS \in Nat \ {0}
  /\ \A c \in CONFIGS : CCD \union {"binned", "ir", "l89"} \subseteq DOMAIN c
  /\ \A l \in LIGHTS : l.enable \in {1, 2, 3} /\ l.levels \in Nat /\ l.duty \in Nat

VARIABLES
  caller,   \* "session" or "tool"
  phase,    \* of the caller: "open", "faulted", "closed"
  dev,      \* the registers as the boards hold them
  shadow,   \* the driver's copies (lamp_mask is the copy of "enable")
  known,    \* which of them it trusts: fpga_ctrl >= 0, ccd_known, lamp_*_known
  op,       \* the call under way and the writes it has still to send
  res,      \* the last call, when it returned PK_OK
  lit, loaded, reload, reported   \* the lamp and its firmware, see Pass

lamp       == <<lit, loaded, reload, reported>>
boardsVars == <<caller, phase, dev, shadow, known, op, res, lamp>>

UNSET == 99     \* light_89 = -1: a value no configuration has
NoCall == [name |-> "none", arg |-> {}, plan |-> <<>>, tries |-> 1, leave |-> FALSE]
Nothing == [name |-> "none", arg |-> {}]

(* A write, and one of the lamp-off's steps, which are tried again.        *)
Write(r, v) == [reg |-> r, val |-> v, again |-> FALSE]
WriteAgain(r)  == [reg |-> r, val |-> 0, again |-> TRUE]

(* The word of ccd_check: the acquire bit is never part of it.             *)
Ctrl(c, acq) == [acq |-> acq, binned |-> c.binned, ir |-> c.ir]

PowerOn ==
  [off |-> 0, end |-> 0, int |-> 0, gain |-> 0, offs |-> 0, fixed |-> 0, l89 |-> 0,
   ctrl |-> [acq |-> FALSE, binned |-> FALSE, ir |-> FALSE], enable |-> 0, levels |-> 0, duty |-> 0]

(* pk_boards_open                                                          *)
NoShadows ==
  [off |-> 0, end |-> 0, int |-> 0, gain |-> 0, offs |-> 0, fixed |-> 0, l89 |-> UNSET,
   ctrl |-> [acq |-> FALSE, binned |-> FALSE, ir |-> FALSE], enable |-> 0, levels |-> 0, duty |-> 0]

-----------------------------------------------------------------------------
(* What each call sends                                                    *)

Unless(same, w) == IF same THEN <<>> ELSE <<w>>
Flag(c) == Unless(shadow.l89 = c.l89, Write("l89", c.l89))

(* pk_host_ccd_configure.  "fixed" stands for the indices whose values     *)
(* never change (FPGA 0x0B, 1..3, 0x0A; ADC 0 and 1).                      *)
ConfigurePlan(c) ==
  <<Write("off", c.off), Write("end", c.end), Write("int", c.int), Write("fixed", 1),
    Write("gain", c.gain), Write("offs", c.offs)>> \o Flag(c) \o <<Write("ctrl", Ctrl(c, FALSE))>>

(* pk_host_ccd_update                                                      *)
MayUpdate == {"ccd", "ctrl"} \subseteq known

UpdatePlan(c) ==
  LET want == Ctrl(c, shadow.ctrl.acq)
      Changed(r) == Unless(c[r] = shadow[r], Write(r, c[r]))
  IN  IF ~MayUpdate THEN ConfigurePlan(c)
      ELSE Unless(want = shadow.ctrl, Write("ctrl", want)) \o Changed("int") \o Changed("off")
             \o Changed("end") \o Flag(c) \o Changed("offs") \o Changed("gain")

(* scan.c's lamp_for_scan and measure.c's lamp_apply, which also sends the *)
(* duty when this calibration has sent none yet (`first`).                 *)
LampPlan(l, first) ==
  Unless(shadow.enable = l.enable, Write("enable", l.enable))
    \o Unless("levels" \in known /\ shadow.levels = l.levels, Write("levels", l.levels))
    \o Unless(~first /\ "duty" \in known /\ shadow.duty = l.duty, Write("duty", l.duty))

(* pks_warm_lamp's lamp-on resends all three.                              *)
WarmPlan(l) == <<Write("enable", l.enable), Write("levels", l.levels), Write("duty", l.duty)>>

(* pk_light_lamp_off_ex: the drive is zeroed before the enable, and a      *)
(* failure at either step ends the call.                                   *)
OffPlan == <<WriteAgain("duty"), WriteAgain("enable"), WriteAgain("fifo"), WriteAgain("confirm")>>

(* init_scanner, as far as it touches these registers                      *)
OpenPlan == <<Write("enable", 1), Write("duty", 0)>> \o OffPlan \o <<Write("l89", 0)>>

-----------------------------------------------------------------------------
BoardsInit ==
  /\ caller \in {"session", "tool"}
  /\ phase = IF caller = "session" THEN "closed" ELSE "open"
  /\ dev = PowerOn /\ shadow = NoShadows /\ known = {}
  /\ op = NoCall /\ res = Nothing
  /\ lit = FALSE /\ loaded = 0 /\ reload = FALSE /\ reported = FALSE

NoCallIn == op = NoCall

(* pkb_attempts: one in leave mode, but the confirming read always has     *)
(* ATTEMPTS.                                                               *)
Tries(step, leave) ==
  IF step.again /\ (~leave \/ step.reg = "confirm") THEN ATTEMPTS ELSE 1

Called(name, arg, plan, leave) ==
  [name |-> name, arg |-> arg, plan |-> plan, tries |-> Tries(Head(plan), leave), leave |-> leave]

(* A call that finds nothing to send is done at once.                      *)
Calls(name, arg, plan) ==
  /\ NoCallIn
  /\ IF plan = <<>> THEN /\ op' = NoCall /\ res' = [name |-> name, arg |-> arg]
                    ELSE /\ op' = Called(name, arg, plan, FALSE) /\ res' = Nothing
  /\ UNCHANGED <<caller, phase, dev, shadow, lamp>>

(* pk_host_ccd_configure and pk_host_ccd_update: the shadows are unknown   *)
(* until the whole sequence has gone out.                                  *)
CcdKnown(plan) == IF plan = <<>> THEN known ELSE known \ {"ccd"}

Configure(c) ==
  /\ phase = "open" /\ caller = "tool"
  /\ Calls("ccd", c, ConfigurePlan(c))
  /\ known' = CcdKnown(ConfigurePlan(c))

Update(c) ==
  /\ phase = "open"
  /\ Calls("ccd", c, UpdatePlan(c))
  /\ known' = CcdKnown(UpdatePlan(c))

(* pk_host_acquire: PK_E_BUSY while the control word is unknown.  A scan   *)
(* skips it when the FPGA acquires already.                                *)
Acquire(on) ==
  /\ "ctrl" \in known /\ phase \in {"open", "faulted"} /\ (on => phase = "open")
  /\ shadow.ctrl.acq # on
  /\ Calls("acquire", on, <<Write("ctrl", [shadow.ctrl EXCEPT !.acq = on])>>)
  /\ UNCHANGED known

SetLamp(l, first) == phase = "open" /\ Calls("lamp", l, LampPlan(l, first)) /\ UNCHANGED known
WarmLamp(l)       == phase = "open" /\ Calls("lamp", l, WarmPlan(l)) /\ UNCHANGED known

LampOff(leave) ==
  /\ NoCallIn /\ phase \in {"open", "faulted"}
  /\ op' = Called("off", {}, OffPlan, leave) /\ res' = Nothing
  /\ UNCHANGED <<caller, phase, dev, shadow, known, lamp>>

(* The boards are closed and the scanner is opened again, by this process  *)
(* or the next: new shadows, then init_scanner (a tool has none).          *)
OpenAgain ==
  /\ NoCallIn
  /\ shadow' = NoShadows /\ known' = {} /\ res' = Nothing
  /\ IF caller = "tool" THEN UNCHANGED <<phase, op>>
     ELSE phase' = "closed" /\ op' = Called("open", {}, OpenPlan, FALSE)
  /\ UNCHANGED <<caller, dev, lamp>>

-----------------------------------------------------------------------------
(* Sending                                                                 *)

Step  == Head(op.plan)
Later == Tail(op.plan)
Real(w) == w.reg \notin {"fifo", "confirm"}

Reaches(r) == r \in {"OK", "LOST"}

(* The call returns PK_OK: ccd_remember fills the window's shadows.        *)
Returns ==
  /\ op' = NoCall
  /\ res' = [name |-> op.name, arg |-> op.arg]
  /\ phase' = IF op.name = "open" THEN "open" ELSE phase

Remembered(s) ==
  IF Later = <<>> /\ op.name = "ccd" THEN [x \in DOMAIN s |-> IF x \in CCD THEN op.arg[x] ELSE s[x]] ELSE s

NowKnown(k) == IF Later = <<>> /\ op.name = "ccd" THEN k \union {"ccd"} ELSE k

GoesOn ==
  IF Later = <<>> THEN Returns
  ELSE op' = Called(op.name, op.arg, Later, op.leave) /\ UNCHANGED <<res, phase>>

(* A failed open puts the lamp out again, bounded (lamp_off_bounded).      *)
StepFails ==
  /\ res' = Nothing
  /\ op' = IF op.name = "open" THEN Called("bounded", {}, OffPlan, TRUE) ELSE NoCall
  /\ phase' = IF caller = "session" /\ phase = "open" THEN "faulted" ELSE phase

(* A failed write leaves what it was for unknown where the driver has a    *)
(* mark for that: the control word, the levels, the duty.                  *)
Marked == {"ctrl", "levels", "duty"}
Spoiled_Not(r) == known
Spoiled(r) == known \ {r}

Retries(final) ==
  IF op.tries > 1 /\ ~final THEN op' = [op EXCEPT !.tries = @ - 1] /\ UNCHANGED <<res, phase>>
  ELSE StepFails

SendWrite ==
  /\ ~NoCallIn /\ Real(Step)
  /\ \E r \in {"OK", "LOST", "FAIL"}, final \in BOOLEAN :
       /\ dev' = IF Reaches(r) THEN [dev EXCEPT ![Step.reg] = Step.val] ELSE dev
       /\ IF r = "OK"
          THEN /\ shadow' = Remembered(IF Step.reg \in CCD THEN shadow
                                       ELSE [shadow EXCEPT ![Step.reg] = Step.val])
               /\ known' = NowKnown(IF Step.reg \in Marked THEN known \union {Step.reg} ELSE known)
               /\ GoesOn
          ELSE /\ known' = Spoiled(Step.reg)
               /\ Retries(final)
               /\ UNCHANGED shadow
  /\ UNCHANGED <<caller, lamp>>

(* pk_host_fifo_reset: both commands are sent; the light board's asks its  *)
(* firmware to reload the PWM chip.                                        *)
FifoReset ==
  /\ ~NoCallIn /\ Step.reg = "fifo"
  /\ \E host, light \in {"OK", "LOST", "FAIL"}, final \in BOOLEAN :
       /\ reload' = (reload \/ Reaches(light))
       /\ IF host = "OK" /\ light = "OK" THEN GoesOn ELSE Retries(final)
  /\ UNCHANGED <<caller, dev, shadow, known, lit, loaded, reported>>

(* The read of register 0x83: bit 1 set is PK_E_DEVICE, and read again.  A *)
(* read that timed out in leave mode is final.                             *)
Confirm ==
  /\ ~NoCallIn /\ Step.reg = "confirm"
  /\ \E read, final \in BOOLEAN :
       IF read /\ ~reported THEN GoesOn ELSE Retries(~read /\ final)
  /\ UNCHANGED <<caller, dev, shadow, known, lamp>>

-----------------------------------------------------------------------------
(* The light board's firmware, as the comments of pk_light_lamp_off_ex     *)
(* report it: a pass of its main loop brings the status bit up to date,    *)
(* and may or may not act on a duty nobody asked it to reload; a lamp that *)
(* has a drive may stay lit without its enable.                            *)
Pass ==
  /\ reported' = (dev.enable # 0)
  /\ loaded' \in IF reload THEN {dev.duty} ELSE {loaded, dev.duty}
  /\ lit' \in IF loaded' = 0 THEN {FALSE} ELSE IF dev.enable # 0 THEN {TRUE} ELSE {lit, FALSE}
  /\ reload' = FALSE
  /\ UNCHANGED <<caller, phase, dev, shadow, known, op, res>>

BoardsNext ==
  \/ \E c \in CONFIGS : Configure(c) \/ Update(c)
  \/ \E on \in BOOLEAN : Acquire(on)
  \/ \E l \in LIGHTS : WarmLamp(l) \/ \E first \in BOOLEAN : SetLamp(l, first)
  \/ \E leave \in BOOLEAN : LampOff(leave)
  \/ OpenAgain \/ SendWrite \/ FifoReset \/ Confirm \/ Pass

BoardsSpec == BoardsInit /\ [][BoardsNext]_boardsVars

-----------------------------------------------------------------------------
(* What the driver believes it has sent is what the boards hold, whatever  *)
(* writes failed before and whether or not they took effect: this is what  *)
(* makes pk_host_ccd_update's and the lamp's change-only sends sound.      *)
ShadowsAreTrue ==
  /\ \A r \in Marked \intersect known : dev[r] = shadow[r]
  /\ "ccd" \in known => dev.fixed = 1 /\ \A r \in CCD : dev[r] = shadow[r]

CcdIs(c) ==
  /\ \A r \in CCD : dev[r] = c[r]
  /\ dev.fixed = 1 /\ dev.ctrl.binned = c.binned /\ dev.ctrl.ir = c.ir

(* A call that set the window or the lamp and returned PK_OK leaves the    *)
(* boards with exactly that setting, however little of it was sent.  The   *)
(* lamp's enable and the per-base flag 0x89 have no mark for "unknown"; in *)
(* a session they are right because a failed write faults it and the next  *)
(* open writes both.                                                       *)
OkMeansSet ==
  /\ res.name = "ccd" => CcdIs(res.arg) /\ (caller = "session" => dev.l89 = res.arg.l89)
  /\ res.name = "lamp" =>
       /\ dev.levels = res.arg.levels /\ dev.duty = res.arg.duty
       /\ caller = "session" => dev.enable = res.arg.enable

(* In a session the lamp never has a drive without its enable (with        *)
(* 0x80 = 0 alone it was seen to stay lit, and its firmware's own shut-off *)
(* no longer runs), and a lamp-off that returned PK_OK has a dark lamp, at *)
(* the latest after the firmware's next pass.                              *)
LampEndsDark ==
  /\ caller = "session" /\ dev.enable = 0 => dev.duty = 0
  /\ res.name = "off" => dev.duty = 0 /\ dev.enable = 0 /\ (reload \/ ~lit)

(* What the driver's books and its PK_OKs say of the two boards.           *)
BoardsAreAsTold == ShadowsAreTrue /\ OkMeansSet /\ LampEndsDark

(* pk_host_ccd_update's comment, "a failed write leaves the shadows        *)
(* unknown: the next update is a full configure": after the next PK_OK the *)
(* boards hold the whole configuration, the per-base light flag included.  *)
NextUpdateIsWhole == res.name = "ccd" => CcdIs(res.arg) /\ dev.l89 = res.arg.l89
=============================================================================
