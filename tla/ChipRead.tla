------------------------------- MODULE ChipRead -------------------------------
(***************************************************************************)
(* Who reads the calibration EEPROM, and when (core/cli/hw1.c              *)
(* hw1_eeprom_read with cli/pakon.c's unit functions; core/src/calib/      *)
(* eeprom.c).  The chip "is only ever read once" per scanner: the record   *)
(* of that is the unit's eeprom.log.  Three parties look at it: the        *)
(* command `hw1 eeprom-read`, which looks before it opens the scanner, the *)
(* application's read, and the identity check of a session, which reads    *)
(* only two serials and adopts the saved image of that unit.               *)
(*                                                                         *)
(* A chip is read as its true image, as one with a difference outside its  *)
(* identity ("odd") or as one without an intact copy ("broken").  The      *)
(* store's files are EepromStore's; here a unit's log exists or not and    *)
(* names a current image or not.                                           *)
(***************************************************************************)
EXTENDS Integers, FiniteSets, FiniteSetsExt

CONSTANTS
  SCANNERS,    \* one unit key each
  PLUS,        \* those that are an F-135 Plus, which USB does not tell from an F-135
  ERASED,      \* those whose copy A names nobody
  TOGETHER,    \* the command and the application may run at the same time
  STEPS        \* bound on commands, reads and changes of the scanner

UNIDENTIFIED == "unidentified"
NONE == "none"

ASSUME ChipAssumption ==
  /\ SCANNERS \intersect {UNIDENTIFIED, NONE} = {}
  /\ PLUS \subseteq SCANNERS /\ ERASED \subseteq SCANNERS /\ TOGETHER \in BOOLEAN /\ STEPS \in Nat

Keys == SCANNERS \union {UNIDENTIFIED}
Image(s, how) == [of |-> s, how |-> how]
Damaged == Image(NONE, "damaged")
Nothing == Image(NONE, "none")

VARIABLES
  attached, usb,     \* the scanner on the cable; who has it open
  log, current,      \* of each unit: its log exists; the image it names
  unitfile,          \* hw1-unit.txt
  cli, app,          \* the command and the application's read
  adopted,           \* what the last identity check adopted, or its verdict
  again, forced,     \* history: a stored chip was read unasked; an image was put under another's key
  stored,            \* history: the scanners of which a put has returned PK_OK
  steps

chipStore == <<log, current, unitfile>>
notes == <<again, forced, stored>>
chipVars == <<attached, usb, chipStore, cli, app, adopted, notes, steps>>

NotAsked == [is |-> NONE, image |-> Nothing, bad |-> 0]
IdleCli == [at |-> "idle", asked |-> FALSE, unit |-> NONE, had |-> FALSE, image |-> Nothing]
IdleApp == [at |-> "idle", reread |-> FALSE, unit |-> NONE, had |-> FALSE, image |-> Nothing]

-----------------------------------------------------------------------------
(* The unit functions                                                      *)

Prefix(k) == IF k \in PLUS THEN "plus" ELSE "f135"
Logged == {k \in Keys : log[k]}
Only(S) == IF Cardinality(S) = 1 THEN CHOOSE k \in S : TRUE ELSE NONE

(* cli_unit_remembered: --unit, else the file, else the one unit with a log *)
Remembered(asked) == IF asked # NONE THEN asked ELSE IF unitfile # NONE THEN unitfile ELSE Only(Logged)

(* pkcal_eeprom_identity: of the first intact copy                          *)
KeyOf(i) == IF i.how = "broken" THEN UNIDENTIFIED ELSE i.of

(* pk_eeprom_store_put: what may be left of the log, and of what it names  *)
BecomesCurrent(k, i, equal) ==
  i.how # "broken" /\ IF current[k] = Nothing THEN ~equal ELSE current[k] = i
Put(k, i, equal) ==
  /\ current[k] # Damaged
  /\ log' = [log EXCEPT ![k] = TRUE]
  /\ current' = IF BecomesCurrent(k, i, equal) THEN [current EXCEPT ![k] = i] ELSE current
  /\ stored' = stored \union {i.of}
  /\ adopted' = NotAsked
PutFails(k) ==
  /\ log' \in {log, [log EXCEPT ![k] = TRUE]}
  /\ UNCHANGED <<current, stored, adopted>>

FullRead(asked) ==
  /\ again' = (again \/ (attached \in stored /\ ~asked))
  /\ UNCHANGED <<stored, forced>>

-----------------------------------------------------------------------------
(* pakon hw1 eeprom-read                                                   *)
Alone(other) == TOGETHER \/ other.at = "idle"
Steps == steps < STEPS /\ steps' = steps + 1

ReadBefore_ByCurrent == \E k \in Keys : current[k] # Nothing
ReadBefore == Logged # {}

CliBegins ==
  /\ cli.at = "idle" /\ Alone(app) /\ Steps
  /\ \E confirm \in BOOLEAN, arg \in SCANNERS \union {NONE} :
       LET unit == Remembered(arg)
       IN  /\ ReadBefore = confirm
           /\ unit = NONE => ~confirm
           /\ unit # NONE => current[unit] # Damaged
           /\ cli' = [at |-> "open", asked |-> confirm, unit |-> unit,
                      had |-> unit # NONE /\ current[unit] # Nothing, image |-> Nothing]
  /\ UNCHANGED <<attached, usb, chipStore, app, adopted, notes>>

CliOpens ==
  /\ cli.at = "open" /\ usb = NONE
  /\ usb' = "cli" /\ cli' = [cli EXCEPT !.at = "read"]
  /\ UNCHANGED <<attached, chipStore, app, adopted, notes, steps>>

CliReads ==
  /\ cli.at = "read"
  /\ \E how \in {"true", "odd", "broken"} : cli' = [cli EXCEPT !.at = "put", !.image = Image(attached, how)]
  /\ FullRead(cli.asked)
  /\ UNCHANGED <<attached, usb, chipStore, app, adopted, steps>>

UseUnit == IF cli.unit # NONE THEN cli.unit ELSE KeyOf(cli.image)
CliPuts ==
  /\ cli.at = "put"
  /\ Put(UseUnit, cli.image, cli.had)
  /\ forced' = (forced \/ KeyOf(cli.image) # UseUnit)
  /\ IF cli.unit = NONE /\ BecomesCurrent(UseUnit, cli.image, cli.had)
     THEN cli' = [cli EXCEPT !.at = "remember"] /\ UNCHANGED usb
     ELSE cli' = IdleCli /\ usb' = NONE
  /\ UNCHANGED <<attached, unitfile, app, again, steps>>

(* write_unit_file                                                         *)
CliRemembers ==
  /\ cli.at = "remember"
  /\ unitfile' = UseUnit
  /\ cli' = IdleCli /\ usb' = NONE
  /\ UNCHANGED <<attached, log, current, app, adopted, notes, steps>>

(* Any step may fail or the process die: whatever it has open is closed.   *)
CliEnds ==
  /\ cli.at # "idle"
  /\ cli' = IdleCli /\ usb' = IF usb = "cli" THEN NONE ELSE usb
  /\ IF cli.at = "put" THEN PutFails(UseUnit) ELSE UNCHANGED <<log, current, stored, adopted>>
  /\ UNCHANGED <<attached, unitfile, app, again, forced, steps>>

-----------------------------------------------------------------------------
(* pk_eeprom_read and pk_eeprom_first_read: eeprom_read_impl.  The scanner *)
(* is open all along; first_read knows only its USB model.                 *)
AppUnit(arg, model) ==
  IF arg # NONE THEN arg ELSE Only({k \in Logged : Prefix(k) = model})

AppBegins ==
  /\ app.at = "idle" /\ usb = NONE /\ Alone(cli) /\ Steps
  /\ \E reread \in BOOLEAN, arg \in SCANNERS \union {NONE}, model \in {"f135", Prefix(attached)} :
       LET unit == AppUnit(arg, model)
           had == unit # NONE /\ current[unit] # Nothing
       IN  /\ arg = NONE => Cardinality(Logged) <= 1
           /\ unit # NONE => current[unit] # Damaged
           /\ had = reread                       \* else the saved image is the answer, or there is none to confirm
           /\ ~had => ~ReadBefore
           /\ app' = [at |-> "read", reread |-> reread, unit |-> unit, had |-> had, image |-> Nothing]
  /\ usb' = "app"
  /\ UNCHANGED <<attached, chipStore, cli, adopted, notes>>

AppReads ==
  /\ app.at = "read"
  /\ \E how \in {"true", "odd", "broken"} : app' = [app EXCEPT !.at = "put", !.image = Image(attached, how)]
  /\ FullRead(app.reread)
  /\ UNCHANGED <<attached, usb, chipStore, cli, adopted, steps>>

(* An image that does not parse or is another unit's is not stored.        *)
IsThisUnits(unit, i) == unit \in {NONE, i.of}
MayPut == app.image.how # "broken" /\ IsThisUnits(app.unit, app.image)
AppKey == IF app.unit = NONE THEN KeyOf(app.image) ELSE app.unit

AppPuts ==
  /\ app.at = "put" /\ MayPut
  /\ Put(AppKey, app.image, app.had)
  /\ app' = IdleApp /\ usb' = NONE
  /\ UNCHANGED <<attached, unitfile, cli, again, forced, steps>>

AppEnds ==
  /\ app.at # "idle"
  /\ app' = IdleApp /\ usb' = NONE
  /\ IF app.at = "put" /\ MayPut THEN PutFails(AppKey) ELSE UNCHANGED <<log, current, stored, adopted>>
  /\ UNCHANGED <<attached, unitfile, cli, again, forced, steps>>

-----------------------------------------------------------------------------
(* pk_eeprom_identify: two pairs of serials at most.  A read of a copy     *)
(* gives its serial or, seldom, one of nobody; `bad` reads did.            *)
Truth(copy) == IF copy = 1 /\ attached \in ERASED THEN NONE ELSE attached
Serials(bad) == {p \in [1..2 -> [1..2 -> {attached, NONE}]] :
                   /\ \A i, c \in 1..2 : p[i][c] \in {Truth(c), NONE}
                   /\ Cardinality({x \in (1..2) \X (1..2) : p[x[1]][x[2]] # Truth(x[2])}) = bad}

Hits(pair) == {pair[c] : c \in {d \in 1..2 : pair[d] # NONE /\ current[pair[d]] # Nothing}}
PASSES == 2

Verdict(p) ==
  LET hit == {i \in 1..PASSES : Hits(p[i]) # {}}
      k == CHOOSE x \in Hits(p[Min(hit)]) : TRUE
  IN  IF hit = {} THEN [is |-> "foreign", image |-> Nothing]
      ELSE IF Min(hit) = 2 \/ current[k] = Damaged THEN [is |-> "corrupt", image |-> Nothing]
      ELSE [is |-> "adopted", image |-> current[k]]

Identify ==
  /\ usb = NONE /\ app.at = "idle" /\ Logged # {}
  /\ \E bad \in 0..2 : \E p \in Serials(bad) :
       LET v == Verdict(p) IN adopted' = [is |-> v.is, image |-> v.image, bad |-> bad]
  /\ UNCHANGED <<attached, usb, chipStore, cli, app, notes, steps>>

Attach ==
  /\ usb = NONE /\ Steps
  /\ attached' \in SCANNERS \ {attached} /\ adopted' = NotAsked
  /\ UNCHANGED <<usb, chipStore, cli, app, notes>>

ImageIsDamaged ==
  /\ Steps
  /\ \E k \in Keys : current[k] # Nothing /\ current' = [current EXCEPT ![k] = Damaged]
  /\ adopted' = NotAsked
  /\ UNCHANGED <<attached, usb, log, unitfile, cli, app, notes>>

ChipInit ==
  /\ attached \in SCANNERS /\ usb = NONE
  /\ log = [k \in Keys |-> FALSE] /\ current = [k \in Keys |-> Nothing] /\ unitfile = NONE
  /\ cli = IdleCli /\ app = IdleApp /\ adopted = NotAsked
  /\ again = FALSE /\ forced = FALSE /\ stored = {} /\ steps = 0

ChipNext ==
  \/ CliBegins \/ CliOpens \/ CliReads \/ CliPuts \/ CliRemembers \/ CliEnds
  \/ AppBegins \/ AppReads \/ AppPuts \/ AppEnds
  \/ Identify \/ Attach \/ ImageIsDamaged

ChipSpec == ChipInit /\ [][ChipNext]_chipVars
-----------------------------------------------------------------------------
(* A chip of which an image has been saved is not read in full again       *)
(* unless the caller asked for that: "it is only ever read once"           *)
(* (hw1.c:121), also after failures, after a crash at any step, and when   *)
(* the image had no intact copy and so is nobody's current one.            *)
ReadOnce == ~again

(* The image a session adopts by the two serials is the attached scanner's *)
(* own.  Only `hw1 eeprom-read` stores a chip under another unit's key,    *)
(* with a warning, when --unit or the saved key says so.                   *)
OwnImage == adopted.is = "adopted" /\ ~forced => adopted.image.of = attached

(* One bad serial read does not make a scanner with a saved image a        *)
(* stranger, even when only one copy on the chip is intact.                *)
SavedIsNotForeign ==
  adopted.is = "foreign" /\ adopted.bad <= 1 => current[attached] = Nothing

(* What the two readers and the log make of the chips.                     *)
ImagesAreSafe == ReadOnce /\ OwnImage /\ SavedIsNotForeign
=============================================================================
