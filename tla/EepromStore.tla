------------------------------ MODULE EepromStore ------------------------------
(***************************************************************************)
(* The store of calibration-EEPROM images of src/core/src/device/          *)
(* eeprom_store.c for one unit: each image under the name of its hash, and *)
(* a log that names the current one.  Any step may fail, and the power may *)
(* go at any step.                                                         *)
(***************************************************************************)
EXTENDS AppendLog, TLC

CONSTANTS
    Images,        \* the images the device may read as
    HasCalWiz(_),  \* the image has an intact CalWiz copy
    DirSyncFails,  \* the directory's fsync may fail, which the code ignores
    MaxPuts, MaxEepromLosses     \* bounds

VARIABLES
    image,         \* image[i]: [seen, hard], the file of that image
    elog,          \* eeprom.log, of <<tag, image>>
    enames,        \* what no power loss takes by its name: of "dir" (the eeprom
                   \* directory, up to units/) and "log" (eeprom.log in it)
    epc,           \* where the put is
    put,           \* its image, require_equal and what it decided
    puts, elosses,
    told           \* history: the images a put has reported as current, since
                   \* a power loss last took the log

eepromVars == <<image, elog, enames, epc, put, puts, elosses, told>>

NoImage == "no image"
ASSUME EepromAssumption == NoImage \notin Images /\ DirSyncFails \in BOOLEAN

NoPut == [of |-> NoImage, equal |-> FALSE, current |-> FALSE]

EepromInit ==
    /\ image = [i \in Images |-> [seen |-> FALSE, hard |-> FALSE]]
    /\ elog = EmptyLog /\ enames = {} /\ epc = "idle" /\ put = NoPut
    /\ puts = 0 /\ elosses = 0 /\ told = {}

(* log_current: the last complete line that says "current". *)
Current == LastSaid(elog, "current", NoImage)

Finish == epc' = "idle" /\ put' = NoPut

PutBegins ==
    /\ epc = "idle" /\ puts < MaxPuts /\ puts' = puts + 1
    /\ \E i \in Images, eq \in BOOLEAN : put' = [of |-> i, equal |-> eq, current |-> FALSE]
    /\ epc' = "file" /\ UNCHANGED <<image, elog, enames, elosses, told>>

(* The file, unless it is there: written whole and renamed into place.      *)
StoreFile ==
    /\ epc = "file" /\ epc' = "decide"
    /\ image' = [image EXCEPT ![put.of].seen = TRUE]
    /\ UNCHANGED <<elog, enames, put, puts, elosses, told>>

(* Whenever there is a current image, every put is a re-read of it; the     *)
(* first read becomes current unless the caller wants an equal one.         *)
MayBeCurrent_UnlessAsked(i, equal) == HasCalWiz(i) /\ (equal => Current = i)  \* a bug
MayBeCurrent(i, equal) ==
    HasCalWiz(i) /\ IF Current = NoImage THEN ~equal ELSE Current = i

Decide ==
    /\ epc = "decide" /\ epc' = "dirsync"
    /\ put' = [put EXCEPT !.current = MayBeCurrent(put.of, put.equal)]
    /\ UNCHANGED <<image, elog, enames, puts, elosses, told>>

(* The directory is synced before a line names the image, and so before the *)
(* first put's open makes the log in it; nothing syncs it afterwards.       *)
SyncsImages(i) == [i EXCEPT !.hard = i.seen]

DirSync ==
    /\ epc = "dirsync" /\ epc' = "append"
    /\ \/ /\ image' = [i \in Images |-> SyncsImages(image[i])]
          /\ enames' = IF elog.lines = <<>> THEN enames ELSE enames \union {"log"}
       \/ DirSyncFails /\ UNCHANGED <<image, enames>>
    /\ UNCHANGED <<elog, put, puts, elosses, told>>

Saying == <<IF put.current THEN "current" ELSE "stored", put.of>>

LogWrites ==
    /\ epc = "append" /\ epc' = "logsync"
    /\ elog' = Added(Mended(elog, JustEnded), Saying, "nl")
    /\ UNCHANGED <<image, enames, put, puts, elosses, told>>

LogSyncs ==
    /\ epc = "logsync" /\ Finish /\ elog' = Synced(elog)
    /\ told' = IF put.current THEN told \union {put.of} ELSE told
    /\ UNCHANGED <<image, enames, puts, elosses>>

PutFails ==
    /\ epc # "idle" /\ Finish
    /\ elog' \in IF epc = "append" THEN Spoiled(elog, Saying, JustEnded) ELSE {elog}
    /\ UNCHANGED <<image, enames, puts, elosses, told>>

(* No put syncs the directories above its own; what does is the calibration *)
(* store, when it installs an entry of the same unit (store.c:479-480).     *)
InstallSyncs ==
    /\ "dir" \notin enames /\ \E i \in Images : image[i].seen
    /\ enames' = enames \union {"dir"}
    /\ UNCHANGED <<image, elog, epc, put, puts, elosses, told>>

DirGoes ==
    /\ "dir" \notin enames /\ enames' = {}
    /\ image' = [i \in Images |-> [seen |-> FALSE, hard |-> FALSE]] /\ elog' = EmptyLog

DirStays ==
    /\ image' \in {f \in [Images -> [seen : BOOLEAN, hard : BOOLEAN]] :
                    \A i \in Images : /\ image[i].hard => f[i].seen
                                      /\ f[i].seen => image[i].seen
                                      /\ f[i].hard = f[i].seen}
    /\ elog' \in AfterLoss(elog) \union (IF "log" \in enames THEN {} ELSE {EmptyLog})
    /\ enames' = enames \union (IF elog'.lines = <<>> THEN {} ELSE {"dir", "log"})
                        \union (IF \E i \in Images : image'[i].seen THEN {"dir"} ELSE {})

(* A log whose own name is not sure may go whole, and with it what it said. *)
EepromLoss ==
    /\ elosses < MaxEepromLosses /\ elosses' = elosses + 1
    /\ DirGoes \/ DirStays
    /\ told' = IF {"dir", "log"} \subseteq enames \/ elog'.lines # <<>> THEN told ELSE {}
    /\ Finish /\ UNCHANGED puts

EepromNext == \/ PutBegins \/ StoreFile \/ Decide \/ DirSync \/ LogWrites
              \/ LogSyncs \/ PutFails \/ InstallSyncs \/ EepromLoss

EepromSpec == EepromInit /\ [][EepromNext]_eepromVars

(* The first image read stays the unit's: what a put has reported as        *)
(* current is current from then on, also if lines were torn before or after *)
(* it, until a power loss takes the whole log; none can once a later put    *)
(* has synced the log's directory and an install those above it;            *)
(* and the current image is always in the store (eeprom_store.c:134-144).   *)
CurrentIsFirst ==
    /\ told # {} => told = {Current}
    /\ Current # NoImage => image[Current].seen

(* Not true: an image that a put has reported as current outlives a power   *)
(* loss.  The first put syncs the directory before it makes the log in it.  *)
FirstOutlivesLoss == [][EepromLoss /\ told # {} => Current' = Current]_eepromVars
=============================================================================
