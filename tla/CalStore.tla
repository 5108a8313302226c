-------------------------------- MODULE CalStore --------------------------------
(***************************************************************************)
(* The calibration store of src/core/src/calib/store.c for one scanner     *)
(* unit: entries installed by rename, the append-only logs that select,    *)
(* hide and allow them, and what resolve picks.  Two processes may use the *)
(* store at once; any call may fail, and the power may go at any step.     *)
(***************************************************************************)
EXTENDS AppendLog, FiniteSets, TLC

CONSTANTS
    Cals,        \* calibrations, and of each:
    Imported(_), \*   its kind is an imported one
    Elsewhere(_),\*   it was measured on another scanner (whose unit may have this name)
    Utc(_),      \*   its place in the order of (utc, id), which no two share (cmp_entry_desc)
    Base(_), Ir(_),
    Keys,        \* selection scopes: [base, ir]; base 0 is PK_SCOPE_ALL
    Nameless,    \* the unit's name ends in "-unidentified"
    AutoPin, None,  \* the pin "auto", and no value
    Procs,       \* processes
    MaxCalls,    \* bound: calls begun
    MaxLosses    \* bound: power losses

ASSUME CalStoreAssumption ==
    /\ IsFiniteSet(Cals)
    /\ \A c \in Cals : Imported(c) \in BOOLEAN /\ Elsewhere(c) \in BOOLEAN /\ Utc(c) \in Nat
    /\ \A c, d \in Cals : Utc(c) = Utc(d) => c = d
    /\ Nameless \in BOOLEAN /\ MaxCalls \in Nat /\ MaxLosses \in Nat

Files == {"data", "MANIFEST"}     \* calibration.json and the tables; written last
LogNames == {"local", "hidden", "selection"}

VARIABLES
    entry,       \* entry[c]: [seen, hard, files, sure], c's directory under its final name
    log,         \* log[l]: the three logs
    rooted,      \* the unit's directory has a name in units/ that no power loss takes
    named,       \* the logs that have one in the unit's directory
    local,       \* "this", "other" or None: pk_calstore_set_local_unit
    pc,          \* pc[p]: where process p's call is
    call,        \* call[p]: the call, as begun
    tmp,         \* tmp[p]: [files, sure], p's half-written directory
    calls, losses,
    measured,    \* history: the calibrations put here as measured here
    kept,        \* history: those whose install returned PK_OK
    maybe        \* history: maybe[k], what the selection of k may be

names == <<rooted, named>>
storeVars == <<entry, log, names, local, pc, call, tmp, calls, losses, measured, kept, maybe>>

NoCall == [op |-> None]
NoEntry == [seen |-> FALSE, hard |-> FALSE, files |-> {}, sure |-> {}]
NoTmp == [files |-> {}, sure |-> {}]

StoreInit ==
    /\ entry = [c \in Cals |-> NoEntry]
    /\ log = [l \in LogNames |-> EmptyLog] /\ rooted = FALSE /\ named = {}
    /\ local \in {"this", "other", None}
    /\ pc = [p \in Procs |-> "idle"] /\ call = [p \in Procs |-> NoCall]
    /\ tmp = [p \in Procs |-> NoTmp]
    /\ calls = 0 /\ losses = 0
    /\ measured = {} /\ kept = {} /\ maybe = [k \in Keys |-> {AutoPin}]

-----------------------------------------------------------------------------
(* Reading. *)

ReadEntry(c) == entry[c].seen /\ entry[c].files = Files

(* pkcal_check_files: every file the MANIFEST names is there and is the one *)
(* it was made of, and they make up a calibration.                         *)
IsCalibration(files) == files = Files

Listed == {c \in Cals : ReadEntry(c)}

Foreign(c) == IF local = None THEN Imported(c) ELSE local = "other"

Hidden(c) == LastSaid(log["hidden"], c, FALSE)

InLocalLog(c) == InForce(log["local"], c) # {}

SelectionIn(l, k) == LastSaid(l, k, AutoPin)
Selection(k) == SelectionIn(log["selection"], k)

(* What it is after a power loss that leaves the log with n lines, n <= Len. *)
SelectionOf(l, n, k) == SelectionIn([l EXCEPT !.lines = SubSeq(@, 1, n)], k)

Fits(c, k) == Ir(c) = k.ir /\ (k.base # 0 => Base(c) = k.base)

PinOk(c) == c \in Listed /\ ~Foreign(c)

(* Native before imported, then newest first. *)
Before(c, d) == \/ Imported(c) = Imported(d) /\ Utc(c) > Utc(d)
                \/ ~Imported(c) /\ Imported(d)

Eligible(k) == {c \in Listed : /\ ~Hidden(c) /\ Fits(c, k) /\ ~Foreign(c)
                               /\ Nameless => InLocalLog(c)}

AutoPick(k) == IF Eligible(k) = {} THEN None
               ELSE CHOOSE c \in Eligible(k) : \A d \in Eligible(k) \ {c} : Before(c, d)

AllKey(k) == [k EXCEPT !.base = 0]

(* pk_calstore_resolve_ir: the entry, or None for every error. *)
Resolve(k) ==
    LET own == Selection(k)
        all == Selection(AllKey(k))
    IN CASE own # AutoPin -> IF PinOk(own) THEN own ELSE None
         [] own = AutoPin /\ k.base # 0 /\ all # AutoPin /\ PinOk(all) /\ Fits(all, k) -> all
         [] OTHER -> AutoPick(k)

-----------------------------------------------------------------------------
(* Calls. *)

At(p, l) == pc[p] = l
Goto(p, l) == pc' = [pc EXCEPT ![p] = l]

Begin(p, what) ==
    /\ At(p, "idle") /\ calls < MaxCalls
    /\ calls' = calls + 1 /\ call' = [call EXCEPT ![p] = what]
    /\ UNCHANGED <<entry, log, names, local, tmp, losses, kept>>

(* Every return, with the call's last effects. *)
Return(p) == Goto(p, "idle") /\ call' = [call EXCEPT ![p] = NoCall]

(* No other process is appending to the log: store.c has no lock for it.    *)
LogFree(l) == \A q \in Procs : ~(pc[q] \in {"append", "logsync"} /\ call[q].log = l)

(* locate, then the target's lstat: only two clean "not there" count as new. *)
LooksNew(c) == ~ReadEntry(c) /\ ~entry[c].seen

(* put_impl.  A local put of a new entry in a nameless unit writes its line  *)
(* ahead; one that may be stored already never joins local.log.             *)
JoinsLocalLog_StoredToo(c, isLocal, new) == isLocal /\ Nameless   \* a bug
JoinsLocalLog(c, isLocal, new) == isLocal /\ new /\ Nameless

Put(p, c, isLocal) ==
    \E new \in {LooksNew(c), FALSE} :     \* FALSE: locate or lstat failed
        /\ JoinsLocalLog(c, isLocal, new) => LogFree("local")
        /\ Begin(p, [op |-> "put", cal |-> c, log |-> "local", text |-> <<c>>])
        /\ measured' = IF isLocal /\ LooksNew(c) THEN measured \union {c} ELSE measured
        /\ Goto(p, IF JoinsLocalLog(c, isLocal, new) THEN "append" ELSE "unit")
        /\ UNCHANGED maybe

(* A session measures native entries only; what is stored and whole may be  *)
(* read back and put again (pk_calstore_get, pk_calstore_put); imports come *)
(* from .pakoncal files of either kind and from PSI exports.                *)
LocalPut(p) == \E c \in Cals :
    /\ (~Imported(c) /\ ~Elsewhere(c)) \/ (entry[c].seen /\ IsCalibration(entry[c].files))
    /\ Put(p, c, TRUE)
Import(p) == \E c \in Cals : Put(p, c, FALSE)

Hide(p) == \E c \in Listed, h \in BOOLEAN :
    /\ LogFree("hidden")
    /\ Begin(p, [op |-> "hide", log |-> "hidden", text |-> <<c, h>>])
    /\ Goto(p, "append") /\ UNCHANGED <<measured, maybe>>

MaySelect(c, k) == c = AutoPin \/ (PinOk(c) /\ Fits(c, k))

Select(p) == \E k \in Keys, c \in Cals \union {AutoPin} :
    /\ MaySelect(c, k) /\ LogFree("selection")
    /\ Begin(p, [op |-> "select", log |-> "selection", text |-> <<k, c>>])
    /\ maybe' = [maybe EXCEPT ![k] = maybe[k] \union {c}]
    /\ Goto(p, "append") /\ UNCHANGED measured

SetLocalUnit == \E u \in {"this", "other", None} :
    /\ calls < MaxCalls /\ calls' = calls + 1 /\ local' = u /\ u # local
    /\ UNCHANGED <<entry, log, names, pc, call, tmp, losses, measured, kept, maybe>>

-----------------------------------------------------------------------------
(* append_line. *)

AppendWrites(p) ==
    LET l == call[p].log IN
    /\ At(p, "append")
    /\ log' = [log EXCEPT ![l] = Added(Mended(@, MarkedBad), call[p].text, "nl")]
    /\ Goto(p, "logsync")
    /\ UNCHANGED <<entry, names, local, call, tmp, calls, losses, measured, kept, maybe>>

(* What the selection may be once a select has failed: as the log reads now, *)
(* or as it reads if some of the unsynced part is lost.                     *)
Unsure(p) ==
    LET k == call[p].text[1]
        l == log'["selection"]
    IN IF call[p].op # "select" THEN maybe
       ELSE [maybe EXCEPT ![k] = {SelectionOf(l, i, k) : i \in l.hard .. Len(l.lines)}]

AppendFails(p) ==
    LET l == call[p].log IN
    /\ At(p, "append")
    /\ \E torn \in Spoiled(log[l], call[p].text, MarkedBad) : log' = [log EXCEPT ![l] = torn]
    /\ maybe' = Unsure(p) /\ Return(p)
    /\ UNCHANGED <<entry, names, local, tmp, calls, losses, measured, kept>>

(* fsync_dir of the unit's directory: the logs that are in it stay there.   *)
NamesLogs == named' = named \union {l \in LogNames : log[l].lines # <<>>}

(* append_line syncs the file; only a put then syncs the directory it may   *)
(* have made the file in (store.c:519-521), neither select nor hide does.   *)
AppendSyncs(p) ==
    LET l == call[p].log IN
    /\ At(p, "logsync")
    /\ log' = [log EXCEPT ![l] = Synced(@)]
    /\ IF call[p].op = "put" THEN NamesLogs /\ Goto(p, "unit") /\ UNCHANGED <<call, maybe>>
       ELSE /\ Return(p) /\ UNCHANGED named
            /\ maybe' = IF call[p].op = "select"
                        THEN [maybe EXCEPT ![call[p].text[1]] = {call[p].text[2]}] ELSE maybe
    /\ UNCHANGED <<entry, rooted, local, tmp, calls, losses, measured, kept>>

SyncFails(p) ==
    /\ At(p, "logsync") /\ Return(p) /\ log' = log /\ maybe' = Unsure(p)
    /\ UNCHANGED <<entry, names, local, tmp, calls, losses, measured, kept>>

-----------------------------------------------------------------------------
(* install. *)

Step(p) == UNCHANGED <<log, local, calls, losses, measured, maybe>>

(* Directories and unit.json, then: is the entry there already?  The sync   *)
(* of the unit's directory after a new unit.json (store.c:441) is left out: *)
(* it could only make sure sooner what SyncParents makes sure.              *)
Prepare(p) ==
    /\ At(p, "unit") /\ Step(p)
    /\ IF entry[call[p].cal].seen THEN Return(p)       \* PK_OK, or PK_E_CORRUPT if it is not this one
       ELSE Goto(p, "files") /\ UNCHANGED call
    /\ UNCHANGED <<entry, names, tmp, kept>>

(* The MANIFEST comes last. *)
NextFile(written) == IF written = {} THEN "data" ELSE "MANIFEST"

WriteFile(p) ==
    /\ At(p, "files") /\ Step(p)
    /\ tmp' = [tmp EXCEPT ![p].files = @ \union {NextFile(@)}]
    /\ Goto(p, IF tmp'[p].files = Files THEN "syncdir" ELSE "files")
    /\ UNCHANGED <<entry, names, call, kept>>

SyncDir_Forgotten(p) ==                            \* a bug
    /\ At(p, "syncdir") /\ Step(p) /\ UNCHANGED tmp
    /\ Goto(p, "rename") /\ UNCHANGED <<entry, names, call, kept>>
SyncDir(p) ==
    /\ At(p, "syncdir") /\ Step(p)
    /\ tmp' = [tmp EXCEPT ![p].sure = tmp[p].files]
    /\ Goto(p, "rename") /\ UNCHANGED <<entry, names, call, kept>>

(* rename; a target that is there already lost us the race.                 *)
Rename(p) ==
    LET c == call[p].cal IN
    /\ At(p, "rename") /\ Step(p)
    /\ entry' = IF entry[c].seen THEN entry
                ELSE [entry EXCEPT ![c] = [seen |-> TRUE, hard |-> FALSE,
                                           files |-> tmp[p].files, sure |-> tmp[p].sure]]
    /\ tmp' = [tmp EXCEPT ![p] = NoTmp]                \* moved, or rm_tmp
    /\ Goto(p, "parents") /\ UNCHANGED <<names, call, kept>>

(* calibration/, the unit's directory and units/ are synced, then PK_OK.    *)
SyncParents(p) ==
    /\ At(p, "parents") /\ Step(p)
    /\ NamesLogs /\ rooted' = TRUE
    /\ entry' = [c \in Cals |-> [entry[c] EXCEPT !.hard = entry[c].seen]]
    /\ kept' = kept \union {call[p].cal}
    /\ Return(p) /\ UNCHANGED tmp

(* Any of these fails: rm_tmp removes what this put wrote. *)
InstallFails(p) ==
    /\ pc[p] \in {"unit", "files", "syncdir", "rename", "parents"} /\ Step(p)
    /\ tmp' = [tmp EXCEPT ![p] = NoTmp]
    /\ Return(p) /\ UNCHANGED <<entry, names, kept>>

-----------------------------------------------------------------------------
(* Power loss: every process dies, and what was not synced may be gone.     *)

EntryAfterLoss(e) ==
    IF ~e.seen THEN {NoEntry}
    ELSE (IF e.hard THEN {} ELSE {NoEntry}) \union
         {[seen |-> TRUE, hard |-> TRUE, files |-> f, sure |-> f]
          : f \in {g \in SUBSET e.files : e.sure \subseteq g}}

(* A log whose name was never synced may go whole, all its lines with it.   *)
LogAfterLoss(l) == AfterLoss(log[l]) \union (IF l \in named THEN {} ELSE {EmptyLog})

UnitGoes ==
    /\ ~rooted /\ rooted' = FALSE /\ named' = {}
    /\ entry' = [c \in Cals |-> NoEntry] /\ log' = [l \in LogNames |-> EmptyLog]

UnitStays ==
    /\ entry' \in {e \in [Cals -> UNION {EntryAfterLoss(entry[c]) : c \in Cals}] :
                    \A c \in Cals : e[c] \in EntryAfterLoss(entry[c])}
    /\ log' \in {g \in [LogNames -> UNION {LogAfterLoss(l) : l \in LogNames}] :
                  \A l \in LogNames : g[l] \in LogAfterLoss(l)}
    /\ named' = named \union {l \in LogNames : log'[l].lines # <<>>}
    /\ rooted' = (rooted \/ named' # {} \/ \E c \in Cals : entry'[c].seen)

(* What the selection may be when the power goes: "auto" too, if the log's  *)
(* own name was not yet sure.                                               *)
MayBeLeft(k) ==
    maybe[k] \union (IF rooted /\ "selection" \in named THEN {} ELSE {AutoPin})

PowerLoss ==
    /\ losses < MaxLosses /\ losses' = losses + 1
    /\ UnitGoes \/ UnitStays
    /\ pc' = [p \in Procs |-> "idle"] /\ call' = [p \in Procs |-> NoCall]
    /\ tmp' = [p \in Procs |-> NoTmp]      \* left behind as *.tmp.<pid>, which no reader takes
    /\ local' = None
    /\ maybe' = [k \in Keys |-> IF Selection(k)' \in MayBeLeft(k) THEN {Selection(k)'} ELSE maybe[k]]
    /\ UNCHANGED <<calls, measured, kept>>

StoreNext ==
    \/ \E p \in Procs : \/ LocalPut(p) \/ Import(p) \/ Hide(p) \/ Select(p)
                        \/ AppendWrites(p) \/ AppendFails(p) \/ AppendSyncs(p) \/ SyncFails(p)
                        \/ Prepare(p) \/ WriteFile(p) \/ SyncDir(p) \/ Rename(p)
                        \/ SyncParents(p) \/ InstallFails(p)
    \/ SetLocalUnit \/ PowerLoss

StoreSpec == StoreInit /\ [][StoreNext]_storeVars

-----------------------------------------------------------------------------
(* Whatever fails and whenever the power goes, a directory under an entry's *)
(* final name has all of its files, and one whose install returned PK_OK    *)
(* (store.c:477-482) is never lost.                                         *)
EntriesAreWhole ==
    /\ \A c \in Cals : entry[c].seen => entry[c].files = Files
    /\ \A c \in kept : entry[c].seen

(* What pk_calstore_selection reads is the last selection that succeeded,   *)
(* or one made since whose outcome is open; once a process has read it      *)
(* after a failure or a restart it stays: a torn line never comes into      *)
(* force later, when another append ends it (store.c:135).  Only a power    *)
(* loss before some put has synced the directory that selection.log was     *)
(* made in may take the log whole; every scope is "auto" then, and stays it. *)
SelectionIsAsked == \A k \in Keys : Selection(k) \in maybe[k]

(* An entry that resolve returns is stored and not foreign and fits what    *)
(* was asked, although a scope's own pin was checked only when it was made; *)
(* if nobody pinned it, it is not hidden, no other entry should have come   *)
(* first, and in a unit that shares its name it was measured here: no       *)
(* import gets on the allowlist by being read back and put again, nor by    *)
(* being imported while a put of it is under way (store.c:506-515).         *)
ResolveIsSound == \A k \in Keys : LET c == Resolve(k) IN c # None =>
    /\ ReadEntry(c) /\ Fits(c, k) /\ ~Foreign(c)
    /\ c \notin {Selection(k), Selection(AllKey(k))} =>
        /\ ~Hidden(c)
        /\ Nameless => c \in measured
        /\ \A d \in Listed : Before(d, c) =>
              Hidden(d) \/ ~Fits(d, k) \/ (Nameless /\ ~InLocalLog(d))

(* Not true: a selection that returned PK_OK outlives a power loss.  select *)
(* never syncs the directory it makes selection.log in (store.c:590-600).   *)
SelectionOutlivesLoss ==
    [][PowerLoss => \A k \in Keys : Selection(k)' \in maybe[k]]_storeVars

(* Which calibration is used is the user's and the store's rules' choice.   *)
SelectionIsSound == SelectionIsAsked /\ ResolveIsSound
=============================================================================
