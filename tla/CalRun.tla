------------------------------ MODULE CalRun -------------------------------
(***************************************************************************)
(* When a session calibrates and what it then remembers (session/cal.c,    *)
(* calib/policy.c, the record fields of calib/measure.c).                  *)
(*                                                                         *)
(* The configurations (base and plane) share one unit.  A record of the    *)
(* store is                                                                *)
(*   cfg, at, full   its configuration, time and whether it was a full     *)
(*                   light search (job->full)                              *)
(*   fullUtc         "full_utc": the full search it carries forward        *)
(*   lineage         "ir_lineage"                                          *)
(*   from            ghost: the record its light started from, 0 the seeds *)
(* The order and pinning rules of the store itself are CalStore's; here a  *)
(* configuration has a selected record or uses its newest one.             *)
(***************************************************************************)
EXTENDS Integers, Sequences

CONSTANTS
    CFG,             \* configurations: base 16, base 8, ...
    HOURS,           \* the time the model runs for
    DARK_AFTER,      \* dark_point_interval_min
    FULL_AFTER,      \* full_search_after_h
    MAX_RECORDS

ASSUME CalAssumption ==
    CFG # {} /\ DARK_AFTER \in Nat /\ {HOURS, FULL_AFTER, MAX_RECORDS} \subseteq Nat \ {0}

VARIABLES
    hour,            \* the wall clock
    ir,              \* the configurations are IR ones
    auto,            \* policy.auto_at_power_on
    records,         \* the store
    selected,        \* [CFG -> record or 0]: pk_calstore_select
    clock,           \* [CFG -> [run, full, looked]]: the session's memory
    cal              \* the scan or pk_calibrate that runs
calVars == <<hour, ir, auto, records, selected, clock, cal>>

Ids(c) == {k \in DOMAIN records : records[k].cfg = c}

\* pk_calstore_resolve_ir: the selected record, else the newest one, else none.
NewestOf(c) ==
    IF selected[c] # 0 THEN selected[c]
    ELSE IF Ids(c) = {} THEN 0 ELSE CHOOSE k \in Ids(c) : \A l \in Ids(c) : l <= k

\* newest_light: an IR record without lineage is not used.
Usable(c) == NewestOf(c) # 0 /\ (ir => records[NewestOf(c)].lineage)

StoredLastFull(c) == IF NewestOf(c) = 0 THEN 0 ELSE records[NewestOf(c)].fullUtc

Unknown == [run |-> 0, full |-> 0, looked |-> FALSE]
Idle == [at |-> "idle", kind |-> "none", cfg |-> 0, todo |-> {}, pinned |-> FALSE, from |-> 0, parent |-> 0,
         full |-> FALSE, checked |-> 0, kept |-> <<>>]

\* full_looked_up: the time a session takes from the store once.
LookedUp(c) == IF clock[c].looked THEN clock[c] ELSE [clock[c] EXCEPT !.full = StoredLastFull(c), !.looked = TRUE]

\* pk_calibration_due.
FullLate(full) == full = 0 \/ hour - full > FULL_AFTER
Due(run, full) ==
    IF run = 0 THEN IF auto THEN [due |-> TRUE, full |-> FullLate(full)]
                    ELSE [due |-> full = 0, full |-> full = 0]
    ELSE IF FullLate(full) THEN [due |-> TRUE, full |-> TRUE]
    ELSE [due |-> hour - run > DARK_AFTER, full |-> FALSE]

AsImported(c) == [cfg |-> c, at |-> hour, full |-> FALSE, fullUtc |-> 0, lineage |-> FALSE, from |-> 0, pinned |-> FALSE]

\* A store may hold a full search from before "ir_lineage" was recorded.
CalInit ==
    /\ hour = 1 /\ ir \in BOOLEAN /\ auto \in BOOLEAN
    /\ \E old \in {0} \cup CFG :
           records = IF old = 0 THEN <<>> ELSE <<[AsImported(old) EXCEPT !.full = TRUE, !.fullUtc = 1]>>
    /\ selected = [c \in CFG |-> 0]
    /\ clock = [c \in CFG |-> Unknown]
    /\ cal = Idle
-----------------------------------------------------------------------------
(* A scan: pks_cal_resolve, then pks_cal_scan_due on the worker.           *)

ResolveScan(c) ==
    /\ cal.at = "idle"
    /\ \E pin \in {0} \cup Ids(c) :
           LET id == IF pin # 0 THEN pin ELSE IF Usable(c) THEN NewestOf(c) ELSE 0
           IN  cal' = [Idle EXCEPT !.at = "resolved", !.kind = "scan", !.cfg = c, !.pinned = pin # 0,
                                   !.from = id, !.parent = id]
    /\ UNCHANGED <<hour, ir, auto, records, selected, clock>>

ScanDue ==
    LET c == cal.cfg
        known == LookedUp(c)
        policy == Due(known.run, known.full)
        due  == IF cal.from = 0 THEN [due |-> TRUE, full |-> TRUE] ELSE policy
        full == due.full /\ ~cal.pinned
    IN /\ cal.at = "resolved"
       /\ clock' = [clock EXCEPT ![c] = known]
       /\ cal' = [cal EXCEPT !.at = IF due.due THEN "measure" ELSE "scans", !.full = full, !.checked = hour,
                             !.from = IF full THEN 0 ELSE @]
       /\ UNCHANGED <<hour, ir, auto, records, selected>>

ScanEnds == cal.at = "scans" /\ cal' = Idle /\ UNCHANGED <<hour, ir, auto, records, selected, clock>>
-----------------------------------------------------------------------------
(* pk_calibrate: every asked base in turn, the records kept until the lamp *)
(* is out.                                                                 *)

StartCalibrate ==
    /\ cal.at = "idle"
    /\ \E todo \in SUBSET CFG \ {{}}, gain \in BOOLEAN :
           cal' = [Idle EXCEPT !.at = "next", !.kind = IF gain THEN "gain" ELSE "session", !.todo = todo]
    /\ UNCHANGED <<hour, ir, auto, records, selected, clock>>

NextBase ==
    /\ cal.at = "next"
    /\ \E c \in cal.todo :
           LET known == LookedUp(c)
               full  == cal.kind = "gain" \/ ~Usable(c) \/ Due(1, known.full).full
           IN  /\ clock' = [clock EXCEPT ![c] = known]
               /\ cal' = [cal EXCEPT !.at = "measure", !.cfg = c, !.todo = @ \ {c}, !.full = full,
                                     !.from = IF full THEN 0 ELSE NewestOf(c), !.parent = NewestOf(c)]
    /\ UNCHANGED <<hour, ir, auto, records, selected>>

BasesDone ==
    /\ cal.at = "next" /\ cal.todo = {}
    /\ cal' = [cal EXCEPT !.at = "store"]
    /\ UNCHANGED <<hour, ir, auto, records, selected, clock>>
-----------------------------------------------------------------------------
(* cal_one.                                                                *)

\* A non-full IR run passes on what its parent has.
Lineage_Assumed == ir
Lineage == ir /\ (cal.full \/ (cal.parent # 0 /\ records[cal.parent].lineage))

Built ==
    [cfg |-> cal.cfg, at |-> hour, full |-> cal.full,
     fullUtc |-> IF cal.full THEN hour ELSE clock[cal.cfg].full,
     lineage |-> Lineage, from |-> cal.from, pinned |-> cal.pinned]

\* The times a measurement may set before its record is stored: none.
EarlyTimes(rec) == clock

Measured ==
    /\ cal.at = "measure"
    /\ cal' = [cal EXCEPT !.kept = Append(@, Built), !.from = 0, !.parent = 0, !.full = FALSE, !.at = IF cal.kind = "scan" THEN "store" ELSE "next"]
    /\ clock' = EarlyTimes(Built)
    /\ UNCHANGED <<hour, ir, auto, records, selected>>

\* Not enough light in a gain run: the other bases are still tried.  Anything
\* else (a cancel, film over a sensor, a lost board) ends the run; what was
\* measured before is still stored.
MeasureFails ==
    /\ cal.at = "measure"
    /\ \/ cal.kind = "gain" /\ cal' = [cal EXCEPT !.at = "next"]
       \/ cal' = [cal EXCEPT !.at = "store", !.todo = {}, !.kind = "failed"]
    /\ UNCHANGED <<hour, ir, auto, records, selected, clock>>

\* The put succeeds, and only then the session counts as calibrated.
Stores ==
    /\ cal.at = "store" /\ cal.kept # <<>> /\ Len(records) < MAX_RECORDS
    /\ LET rec == Head(cal.kept)
       IN  /\ records' = Append(records, rec)
           /\ clock' = [clock EXCEPT ![rec.cfg].run = rec.at, ![rec.cfg].full = IF rec.full THEN rec.at ELSE @]
    /\ cal' = [cal EXCEPT !.kept = Tail(@)]
    /\ UNCHANGED <<hour, ir, auto, selected>>

\* A put that fails may still have left the entry.
StoreFails ==
    /\ cal.at = "store" /\ cal.kept # <<>>
    /\ \/ UNCHANGED records
       \/ Len(records) < MAX_RECORDS /\ records' = Append(records, Head(cal.kept))
    /\ cal' = [cal EXCEPT !.kept = Tail(@), !.kind = "failed"]
    /\ UNCHANGED <<hour, ir, auto, selected, clock>>

StoreDone ==
    /\ cal.at = "store" /\ cal.kept = <<>>
    /\ cal' = IF cal.kind = "scan" THEN [cal EXCEPT !.at = "scans"] ELSE Idle
    /\ UNCHANGED <<hour, ir, auto, records, selected, clock>>
-----------------------------------------------------------------------------
(* The rest of the world: time, the process, the application's choices (a  *)
(* choice during a measurement is one before the next look at the store).  *)

HourPasses == hour < HOURS /\ hour' = hour + 1 /\ UNCHANGED <<ir, auto, records, selected, clock, cal>>

AppSelects ==
    /\ cal.at \in {"idle", "resolved", "next"}
    /\ \E c \in CFG : \E k \in {0} \cup Ids(c) : selected' = [selected EXCEPT ![c] = k]
    /\ UNCHANGED <<hour, ir, auto, records, clock, cal>>

AppImports ==
    /\ cal.at \in {"idle", "resolved", "next"}
    /\ Len(records) < MAX_RECORDS
    /\ \E c \in CFG : records' = Append(records, AsImported(c))
    /\ UNCHANGED <<hour, ir, auto, selected, clock, cal>>

\* The application ends or is killed, also with kept records: a new session.
Reopens ==
    /\ cal' = Idle /\ clock' = [c \in CFG |-> Unknown]
    /\ UNCHANGED <<hour, ir, auto, records, selected>>

CalNext ==
    \/ \E c \in CFG : ResolveScan(c)
    \/ ScanDue \/ ScanEnds \/ StartCalibrate \/ NextBase \/ BasesDone
    \/ Measured \/ MeasureFails \/ Stores \/ StoreFails \/ StoreDone
    \/ HourPasses \/ AppSelects \/ AppImports \/ Reopens

CalSpec == CalInit /\ [][CalNext]_calVars
-----------------------------------------------------------------------------
\* The times of a session and of the records are times of stored records: a
\* calibration that was measured and not stored never counts as one, neither
\* for the dark-point interval nor as a full search, in this session or in a
\* later one that reads "full_utc" back.
TimesAreStored ==
    LET fullAt(c, t) == \E k \in Ids(c) : records[k].full /\ records[k].at = t
    IN  /\ \A c \in CFG : /\ clock[c].run # 0 => \E k \in Ids(c) : records[k].at = clock[c].run
                          /\ clock[c].full # 0 => fullAt(c, clock[c].full)
        /\ \A k \in DOMAIN records : records[k].fullUtc # 0 => fullAt(records[k].cfg, records[k].fullUtc)

\* An IR record says "ir_lineage" only when its light goes back to a full
\* search that recorded it, and no unpinned run starts from IR light without:
\* such light keeps currents the full search would not have chosen.
LineageIsFull ==
    \A k \in DOMAIN records :
        LET r == records[k]
        IN  /\ r.lineage => r.full \/ (r.from # 0 /\ records[r.from].lineage)
            /\ (ir /\ r.from # 0 /\ ~r.pinned) => records[r.from].lineage

\* With auto_at_power_on no unpinned scan runs unless a full light search of
\* its configuration, not older than the interval when the policy was asked,
\* is in the store: across restarts, failed puts, selections and the time the
\* session took from the store only once.
FullWhenLate ==
    (cal.at = "scans" /\ ~cal.pinned /\ auto) =>
        \E k \in Ids(cal.cfg) : records[k].full /\ cal.checked - records[k].at <= FULL_AFTER

\* What the stored records and the session's times say of the calibrations.
RecordsAreTrue == TimesAreStored /\ LineageIsFull /\ FullWhenLate
=============================================================================
