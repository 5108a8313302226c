------------------------------- MODULE PsiImport -------------------------------
(***************************************************************************)
(* The import of PSI's light settings from a registry export               *)
(* (core/src/calib/psi_import.c): the lines are taken one by one into the  *)
(* slot of the key they stand under, the slots become calibration entries  *)
(* once the whole text has been read, and the entries are put into the     *)
(* store one by one.  A put may fail; the owner then imports the same file *)
(* again.  The store itself is CalStore's.                                 *)
(*                                                                         *)
(* Of the values of a key the model keeps a number (Gain), a decimal text  *)
(* (Duty) and the time of TLB's last full search (Full), which no light    *)
(* needs; of the DpiBase key above it the Offset.                          *)
(***************************************************************************)
EXTENDS Integers, Sequences, SequencesExt

CONSTANTS
  HIVES,               \* places in the registry that hold a ...\Pakon\TLB\... tree
  LINES,               \* bound on the lines of the text
  MAX_VALS,            \* values a slot holds
  WORD,                \* a REG_DWORD counts modulo this
  GAIN_LIMIT, PX_MAX,  \* the largest gain and the largest window start of a light
  RETRIES              \* bound on imports of the same file again

ASSUME PsiAssumption ==
  /\ HIVES # {} /\ 0 \notin HIVES
  /\ {LINES, MAX_VALS, WORD, GAIN_LIMIT, PX_MAX, RETRIES} \subseteq Nat
  /\ 2 * PX_MAX < WORD /\ PX_MAX + 1 < WORD /\ GAIN_LIMIT + 1 < WORD

Variants == <<"ColNeg", "ColNegIr">>     \* one DpiBase; the others are alike
CalKeys == {"ColNeg", "ColNegIr"}
Required == <<"Gain", "Duty">>           \* in build_light's order
NotThere == [type |-> "none", n |-> 0]

VARIABLES
  text,        \* the lines read so far
  at_key,      \* the key they stand under, or "none"; DpiBase for the key above
  slot,        \* [CalKeys -> [hive, vals]]; hive 0 until its header has been seen
  px,          \* px_offset: the Offset as a signed number, -1 when there is none
  stage,       \* "reading", "storing" or "done"
  recs,        \* the entries still to be put
  status,      \* what the import returned
  entries,     \* the imported entries in the store
  now, tries   \* the clock; imports of this text

parser == <<text, at_key, slot, px>>
psiVars == <<parser, stage, recs, status, entries, now, tries>>

Value(n, v) == [is |-> "value", hive |-> 0, key |-> "", name |-> n, v |-> v]
Line(what) == [is |-> what, hive |-> 0, key |-> "", name |-> "", v |-> NotThere]
Dword(n) == [type |-> "dword", n |-> n]
Text(n) == [type |-> "text", n |-> n]

Headers ==
  [is : {"key"}, hive : HIVES, key : CalKeys \union {"DpiBase"}, name : {""}, v : {NotThere}]
    \union {Line("deleted"), Line("other")}
Values ==
  {Value("Gain", v) : v \in {Dword(GAIN_LIMIT), Dword(GAIN_LIMIT + 1)}} \union
  {Value("Duty", v) : v \in {Text(0), Text(1)}} \union
  {Value("Full", Dword(1))} \union
  {Value("Offset", Dword(n)) : n \in {PX_MAX, PX_MAX + 1, WORD - 1}}

-----------------------------------------------------------------------------
(* do_line                                                                 *)

(* classify_key, from no key at all; "[-key]" names none.                  *)
Under(l) == IF l.is = "key" THEN l.key ELSE "none"
Stands_UnderTheLast(l) == IF Under(l) = "none" THEN at_key ELSE Under(l)
Stands(l) == Under(l)

HeaderLine ==
  \E l \in Headers :
    /\ text' = Append(text, l)
    /\ at_key' = Stands(l)
    /\ slot' = IF Under(l) \in CalKeys THEN [slot EXCEPT ![l.key].hive = l.hive] ELSE slot
    /\ UNCHANGED <<px, stage, status>>

Signed(n) == IF 2 * n >= WORD THEN n - WORD ELSE n

(* set_val: the last value of a name counts; a full slot takes no new name *)
WithValue(vals, l) ==
  IF \E i \in DOMAIN vals : vals[i].name = l.name
  THEN [i \in DOMAIN vals |-> IF vals[i].name = l.name THEN l ELSE vals[i]]
  ELSE IF Len(vals) < MAX_VALS THEN Append(vals, l) ELSE vals

ValueLine ==
  \E l \in Values :
    /\ text' = Append(text, l)
    /\ slot' = IF at_key \in CalKeys THEN [slot EXCEPT ![at_key].vals = WithValue(@, l)] ELSE slot
    /\ px' = IF at_key = "DpiBase" /\ l.name = "Offset" THEN Signed(l.v.n) ELSE px
    /\ UNCHANGED <<at_key, stage, status>>

(* A malformed value ends the import when it stands under a relevant key.  *)
MalformedLine ==
  /\ text' = Append(text, Line("malformed"))
  /\ IF at_key = "none" THEN UNCHANGED <<stage, status>> ELSE stage' = "done" /\ status' = "corrupt"
  /\ UNCHANGED <<at_key, slot, px>>

ReadLine ==
  /\ stage = "reading" /\ Len(text) < LINES
  /\ HeaderLine \/ ValueLine \/ MalformedLine
  /\ UNCHANGED <<recs, entries, now, tries>>

-----------------------------------------------------------------------------
(* pkcal_psi_from_reg: every key is built before any is stored.            *)
Of(k, name) ==
  LET at == {i \in DOMAIN slot[k].vals : slot[k].vals[i].name = name}
  IN  IF at = {} THEN NotThere ELSE slot[k].vals[Min(at)].v

Missing(k, name) == Of(k, name).type # (IF name = "Gain" THEN "dword" ELSE "text")
OutOfRange(k, name) == name = "Gain" /\ Of(k, name).n > GAIN_LIMIT

(* build_light goes from value to value: the first that is missing or out  *)
(* of range decides; the window start comes last.                          *)
KeyVerdict(k) ==
  LET wrong == {i \in DOMAIN Required : Missing(k, Required[i]) \/ OutOfRange(k, Required[i])}
      first == Required[Min(wrong)]
  IN  IF wrong # {} THEN (IF Missing(k, first) THEN "skipped" ELSE "refused")
      ELSE IF px > PX_MAX THEN "refused"
      ELSE IF Of(k, "Duty").n = 0 THEN "skipped" ELSE "built"

Time(k) == IF Of(k, "Full").type = "dword" THEN 0 ELSE now     \* 0: the export's own
Entry(k) ==
  [key |-> k, hive |-> slot[k].hive, gain |-> Of(k, "Gain").n, duty |-> Of(k, "Duty").n,
   px |-> IF px >= 0 THEN px ELSE -1, time |-> Time(k), timed |-> Of(k, "Full").type = "dword"]

Seen == {k \in CalKeys : slot[k].hive # 0}
Refusal == \E k \in Seen : KeyVerdict(k) = "refused"
BuiltOf(k) == IF k \in Seen /\ KeyVerdict(k) # "skipped" THEN <<Entry(k)>> ELSE <<>>

FromReg ==
  /\ stage = "reading" \/ stage = "again"
  /\ IF Refusal
     THEN stage' = "done" /\ status' = "corrupt" /\ UNCHANGED recs
     ELSE /\ stage' = "storing"
          /\ recs' = BuiltOf(Variants[1]) \o BuiltOf(Variants[2])
          /\ UNCHANGED status
  /\ UNCHANGED <<parser, entries, now, tries>>

(* pk_calstore_import_psi: an entry's name is its content's hash, so one   *)
(* that is there already is not stored twice.                              *)
StoreOne ==
  /\ stage = "storing" /\ recs # <<>>
  /\ entries' = entries \union {recs[1]} /\ recs' = Tail(recs)
  /\ UNCHANGED <<parser, stage, status, now, tries>>

StoreOneFails ==
  /\ stage = "storing" /\ recs # <<>>
  /\ stage' = "done" /\ status' = "io" /\ recs' = <<>>
  /\ UNCHANGED <<parser, entries, now, tries>>

Imported ==
  /\ stage = "storing" /\ recs = <<>>
  /\ stage' = "done" /\ status' = "ok"
  /\ UNCHANGED <<parser, recs, entries, now, tries>>

ImportAgain ==
  /\ stage = "done" /\ tries < RETRIES
  /\ tries' = tries + 1 /\ now' = now + 1
  /\ stage' = IF status = "corrupt" /\ Last(text).is = "malformed" THEN "done" ELSE "again"
  /\ UNCHANGED <<parser, recs, status, entries>>

PsiInit ==
  /\ text = <<>> /\ at_key = "none" /\ slot = [k \in CalKeys |-> [hive |-> 0, vals |-> <<>>]] /\ px = -1
  /\ stage = "reading" /\ recs = <<>> /\ status = "none" /\ entries = {} /\ now = 1 /\ tries = 0

PsiNext == ReadLine \/ FromReg \/ StoreOne \/ StoreOneFails \/ Imported \/ ImportAgain

PsiSpec == PsiInit /\ [][PsiNext]_psiVars
-----------------------------------------------------------------------------
(* What the export says of a key: the last value of that name whose        *)
(* nearest header above it is the key's.                                   *)
IsHeader(i) == text[i].is \in {"key", "deleted", "other"}
Above(i) == {j \in 1..(i - 1) : IsHeader(j)}
Owner(i) == IF Above(i) = {} THEN Line("other") ELSE text[Max(Above(i))]
Says(k, name) ==
  LET at == {i \in DOMAIN text : text[i].is = "value" /\ text[i].name = name /\ Owner(i).key = k}
  IN  IF at = {} THEN NotThere ELSE text[Max(at)].v

(* An entry in the store holds the values the export gives for its own     *)
(* key, however keys, deleted keys and other keys follow each other; an    *)
(* offset of 2^31 and more counts as none (psi_import.c:126, 296).         *)
ValuesAreOfTheirKey ==
  \A e \in entries :
    /\ e.gain = Says(e.key, "Gain").n /\ e.duty = Says(e.key, "Duty").n
    /\ LET offset == Says("DpiBase", "Offset")
       IN  e.px = IF offset = NotThere \/ 2 * offset.n >= WORD THEN -1 ELSE offset.n

(* "All keys are validated before any is stored" (calstore.h:53): a value  *)
(* out of range in one complete key keeps every key out, and a text that   *)
(* was once refused never comes in by being imported again.                *)
AllOrNothing ==
  /\ status = "corrupt" => entries = {}
  /\ \A e \in entries : e.gain <= GAIN_LIMIT /\ e.px <= PX_MAX
  /\ entries # {} => \A k \in Seen : KeyVerdict(k) # "refused"

(* Importing the file again after a failed put completes the import: a key *)
(* whose export has the time of its full search is in the store once.      *)
StoredOnce == \A d, e \in entries : d.timed /\ d.key = e.key => d = e

(* What an import takes from an export, all in all.                        *)
PsiIsFaithful == ValuesAreOfTheirKey /\ AllOrNothing /\ StoredOnce

(* "one imported-psi entry per calibrated key" (calstore.h:50): all values *)
(* of an entry stand under the one key whose name psi.json gives.          *)
OneKeyPerEntry ==
  \A e \in entries : \A i \in DOMAIN text :
    text[i].is = "value" /\ text[i].name \in {"Gain", "Duty"} /\ Owner(i).key = e.key => Owner(i).hive = e.hive
=============================================================================
