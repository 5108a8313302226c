------------------------------ MODULE VendorStore ------------------------------
(***************************************************************************)
(* The store of vendor files (core/src/vendor/vendor.c): an import         *)
(* verifies every manifest item of a folder in memory, then writes a fresh *)
(* store beside its place and renames it there, or gives an existing store *)
(* the verified items it lacks; an open verifies every item it finds.      *)
(* Importers are processes of the same machine (two applications, or the   *)
(* application and the command), named by their pid.  No directory is      *)
(* synced, so a power loss may take back any rename that the system has    *)
(* not written out by itself.                                              *)
(*                                                                         *)
(* A file is good (right size and hash), absent or bad: of another size or *)
(* hash, a link, or not a regular file.                                    *)
(***************************************************************************)
EXTENDS Naturals, FiniteSets, FiniteSetsExt

CONSTANTS
  PIDS,       \* the importers' process ids
  ITEMS,      \* rows of the manifest, in its order: 1 .. n
  REQUIRED,   \* the rows that are not optional
  MISHAPS     \* bound on I/O errors, crashes, power losses and damages

ASSUME VendorAssumption ==
  /\ ITEMS # {} /\ IsFiniteSet(ITEMS) /\ ITEMS = 1..Cardinality(ITEMS)
  /\ REQUIRED \subseteq ITEMS /\ MISHAPS \in Nat

VARIABLES
  made,       \* dest_root/3.0.4.27 exists
  item,       \* [ITEMS -> the file of that row in it]
  waiting,    \* the renames the system has not written out: rows, and 0 for the store itself
  leftover,   \* temporary files of crashed writes in the store: <<row, pid in the name>>
  imp,        \* [PIDS -> the import that process runs]
  outcome,    \* what the last import returned, for as long as nobody has damaged the store
  opened,     \* the rows the last open found present, or its refusal
  spoiled,    \* history: the disk has damaged a file of this store
  robbed,     \* history: a power loss has taken entries back
  mishaps

store == <<made, item, waiting, leftover>>
vendorVars == <<store, imp, outcome, opened, spoiled, robbed, mishaps>>

Files == {"good", "absent", "bad"}
AtRest == [at |-> "idle", has |-> {}, lacks |-> {}, row |-> 0, lone |-> FALSE]
NoOutcome == [ok |-> FALSE, owed |-> FALSE, by |-> 0]
Refused == {0}

(* verdict: of the source in an import, of the store in an open            *)
StoreAccepts(file) == (\A i \in ITEMS : file[i] # "bad") /\ (\A i \in REQUIRED : file[i] = "good")

MovesOn(p, at) == imp' = [imp EXCEPT ![p].at = at]

(* The caller is told; only a lone import without a mishap owes success.   *)
Returns(p, ok) ==
  /\ imp' = [imp EXCEPT ![p] = AtRest]
  /\ outcome' = [ok |-> ok, owed |-> imp[p].lone /\ ~spoiled, by |-> p]
  /\ UNCHANGED <<opened, spoiled, robbed>>
Quiet == UNCHANGED <<outcome, opened, spoiled, robbed, mishaps>>
Mishap == mishaps < MISHAPS /\ mishaps' = mishaps + 1

-----------------------------------------------------------------------------
(* 1. Every item is found and verified in memory; then lstat of the store. *)
Begin(p) ==
  /\ imp[p].at = "idle"
  /\ \E source \in [ITEMS -> Files] :
       /\ StoreAccepts(source)                  \* else nothing happens
       /\ LET alone == \A q \in PIDS : imp[q].at = "idle"
              sure == alone /\ \A i \in ITEMS : source[i] = "good"
              this == [at |-> IF made THEN "check" ELSE "build", row |-> Min(ITEMS), lacks |-> {},
                       has |-> {i \in ITEMS : source[i] = "good"}, lone |-> sure]
          IN  imp' = [q \in PIDS |-> IF q = p THEN this ELSE [imp[q] EXCEPT !.lone = FALSE]]
  /\ UNCHANGED store /\ Quiet

(* 2. The store's own files are read before anything is written.           *)
Refuses(file) == file = "bad"

Check(p) ==
  LET i == imp[p].row
  IN  /\ imp[p].at = "check" /\ ~Refuses(item[i])
      /\ imp' = [imp EXCEPT ![p].lacks = IF item[i] = "absent" THEN @ \union {i} ELSE @,
                            ![p].at = IF i = Max(ITEMS) THEN "add" ELSE @,
                            ![p].row = IF i = Max(ITEMS) THEN 0 ELSE @ + 1]
      /\ UNCHANGED store /\ Quiet

CheckRefuses(p) ==
  /\ imp[p].at = "check" /\ Refuses(item[imp[p].row])
  /\ Returns(p, FALSE)
  /\ UNCHANGED <<store, mishaps>>

Wanted(p) == imp[p].lacks \intersect imp[p].has

(* lstat of one lacking item; one that appeared meanwhile fails the import *)
AddLooks(p) ==
  /\ imp[p].at = "add" /\ Wanted(p) # {}
  /\ LET i == Min(Wanted(p))
     IN  IF item[i] = "absent"
         THEN imp' = [imp EXCEPT ![p].at = "write", ![p].row = i] /\ Quiet
         ELSE Returns(p, FALSE) /\ UNCHANGED mishaps
  /\ UNCHANGED store

(* pku_write_file_atomic: the temporary file is created exclusively under  *)
(* a name of this process, written and synced ...                          *)
TmpName(p) == p
AddWrites(p) ==
  /\ imp[p].at = "write"
  /\ IF <<imp[p].row, TmpName(p)>> \in leftover
     THEN Returns(p, FALSE) /\ UNCHANGED mishaps
     ELSE MovesOn(p, "rename") /\ Quiet
  /\ UNCHANGED store

Synced == {"good", "absent"}               \* what a power loss may leave of a renamed file

(* ... and renamed to its place.                                           *)
AddRenames(p) ==
  LET i == imp[p].row
  IN  /\ imp[p].at = "rename"
      /\ item' = [item EXCEPT ![i] = "good"] /\ waiting' = waiting \union {i}
      /\ imp' = [imp EXCEPT ![p].at = "add", ![p].lacks = @ \ {i}]
      /\ UNCHANGED <<made, leftover>> /\ Quiet

AddDone(p) ==
  /\ imp[p].at = "add" /\ Wanted(p) = {}
  /\ Returns(p, TRUE)
  /\ UNCHANGED <<store, mishaps>>

(* 3. A directory of this process's own is filled, then renamed in one     *)
(* step, which fails when another import's store is there.                 *)
InPlace_AtOnce(p) == made' = TRUE /\ waiting' = waiting \union {0} /\ UNCHANGED <<item, leftover>>
InPlace(p) == UNCHANGED store
Build(p) == imp[p].at = "build" /\ MovesOn(p, "move") /\ InPlace(p) /\ Quiet

Move(p) ==
  /\ imp[p].at = "move" /\ (\A i \in ITEMS : item[i] = "absent")
  /\ made' = TRUE /\ waiting' = waiting \union imp[p].has \union {0}
  /\ item' = [i \in ITEMS |-> IF i \in imp[p].has THEN "good" ELSE "absent"]
  /\ Returns(p, TRUE)
  /\ UNCHANGED <<leftover, mishaps>>

MoveLoses(p) ==
  /\ imp[p].at = "move" /\ \E i \in ITEMS : item[i] # "absent"
  /\ Returns(p, FALSE)
  /\ UNCHANGED <<store, mishaps>>

(* An I/O error anywhere: the temporary file is removed, what is there     *)
(* stays.                                                                  *)
Fails(p) ==
  /\ imp[p].at # "idle" /\ Mishap
  /\ imp' = [imp EXCEPT ![p] = AtRest] /\ outcome' = NoOutcome
  /\ UNCHANGED <<store, opened, spoiled, robbed>>

Crash(p) ==
  /\ imp[p].at # "idle" /\ Mishap
  /\ imp' = [imp EXCEPT ![p] = AtRest] /\ outcome' = NoOutcome
  /\ leftover' = IF imp[p].at = "rename" THEN leftover \union {<<imp[p].row, TmpName(p)>>} ELSE leftover
  /\ UNCHANGED <<made, item, waiting, opened, spoiled, robbed>>

-----------------------------------------------------------------------------
(* pkvn_open_rep_with, by whoever wants the files                          *)
Present == {i \in ITEMS : item[i] = "good"}
Open ==
  /\ opened' = IF StoreAccepts(item) THEN Present ELSE Refused
  /\ UNCHANGED <<store, imp, outcome, spoiled, robbed, mishaps>>

(* The disk, the owner and the system                                      *)
WrittenOut ==
  /\ waiting # {} /\ waiting' = {}
  /\ UNCHANGED <<made, item, leftover, imp, outcome, opened, spoiled, robbed, mishaps>>

PowerLoss ==
  /\ Mishap
  /\ \E left \in [ITEMS -> Files], stays \in {TRUE, 0 \notin waiting} :
       /\ \A i \in ITEMS : left[i] # item[i] => i \in waiting /\ item[i] = "good" /\ left[i] \in Synced
       /\ made' = (made /\ stays)
       /\ item' = [i \in ITEMS |-> IF stays THEN left[i] ELSE "absent"]
       /\ robbed' = (robbed \/ item' # item)
  /\ waiting' = {} /\ imp' = [p \in PIDS |-> AtRest] /\ outcome' = NoOutcome /\ opened' = {}
  /\ leftover' \in {{}, leftover}
  /\ UNCHANGED spoiled

(* While no import runs: a good file goes bad.                             *)
Damage ==
  /\ Mishap /\ \A p \in PIDS : imp[p].at = "idle"
  /\ \E i \in ITEMS : item[i] = "good" /\ item' = [item EXCEPT ![i] = "bad"]
  /\ spoiled' = TRUE /\ outcome' = NoOutcome /\ opened' = {}
  /\ UNCHANGED <<made, waiting, leftover, imp, robbed>>

(* "the owner removes it" (vendor.c:270): the answer to a damaged store    *)
OwnerRemoves ==
  /\ made /\ spoiled /\ \A p \in PIDS : imp[p].at = "idle"
  /\ made' = FALSE /\ item' = [i \in ITEMS |-> "absent"] /\ waiting' = {} /\ leftover' = {}
  /\ spoiled' = FALSE /\ robbed' = FALSE /\ outcome' = NoOutcome /\ opened' = {}
  /\ UNCHANGED <<imp, mishaps>>

VendorInit ==
  /\ made = FALSE /\ item = [i \in ITEMS |-> "absent"] /\ waiting = {} /\ leftover = {}
  /\ imp = [p \in PIDS |-> AtRest] /\ outcome = NoOutcome /\ opened = {}
  /\ spoiled = FALSE /\ robbed = FALSE /\ mishaps = 0

Import(p) ==
  \/ Begin(p) \/ Check(p) \/ CheckRefuses(p) \/ AddLooks(p) \/ AddWrites(p) \/ AddRenames(p) \/ AddDone(p)
  \/ Build(p) \/ Move(p) \/ MoveLoses(p) \/ Fails(p) \/ Crash(p)

VendorNext == (\E p \in PIDS : Import(p)) \/ Open \/ WrittenOut \/ PowerLoss \/ Damage \/ OwnerRemoves

VendorSpec == VendorInit /\ [][VendorNext]_vendorVars
-----------------------------------------------------------------------------
(* Until the power fails or the disk errs, a store that exists holds every *)
(* required file, whichever imports crash and wherever: an import writes   *)
(* beside the store's place and renames (vendor.c:295-313).                *)
StoreIsWhole == made /\ ~robbed /\ ~spoiled => \A i \in REQUIRED : item[i] = "good"

(* An import that has returned PK_OK leaves a store that opens: also one   *)
(* that found a store it had to complete, beside another that did the same *)
OkMeansOpens == outcome.ok => StoreAccepts(item)

(* A power loss takes whole files or none: only the disk makes one bad.    *)
NeverTorn == ~spoiled => \A i \in ITEMS : item[i] # "bad"

(* However the imports before it ended, an import of a complete folder     *)
(* that runs alone over a store nobody damaged does not fail by itself,    *)
(* but for a process of the very pid whose crash left a temporary file.    *)
ImportHeals ==
  outcome.owed /\ ~outcome.ok => \E i \in ITEMS : <<i, outcome.by>> \in leftover

(* What imports, also crashed ones and two at once, make of the store.     *)
ImportsAreSound == StoreIsWhole /\ OkMeansOpens /\ NeverTorn /\ ImportHeals
=============================================================================
