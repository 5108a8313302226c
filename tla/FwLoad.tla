-------------------------------- MODULE FwLoad --------------------------------
(***************************************************************************)
(* The firmware load (core/src/device/fwload.c) through the guard, on a    *)
(* device whose cable, power and transfers may fail at any step.  Every    *)
(* transfer of the loader is one transfer of the guard, which may refuse   *)
(* it: the guard knows nothing of the loader's own bookkeeping.            *)
(***************************************************************************)
EXTENDS Guard, Sequences

CONSTANTS
  S1Records,   \* the stage-1's records, in file order: [addr, len]
  Jobs         \* firmware files: sets of [image, records]

(* The shapes a parsed HEX file has: the records cover bytes of the image. *)
IsRecord(r, img) == r.addr \in Nat /\ r.len \in Nat \ {0} /\ Span(r.addr, r.len) \subseteq DOMAIN img

ASSUME LoaderAssumption ==
  /\ S1Records \in Seq([addr : Nat, len : Nat])
  /\ \A n \in DOMAIN S1Records : IsRecord(S1Records[n], Stage1)
  /\ DOMAIN Stage1 \subseteq Internal
  /\ \A j \in Jobs :
       /\ j.image \in FwImages
       /\ j.records \in Seq([addr : Nat, len : Nat])
       /\ \A n \in DOMAIN j.records : IsRecord(j.records[n], j.image)

(* What the parsers give (ihex.c, pkfw_stage1_from_ldr): the records of a  *)
(* file hold every byte of its image, and none is longer than a transfer.  *)
Covers(rs, img) == \A b \in DOMAIN img : \E n \in DOMAIN rs : b \in Span(rs[n].addr, rs[n].len)
Short(rs) == \A n \in DOMAIN rs : rs[n].len <= LOAD_REC_MAX

ASSUME ParserAssumption ==
  /\ Covers(S1Records, Stage1) /\ Short(S1Records)
  /\ \A j \in Jobs : Covers(j.records, j.image) /\ Short(j.records)

VARIABLES
  job,  \* the firmware being loaded
  pc,   \* where load_in_window is
  k,    \* the record a loop is at
  bad,  \* rb.bad # 0 of the read-back in progress
  res   \* the pk_status, "none" until one is decided

loader == <<job, pc, k, bad, res>>
all    == <<vars, loader>>

FwInit == /\ Init
          /\ job \in Jobs
          /\ pc = "start" /\ k = 1 /\ bad = FALSE /\ res = "none"

Goto(l) == pc' = l /\ k' = 1 /\ UNCHANGED <<job, bad, res>>
Quit(s) == pc' = "unwind" /\ res' = s /\ UNCHANGED <<job, k, bad>>
Bail(s) == pc' = "bail" /\ res' = s /\ UNCHANGED <<job, k, bad>>

(* A transfer the guard does not admit.                                    *)
Refused(may) == ~may /\ OtherTransfer /\ Quit("FORBIDDEN")

Bytes(img, r) == [b \in Span(r.addr, r.len) |-> img[b]]
Straddles(r)  == r.addr <= A3_MIN_EXCL /\ r.addr + r.len - 1 > A3_MIN_EXCL

(* The shape checks before any transfer.                                   *)
Shape == /\ \A b \in DOMAIN job.image : b < A0_EXT_END
         /\ \E b \in DOMAIN job.image : b <= A3_MIN_EXCL
         /\ \A i \in DOMAIN job.records : ~Straddles(job.records[i])

Start == /\ pc = "start"
         /\ IF Shape
            THEN LoadBegin(Stage1, job.image) /\ Goto("hold")
            ELSE /\ pc' = "done" /\ res' = "FORMAT"
                 /\ UNCHANGED <<vars, job, k, bad>>

-----------------------------------------------------------------------------
(* cpucs(t, 1): the three holds of the sequence.                           *)
HoldFor(l, next) ==
  /\ pc = l
  /\ \/ \E o \in Outcomes : Hold(o) /\ (IF o.ok THEN Goto(next) ELSE Quit("XFER"))
     \/ Refused(phase # "none")

(* The hold after the stage-1 ran; a bad A3 read-back ends here, held.     *)
AfterStage1 == IF bad THEN "mismatch" ELSE "low"

Mismatch == pc = "mismatch" /\ Quit("DEVICE") /\ UNCHANGED vars

(* Best effort: do not leave the stage-1 running.  res is decided already. *)
BailHold ==
  /\ pc = "bail"
  /\ \/ \E o \in Outcomes : Hold(o)
     \/ phase = "none" /\ OtherTransfer
  /\ pc' = "unwind" /\ UNCHANGED <<job, k, bad, res>>

(* The loops at label l: over the stage-1's records, or over the           *)
(* firmware's, which skip the records that are not theirs.                 *)
NextRecord == k' = k + 1 /\ UNCHANGED <<job, pc, bad, res>>
At(l, rs)  == pc = l /\ k <= Len(rs)
LoopEnd(l, rs, next) == pc = l /\ k > Len(rs) /\ Goto(next) /\ UNCHANGED vars
Skip(l, mine(_)) == At(l, job.records) /\ ~mine(job.records[k]) /\ NextRecord /\ UNCHANGED vars

IsHigh(r)  == r.addr > A3_MIN_EXCL
IsLow(r)   == r.addr <= A3_MIN_EXCL
IsInner(r) == r.addr < A0_INT_END

WriteRecordA0(r, img) ==
  \/ \E ok \in BOOLEAN, T \in SUBSET Span(r.addr, r.len) :
       /\ WriteA0(r.addr, r.len, Bytes(img, r), ok, T)
       /\ IF ok THEN NextRecord ELSE Quit("XFER")
  \/ Refused(MayWriteA0(r.addr, r.len, Bytes(img, r)))

WriteStage1 == At("stage1", S1Records) /\ WriteRecordA0(S1Records[k], Stage1)
WriteLow    == At("low", job.records) /\ IsLow(job.records[k]) /\ WriteRecordA0(job.records[k], job.image)

WriteHigh ==
  /\ At("a3", job.records) /\ IsHigh(job.records[k])
  /\ LET r == job.records[k]
         d == Bytes(job.image, r) IN
       \/ \E ok \in BOOLEAN, g \in [Span(r.addr, r.len) -> Byte] :
            /\ WriteA3(r.addr, r.len, d, ok, g)
            /\ IF ok THEN NextRecord ELSE Bail("XFER")
       \/ ~(MayA3(r.addr, r.len) /\ Matches(job.image, r.addr, r.len, d)) /\ OtherTransfer /\ Bail("FORBIDDEN")

ReleaseStage1At ==
  /\ pc = "release1"
  /\ \/ \E o \in Outcomes : ReleaseStage1(o) /\ (IF o.ok THEN Goto("a3") ELSE Quit("XFER"))
     \/ Refused(MayReleaseStage1)

ReleaseFirmwareAt ==
  /\ pc = "release"
  /\ \/ \E o \in Outcomes : ReleaseFirmware(o) /\ (IF o.ok THEN Goto("unwind") ELSE Quit("XFER"))
     \/ Refused(MayReleaseFirmware)

(* read_back: every differing byte is counted, the first transfer error    *)
(* ends it.                                                                *)
Counted(r) ==
  /\ bad' = (bad \/ \E b \in Span(r.addr, r.len) : mem[b] # job.image[b])
  /\ k' = k + 1 /\ UNCHANGED <<job, pc, res>>

ReadBackHigh ==
  /\ At("a3back", job.records) /\ IsHigh(job.records[k])
  /\ LET r == job.records[k] IN
       \/ \E ok \in BOOLEAN : ReadA3(r.addr, r.len, ok) /\ (IF ok THEN Counted(r) ELSE Bail("XFER"))
       \/ ~MayA3(r.addr, r.len) /\ OtherTransfer /\ Bail("FORBIDDEN")

(* A0 reads stop at the end of internal RAM and start at an even address.  *)
Inner(r) == [addr |-> r.addr, len |-> IF r.addr + r.len > A0_INT_END THEN A0_INT_END - r.addr ELSE r.len]

Lead_None(r) == 0

Lead(r) == r.addr % 2

ReadBackInner ==
  /\ At("lowback", job.records) /\ IsInner(job.records[k])
  /\ LET r == Inner(job.records[k])
         a == r.addr - Lead(r)
         n == r.len + Lead(r) IN
       \/ \E ok \in BOOLEAN : ReadA0(a, n, ok) /\ (IF ok THEN Counted(r) ELSE Quit("XFER"))
       \/ Refused(MayReadA0(a, n))

(* A bad A3 read-back still goes through the hold of step 6.               *)
AfterHighBack == "hold2"
AfterLowBack  == IF bad THEN "mismatch" ELSE "hold3"

LoadInWindow ==
  \/ HoldFor("hold", "stage1")
  \/ WriteStage1   \/ LoopEnd("stage1", S1Records, "release1")
  \/ ReleaseStage1At
  \/ WriteHigh     \/ Skip("a3", IsHigh)       \/ LoopEnd("a3", job.records, "a3back")
  \/ ReadBackHigh  \/ Skip("a3back", IsHigh)   \/ LoopEnd("a3back", job.records, AfterHighBack)
  \/ HoldFor("hold2", AfterStage1)
  \/ WriteLow      \/ Skip("low", IsLow)       \/ LoopEnd("low", job.records, "lowback")
  \/ ReadBackInner \/ Skip("lowback", IsInner) \/ LoopEnd("lowback", job.records, AfterLowBack)
  \/ HoldFor("hold3", "release")
  \/ ReleaseFirmwareAt
  \/ BailHold \/ Mismatch

-----------------------------------------------------------------------------
(* pkl_guard_load_end on every path, then, loaded: wait for the device     *)
(* under its loaded identity, and read its personality.                    *)
Unwind == /\ pc = "unwind"
          /\ LoadEnd
          /\ Goto(IF res = "none" THEN "reopen" ELSE "done")

Finish(s) == pc' = "done" /\ res' = s /\ UNCHANGED <<job, k, bad>>

ReopenLoaded ==
  /\ pc = "reopen"
  /\ \E found \in BOOLEAN :
       /\ found => cpu = "firmware"
       /\ Reopen(found)
       /\ IF found THEN Goto("select") ELSE Finish("NOT_FOUND")

SelectPersonality ==
  /\ pc = "select"
  /\ \E o \in Outcomes : Select("A3", o) /\ (IF o.ok THEN Goto("personality") ELSE Finish("LOADED_UNVERIFIED"))

(* The A9 read: an answer agrees with the unloaded identity or does not.   *)
Verdict_StatusIgnored(answered) == {"OK", "FIRMWARE_MISMATCH"}

Verdict(answered) == IF answered THEN {"OK", "FIRMWARE_MISMATCH"} ELSE {"LOADED_UNVERIFIED"}

ReadPersonality ==
  /\ pc = "personality"
  /\ \E answered \in BOOLEAN :
       /\ answered => attached /\ cpu = "firmware" /\ a4 # "none"
       /\ \E s \in Verdict(answered) : Finish(s)
  /\ UNCHANGED vars

LoaderStep == Start \/ LoadInWindow \/ Unwind \/ ReopenLoaded \/ SelectPersonality \/ ReadPersonality

FwNext == LoaderStep \/ (DeviceStep /\ UNCHANGED loader)

FwSpec == FwInit /\ [][FwNext]_all

-----------------------------------------------------------------------------
(* Types: above all, a loop never indexes a record before the first.       *)
LoaderTypeOK ==
  /\ TypeOK
  /\ job \in Jobs /\ k \in Nat \ {0} /\ bad \in BOOLEAN
  /\ pc \in {"start", "hold", "stage1", "release1", "a3", "a3back", "hold2", "low", "lowback", "hold3",
             "release", "mismatch", "bail", "unwind", "reopen", "select", "personality", "done"}
  /\ res \in {"none", "FORMAT", "XFER", "FORBIDDEN", "DEVICE", "NOT_FOUND", "LOADED_UNVERIFIED", "OK",
              "FIRMWARE_MISMATCH"}

(* The loader follows the guard's phases exactly (fwload.c's header): the  *)
(* guard never refuses it, and in particular a read-back the loader finds  *)
(* clean is one by which the guard admits the final release.               *)
NeverRefused == res # "FORBIDDEN"

(* A load that reports success has left the scanner running the firmware.  *)
OkMeansLoaded == [][res' \in {"OK", "FIRMWARE_MISMATCH"} /\ res # res' => cpu = "firmware"]_all

(* Step 10: on any mismatch the 8051 stays held and is never released.     *)
MismatchStaysHeld == res = "DEVICE" /\ attached => cpu = "held"

(* What holds of a load at every step of it.                               *)
LoaderSafe == LoaderTypeOK /\ NeverRefused /\ MismatchStaysHeld

(* device.h on pk_device_load_firmware: a failure before the reopen leaves *)
(* the 8051 held, running the stage-1 or half loaded.                      *)
FailureLeavesUnloaded == pc = "done" /\ res \in {"FORMAT", "XFER", "FORBIDDEN", "DEVICE"} => cpu # "firmware"
=============================================================================
