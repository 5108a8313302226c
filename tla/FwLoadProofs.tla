---------------------------- MODULE FwLoadProofs ----------------------------
(***************************************************************************)
(* The guard and its most important caller, in three parts.                *)
(*                                                                         *)
(* The first part is about Guard alone: it keeps its promises for every    *)
(* stage-1, every firmware image, every address layout and every caller.   *)
(*                                                                         *)
(* In the second, the loader is such a caller: every step of FwLoad is a   *)
(* step of the guard with its device, or touches neither.  So what the     *)
(* first part shows of every caller holds of every firmware load.          *)
(*                                                                         *)
(* The third relates the loader's bookkeeping to the guard's: the guard,   *)
(* which trusts nothing the loader says, admits each transfer the loader   *)
(* makes.                                                                  *)
(***************************************************************************)
EXTENDS FwLoad, TLAPS

USE GuardAssumption

(* The images a window may hold are well formed, and NoImage is empty.     *)
LEMMA ImageFacts ==
  /\ \A img \in Images \union {NoImage} : DOMAIN img \subseteq Nat
  /\ \A img \in Images : \A x \in DOMAIN img : img[x] \in Byte
  /\ DOMAIN NoImage = {}
  /\ Blank \in [Internal -> Byte \union {Unset}]
  /\ \A x \in Internal : Blank[x] = Unset
  /\ Internal \subseteq Ram
BY DEF Images, NoImage, Blank, Internal, Ram

(* A device plugged in on its boot ROM with no window open satisfies       *)
(* IndInv.                                                                 *)
LEMMA InitEstablishes == Init => IndInv
BY ImageFacts DEF Init, IndInv, TypeOK, OnlyVettedCode, A3OnlyUnderStage1, HeldIsHeld, SelectionIsTrue,
     WindowShape, LoadedCpu, ShadowIsTrue, ReadBackIsTrue, Phase, Selection, Cpu

(* Opening a window, or refusing one for a foreign stage-1, keeps IndInv.  *)
LEMMA LoadBeginKeeps ==
  ASSUME IndInv, NEW i \in Stage1Candidates, NEW f \in FwImages, LoadBegin(i, f)
  PROVE  IndInv'
BY ImageFacts DEF LoadBegin, IsPinned, Window, FreeWindow, device, IndInv, TypeOK, OnlyVettedCode,
     A3OnlyUnderStage1, HeldIsHeld, SelectionIsTrue, WindowShape, LoadedCpu, ShadowIsTrue, ReadBackIsTrue,
     Phase, Selection, Cpu

(* A hold keeps IndInv however it fails: the stage-1 run ends before the   *)
(* transfer, the belief that the 8051 is held begins only after it.        *)
LEMMA HoldKeeps ==
  ASSUME IndInv, NEW o \in Outcomes, Hold(o)
  PROVE  IndInv'
BY ImageFacts DEF Hold, PhaseAfterHold, HeldAfterHold, Outcomes, IndInv, TypeOK, OnlyVettedCode,
     A3OnlyUnderStage1, HeldIsHeld, SelectionIsTrue, WindowShape, LoadedCpu, ShadowIsTrue, ReadBackIsTrue,
     Phase, Selection, Cpu

(* What the resident check is for: the held RAM is the pinned stage-1.     *)
LEMMA Stage1InRam ==
  ASSUME IndInv, MayReleaseStage1, attached
  PROVE  Holds(Stage1)
<1>1. held /\ s1 = Stage1 /\ DOMAIN s1 \subseteq Internal
  BY DEF IndInv, WindowShape, MayReleaseStage1
<1>2. SUFFICES ASSUME NEW x \in DOMAIN Stage1 PROVE x \in Ram /\ mem[x] = Stage1[x]
  BY DEF Holds
<1>3. x \in Internal /\ sh[x] = Stage1[x] /\ Stage1[x] # Unset
  BY <1>1, ImageFacts DEF MayReleaseStage1, S1Resident, ShIs, Images
<1>4. QED
  BY <1>1, <1>3, ImageFacts DEF IndInv, ShadowIsTrue

(* What the completeness check is for: every firmware byte is in RAM when  *)
(* the final release is admitted.  A byte at or below A3_MIN_EXCL and one  *)
(* between it and A0_INT_END rest on the held read-back; an external byte  *)
(* on the read-back under the stage-1, which cannot write there since.     *)
LEMMA FirmwareInRam ==
  ASSUME IndInv, MayReleaseFirmware, attached
  PROVE  Holds(fw)
<1>1. held /\ phase = "PH_FW" /\ FwComplete
  BY DEF MayReleaseFirmware
<1>2. SUFFICES ASSUME NEW x \in DOMAIN fw PROVE x \in Ram /\ mem[x] = fw[x]
  BY DEF Holds
<1>3. x \in Nat
  BY ImageFacts DEF IndInv, TypeOK, Images
<1>4. CASE x < A0_INT_END
  <2>1. x \in rb_int
    BY <1>1, <1>4 DEF FwComplete
  <2>2. QED
    BY <1>3, <1>4, <2>1 DEF IndInv, ReadBackIsTrue, Ram
<1>5. CASE ~(x < A0_INT_END)
  <2>1. x > A3_MIN_EXCL /\ x >= A0_INT_END
    BY <1>3, <1>5
  <2>2. x < A0_EXT_END /\ x \in rb_ext
    BY <1>1, <2>1 DEF FwComplete
  <2>3. QED
    BY <1>3, <2>1, <2>2 DEF IndInv, ReadBackIsTrue, Ram
<1>6. QED
  BY <1>4, <1>5

(* Releasing the resident stage-1 starts nothing else.                     *)
LEMMA ReleaseStage1Keeps ==
  ASSUME IndInv, NEW o \in Outcomes, ReleaseStage1(o)
  PROVE  IndInv'
<1>1. o.took => attached
  BY DEF Outcomes
<1>2. cpu' = IF o.took THEN "stage1" ELSE cpu
  BY <1>1, Stage1InRam DEF ReleaseStage1, Released
<1>3. QED
  BY <1>1, <1>2, ImageFacts DEF ReleaseStage1, MayReleaseStage1, IndInv, TypeOK, OnlyVettedCode,
     A3OnlyUnderStage1, HeldIsHeld, SelectionIsTrue, WindowShape, LoadedCpu, ShadowIsTrue, ReadBackIsTrue,
     Phase, Selection, Cpu

(* The final release starts the window's firmware and nothing else.        *)
LEMMA ReleaseFirmwareKeeps ==
  ASSUME IndInv, NEW o \in Outcomes, ReleaseFirmware(o)
  PROVE  IndInv'
<1>1. o.took => attached
  BY DEF Outcomes
<1>2. cpu' = IF o.took THEN "firmware" ELSE cpu
  BY <1>1, FirmwareInRam DEF ReleaseFirmware, Released
<1>3. QED
  BY <1>1, <1>2, ImageFacts DEF ReleaseFirmware, MayReleaseFirmware, FreeWindow, Window, IndInv, TypeOK,
     OnlyVettedCode, A3OnlyUnderStage1, HeldIsHeld, SelectionIsTrue, WindowShape, LoadedCpu, ShadowIsTrue,
     ReadBackIsTrue, Phase, Selection, Cpu

(* A RAM write keeps the shadow true even if it fails half-way, and        *)
(* revokes the read-backs it overwrites.                                   *)
LEMMA WriteA0Keeps ==
  ASSUME IndInv, NEW a \in Ram, NEW n \in 1..A0_EXT_END, NEW d \in [Span(a, n) -> Byte], NEW ok \in BOOLEAN,
         NEW T \in SUBSET Span(a, n), WriteA0(a, n, d, ok, T)
  PROVE  IndInv'
<1>1. Span(a, n) \subseteq Internal /\ held /\ phase \in {"PH_S1_LOAD", "PH_FW"}
  BY DEF WriteA0, MayWriteA0, Span, Internal, Ram
<1>2. TypeOK'
  BY <1>1, ImageFacts DEF WriteA0, ShadowAfterWrite, IndInv, TypeOK, Selection
<1>3. (OnlyVettedCode /\ A3OnlyUnderStage1 /\ HeldIsHeld /\ SelectionIsTrue /\ WindowShape /\ LoadedCpu)'
  BY <1>1 DEF WriteA0, IndInv, TypeOK, OnlyVettedCode, A3OnlyUnderStage1, HeldIsHeld, SelectionIsTrue,
     WindowShape, LoadedCpu
<1>4. ShadowIsTrue'
  BY <1>1, ImageFacts DEF WriteA0, ShadowAfterWrite, IndInv, TypeOK, ShadowIsTrue
<1>5. ReadBackIsTrue'
  <2>1. SUFFICES ASSUME attached'
                 PROVE  /\ \A x \in rb_ext' : x \in DOMAIN fw' /\ (x >= A0_INT_END => mem'[x] = fw'[x])
                        /\ \A x \in rb_int' : x \in DOMAIN fw' /\ mem'[x] = fw'[x]
    BY DEF ReadBackIsTrue
  <2>2. ASSUME NEW x \in rb_ext PROVE x >= A0_INT_END => mem'[x] = mem[x]
    BY <1>1, <2>2 DEF WriteA0, IndInv, TypeOK, Internal, Ram
  <2>3. ASSUME NEW x \in rb_int' PROVE mem'[x] = mem[x] /\ x \in rb_int
    BY <1>1, <2>3, ImageFacts DEF WriteA0, IndInv, TypeOK
  <2>4. QED
    BY <2>1, <2>2, <2>3 DEF WriteA0, IndInv, ReadBackIsTrue
<1>6. QED
  BY <1>2, <1>3, <1>4, <1>5 DEF IndInv

(* A held read-back confirms only bytes it really read: the boot ROM       *)
(* answers an even address in place, and nothing runs that could change    *)
(* them.                                                                   *)
LEMMA ReadA0Keeps ==
  ASSUME IndInv, NEW a \in Ram, NEW n \in 1..A0_EXT_END, a + n <= A0_EXT_END, NEW ok \in BOOLEAN, ReadA0(a, n, ok)
  PROVE  IndInv'
<1>1. a \in Nat /\ a % 2 = 0
  BY DEF ReadA0, MayReadA0, Ram
<1>2. \A x \in Span(a, n) : BootRead(a, x) = mem[x]
  BY <1>1 DEF BootRead, Span
<1>3. rb_int' \ rb_int # {} => held /\ phase = "PH_FW" /\ a + n <= A0_INT_END
  BY DEF ReadA0, CountsAsReadBack
<1>4. \A x \in rb_int' \ rb_int : x \in Span(a, n) /\ x \in DOMAIN fw /\ mem[x] = fw[x]
  BY <1>2 DEF ReadA0, Confirmed
<1>5. rb_int' \subseteq Internal
  BY <1>1, <1>3, <1>4 DEF IndInv, TypeOK, Span, Internal
<1>6. QED
  BY <1>3, <1>4, <1>5 DEF ReadA0, device, IndInv, TypeOK, OnlyVettedCode, A3OnlyUnderStage1, HeldIsHeld,
     SelectionIsTrue, WindowShape, LoadedCpu, ShadowIsTrue, ReadBackIsTrue, Selection

(* An A3 write, whatever it stored, revokes the read-backs it overwrites.  *)
LEMMA WriteA3Keeps ==
  ASSUME IndInv, NEW a \in Ram, NEW n \in 1..A0_EXT_END, NEW d \in [Span(a, n) -> Byte],
         NEW g \in [Span(a, n) -> Byte], NEW ok \in BOOLEAN, WriteA3(a, n, d, ok, g)
  PROVE  IndInv'
<1>1. Span(a, n) \subseteq Ram /\ ~held /\ phase = "PH_S1_RUN" /\ rb_int = {}
  BY DEF WriteA3, MayA3, Span, Ram, IndInv, WindowShape
<1>2. TypeOK'
  BY <1>1 DEF WriteA3, IndInv, TypeOK, Selection
<1>3. \A x \in rb_ext' : x \in rb_ext /\ mem'[x] = mem[x]
  BY <1>1 DEF WriteA3, IndInv, TypeOK
<1>4. QED
  BY <1>1, <1>2, <1>3 DEF WriteA3, IndInv, TypeOK, OnlyVettedCode, A3OnlyUnderStage1, HeldIsHeld,
     SelectionIsTrue, WindowShape, LoadedCpu, ShadowIsTrue, ReadBackIsTrue

(* An A3 read-back confirms only bytes that equal the image's.             *)
LEMMA ReadA3Keeps ==
  ASSUME IndInv, NEW a \in Ram, NEW n \in 1..A0_EXT_END, NEW ok \in BOOLEAN, ReadA3(a, n, ok)
  PROVE  IndInv'
<1>1. Span(a, n) \subseteq Ram /\ phase = "PH_S1_RUN"
  BY DEF ReadA3, MayA3, Span, Ram
<1>2. \A x \in rb_ext' \ rb_ext : x \in Span(a, n) /\ x \in DOMAIN fw /\ mem[x] = fw[x]
  BY DEF ReadA3, Confirmed
<1>3. QED
  BY <1>1, <1>2 DEF ReadA3, device, IndInv, TypeOK, OnlyVettedCode, A3OnlyUnderStage1, HeldIsHeld,
     SelectionIsTrue, WindowShape, LoadedCpu, ShadowIsTrue, ReadBackIsTrue, Selection

(* The transfers and calls that touch no load state but the whole window.  *)
LEMMA OtherKeeps ==
  ASSUME IndInv,
         \/ LoadEnd
         \/ \E v \in {"A5", "A3"}, o \in Outcomes : Select(v, o)
         \/ OtherTransfer
         \/ \E found \in BOOLEAN : Reopen(found)
  PROVE  IndInv'
<1> USE DEF IndInv, TypeOK, OnlyVettedCode, A3OnlyUnderStage1, HeldIsHeld, SelectionIsTrue, WindowShape,
            LoadedCpu, ShadowIsTrue, ReadBackIsTrue, Phase, Selection, Cpu, win, device
<1>1. CASE LoadEnd
  BY <1>1, ImageFacts DEF LoadEnd, FreeWindow, Window
<1>2. ASSUME NEW v \in {"A5", "A3"}, NEW o \in Outcomes, Select(v, o) PROVE IndInv'
  BY <1>2 DEF Select, Outcomes
<1>3. CASE OtherTransfer
  BY <1>3 DEF OtherTransfer
<1>4. ASSUME NEW found \in BOOLEAN, Reopen(found) PROVE IndInv'
  BY <1>4, ImageFacts DEF Reopen, FreeWindow, Window
<1>5. QED
  BY <1>1, <1>2, <1>3, <1>4

(* What the device does by itself keeps IndInv: a running 8051 writes only *)
(* RAM about which the guard believes nothing.                             *)
LEMMA DeviceKeeps == ASSUME IndInv, DeviceStep PROVE IndInv'
<1> USE DEF IndInv, TypeOK, OnlyVettedCode, A3OnlyUnderStage1, HeldIsHeld, SelectionIsTrue, WindowShape,
            LoadedCpu, ShadowIsTrue, ReadBackIsTrue, Phase, Selection, Cpu, win
<1>1. CASE RunCode
  <2>1. PICK x \in Scratch, v \in Byte : mem' = [mem EXCEPT ![x] = v]
    BY <1>1 DEF RunCode
  <2>2. x \in Ram /\ (cpu = "stage1" => x < A0_INT_END) /\ cpu # "held"
    BY <2>1, ImageFacts DEF Scratch, Internal, Ram
  <2>3. ~(held /\ attached) /\ (attached => rb_int = {})
    BY <2>2
  <2>4. \A r \in rb_ext : attached /\ r >= A0_INT_END => mem'[r] = mem[r]
    <3>1. SUFFICES ASSUME NEW r \in rb_ext, attached, r >= A0_INT_END PROVE mem'[r] = mem[r]
      OBVIOUS
    <3>2. cpu = "stage1"
      BY <2>2, <3>1
    <3>3. QED
      BY <2>1, <2>2, <3>1, <3>2 DEF Ram
  <2>5. QED
    BY <1>1, <2>1, <2>2, <2>3, <2>4, ZenonT(60) DEF RunCode
<1>2. CASE Detach
  BY <1>2, ZenonT(60) DEF Detach
<1>3. CASE PowerCycle
  BY <1>3 DEF PowerCycle
<1>4. QED
  BY <1>1, <1>2, <1>3 DEF DeviceStep

(* Every step of the guard and of the device keeps IndInv.                 *)
LEMMA StepKeeps == IndInv /\ [Next]_vars => IndInv'
<1>1. SUFFICES ASSUME IndInv, [Next]_vars PROVE IndInv'
  OBVIOUS
<1>2. CASE UNCHANGED vars
  BY <1>1, <1>2 DEF vars, win, device, IndInv, TypeOK, OnlyVettedCode, A3OnlyUnderStage1, HeldIsHeld,
     SelectionIsTrue, WindowShape, LoadedCpu, ShadowIsTrue, ReadBackIsTrue
<1>3. CASE GuardStep
  BY <1>1, <1>3, LoadBeginKeeps, HoldKeeps, ReleaseStage1Keeps, ReleaseFirmwareKeeps, WriteA0Keeps,
     ReadA0Keeps, WriteA3Keeps, ReadA3Keeps, OtherKeeps DEF GuardStep
<1>4. CASE DeviceStep
  BY <1>1, <1>4, DeviceKeeps
<1>5. QED
  BY <1>1, <1>2, <1>3, <1>4 DEF Next

(* The inductive invariant holds of every behaviour, for every images,     *)
(* every address layout and every caller.                                  *)
THEOREM Invariance == Spec => []IndInv
BY InitEstablishes, StepKeeps, PTL DEF Spec

(* Whatever the caller and the cable do, every variable keeps its type.    *)
THEOREM TypeCorrect == Spec => []TypeOK
BY Invariance, PTL DEF IndInv

(* The 8051 never runs code the guard has not vetted byte for byte.        *)
THEOREM OnlyVettedCodeRuns == Spec => []OnlyVettedCode
BY Invariance, PTL DEF IndInv

(* Request A3 never reaches the boot ROM or loaded firmware.               *)
THEOREM A3IsConfined == Spec => []A3OnlyUnderStage1
BY Invariance, PTL DEF IndInv

(* RAM is written only while the 8051 really is held.                      *)
THEOREM HeldBeliefIsTrue == Spec => []HeldIsHeld
BY Invariance, PTL DEF IndInv

(* A personality read reads the memory that was selected.                  *)
THEOREM SelectionBeliefIsTrue == Spec => []SelectionIsTrue
BY Invariance, PTL DEF IndInv

-----------------------------------------------------------------------------

(* What the loader knows of its file once the shape checks have passed.    *)
LoaderInv ==
  /\ job \in Jobs /\ k \in Nat \ {0}
  /\ pc \notin {"start", "done"} => Shape

(* The records a loop is at are records of the file.                       *)
LEMMA AtRecord ==
  ASSUME NEW l, NEW rs \in Seq([addr : Nat, len : Nat]), LoaderInv, At(l, rs)
  PROVE  k \in DOMAIN rs
BY DEF At, LoaderInv

(* The last address of a non-empty span is in it.                          *)
LEMMA LastInSpan ==
  ASSUME NEW a \in Nat, NEW n \in Nat \ {0}
  PROVE  a + n - 1 \in Span(a, n)
BY DEF Span

(* A record of an image that ends below lim lies below lim, and its bytes  *)
(* are bytes.                                                              *)
LEMMA RecordBelow ==
  ASSUME NEW img \in Images, NEW r, IsRecord(r, img),
         NEW lim \in Nat, lim <= A0_EXT_END, \A b \in DOMAIN img : b < lim
  PROVE  /\ r.addr \in Ram /\ r.addr \in Nat /\ r.len \in 1..A0_EXT_END /\ r.addr + r.len <= A0_EXT_END
         /\ Bytes(img, r) \in [Span(r.addr, r.len) -> Byte]
<1>1. r.addr \in Nat /\ r.len \in Nat \ {0} /\ Span(r.addr, r.len) \subseteq DOMAIN img
  BY DEF IsRecord
<1>2. r.addr + r.len - 1 < lim
  BY <1>1, LastInSpan
<1>3. \A b \in DOMAIN img : img[b] \in Byte
  BY ImageFacts
<1>4. Bytes(img, r) \in [Span(r.addr, r.len) -> Byte]
  BY <1>1, <1>3 DEF Bytes
<1>5. ASSUME NEW a \in Nat, NEW n \in Nat \ {0}, a + n - 1 < lim
      PROVE  a \in Ram /\ n \in 1..A0_EXT_END /\ a + n <= A0_EXT_END
  BY <1>5 DEF Ram
<1>6. QED
  BY <1>1, <1>2, <1>4, <1>5

(* What the load is given: the file it works on, and the stage-1's.        *)
LEMMA Files ==
  /\ Stage1 \in Images /\ \A b \in DOMAIN Stage1 : b < A0_INT_END
  /\ \A n \in DOMAIN S1Records : IsRecord(S1Records[n], Stage1)
  /\ S1Records \in Seq([addr : Nat, len : Nat])
  /\ LoaderInv => /\ job.image \in Images
                  /\ job.records \in Seq([addr : Nat, len : Nat])
                  /\ \A n \in DOMAIN job.records : IsRecord(job.records[n], job.image)
<1>1. DOMAIN Stage1 \subseteq Internal
  BY LoaderAssumption
<1>2. \A b \in DOMAIN Stage1 : b < A0_INT_END
  BY <1>1 DEF Internal
<1>3. QED
  BY <1>2, LoaderAssumption DEF Images, LoaderInv

(* So each record of a file that passed the shape checks is a span the     *)
(* guard's transfers range over.                                           *)
LEMMA RecordFits ==
  ASSUME LoaderInv, pc \notin {"start", "done"}, NEW n \in DOMAIN job.records
  PROVE  LET r == job.records[n] IN
           /\ r.addr \in Ram /\ r.addr \in Nat /\ r.len \in 1..A0_EXT_END /\ r.addr + r.len <= A0_EXT_END
           /\ Bytes(job.image, r) \in [Span(r.addr, r.len) -> Byte]
<1>1. \A b \in DOMAIN job.image : b < A0_EXT_END
  BY DEF LoaderInv, Shape
<1>2. job.image \in Images /\ IsRecord(job.records[n], job.image) /\ A0_EXT_END <= A0_EXT_END
  BY Files
<1>3. QED
  BY <1>1, <1>2, RecordBelow

(* The same of the stage-1's records, which lie in internal RAM.           *)
LEMMA Stage1RecordFits ==
  ASSUME NEW n \in DOMAIN S1Records
  PROVE  LET r == S1Records[n] IN
           /\ r.addr \in Ram /\ r.len \in 1..A0_EXT_END /\ r.addr + r.len <= A0_EXT_END
           /\ Bytes(Stage1, r) \in [Span(r.addr, r.len) -> Byte]
BY Files, RecordBelow

(* One record written through A0 is an A0 write of the guard, or refused.  *)
LEMMA RecordWriteIsGuards ==
  ASSUME NEW img, NEW r, WriteRecordA0(r, img),
         r.addr \in Ram, r.len \in 1..A0_EXT_END, r.addr + r.len <= A0_EXT_END,
         Bytes(img, r) \in [Span(r.addr, r.len) -> Byte]
  PROVE  GuardStep
<1>1. CASE Refused(MayWriteA0(r.addr, r.len, Bytes(img, r)))
  BY <1>1 DEF Refused, GuardStep
<1>2. ASSUME NEW ok \in BOOLEAN, NEW T \in SUBSET Span(r.addr, r.len),
             WriteA0(r.addr, r.len, Bytes(img, r), ok, T)
      PROVE  GuardStep
  BY <1>2 DEF GuardStep
<1>3. QED
  BY <1>1, <1>2 DEF WriteRecordA0

(* The loader's bookkeeping keeps LoaderInv.                               *)
LEMMA LoaderInvKept == LoaderInv /\ [FwNext]_all => LoaderInv'
<1>1. SUFFICES ASSUME LoaderInv, [FwNext]_all PROVE LoaderInv'
  OBVIOUS
<1> USE DEF LoaderInv, Shape, Goto, Quit, Bail, Finish, NextRecord, Refused, Counted
<1>2. CASE Start
  BY <1>1, <1>2 DEF Start
<1>3. CASE LoadInWindow
  <2>1. job' = job /\ pc # "start" /\ pc # "done"
    BY <1>3 DEF LoadInWindow, HoldFor, WriteStage1, LoopEnd, ReleaseStage1At, WriteHigh, Skip, ReadBackHigh,
       WriteLow, ReadBackInner, ReleaseFirmwareAt, BailHold, Mismatch, At, WriteRecordA0
  <2>2. k' \in {k, k + 1, 1}
    BY <1>3 DEF LoadInWindow, HoldFor, WriteStage1, LoopEnd, ReleaseStage1At, WriteHigh, Skip, ReadBackHigh,
       WriteLow, ReadBackInner, ReleaseFirmwareAt, BailHold, Mismatch, At, WriteRecordA0
  <2>3. QED
    BY <1>1, <2>1, <2>2
<1>4. CASE Unwind \/ ReopenLoaded \/ SelectPersonality \/ ReadPersonality
  BY <1>1, <1>4 DEF Unwind, ReopenLoaded, SelectPersonality, ReadPersonality
<1>5. CASE DeviceStep /\ UNCHANGED loader
  BY <1>1, <1>5 DEF loader
<1>6. CASE UNCHANGED all
  BY <1>1, <1>6 DEF all, loader
<1>7. QED
  BY <1>1, <1>2, <1>3, <1>4, <1>5, <1>6 DEF FwNext, LoaderStep

(* Each transfer of the load sequence is one of the guard's.               *)
LEMMA LoadStepIsGuards ==
  ASSUME LoaderInv, LoadInWindow
  PROVE  GuardStep \/ UNCHANGED vars
<1> USE DEF LoaderInv
<1>1. ASSUME NEW l, NEW next, HoldFor(l, next) PROVE GuardStep
  BY <1>1 DEF HoldFor, Refused, GuardStep
<1>2. CASE WriteStage1
  <2>1. k \in DOMAIN S1Records
    BY <1>2, AtRecord, Files DEF WriteStage1
  <2>2. QED
    BY <1>2, <2>1, Stage1RecordFits, RecordWriteIsGuards DEF WriteStage1
<1>3. CASE WriteLow
  <2>1. k \in DOMAIN job.records /\ pc = "low"
    BY <1>3, AtRecord, Files DEF WriteLow, At
  <2>2. QED
    BY <1>3, <2>1, RecordFits, RecordWriteIsGuards DEF WriteLow
<1>4. CASE WriteHigh
  <2>1. k \in DOMAIN job.records /\ pc = "a3"
    BY <1>4, AtRecord, Files DEF WriteHigh, At
  <2>2. QED
    <3> DEFINE r == job.records[k]
                d == Bytes(job.image, r)
    <3>1. /\ r.addr \in Ram /\ r.len \in 1..A0_EXT_END /\ r.addr + r.len <= A0_EXT_END
          /\ d \in [Span(r.addr, r.len) -> Byte]
      BY <2>1, RecordFits
    <3>2. \/ \E ok \in BOOLEAN, g \in [Span(r.addr, r.len) -> Byte] : WriteA3(r.addr, r.len, d, ok, g)
          \/ OtherTransfer
      BY <1>4 DEF WriteHigh
    <3> HIDE DEF r, d
    <3>3. QED
      BY <3>1, <3>2 DEF GuardStep
<1>5. CASE ReadBackHigh
  <2>1. k \in DOMAIN job.records /\ pc = "a3back"
    BY <1>5, AtRecord, Files DEF ReadBackHigh, At
  <2>2. QED
    BY <1>5, <2>1, RecordFits DEF ReadBackHigh, GuardStep
<1>6. CASE ReadBackInner
  <2>1. k \in DOMAIN job.records /\ pc = "lowback" /\ IsInner(job.records[k])
    BY <1>6, AtRecord, Files DEF ReadBackInner, At
  <2> DEFINE q == job.records[k]
             r == Inner(q)
             a == r.addr - Lead(r)
             n == r.len + Lead(r)
  <2>2. /\ q.addr \in Nat /\ q.len \in 1..A0_EXT_END
        /\ q.addr + q.len <= A0_EXT_END /\ q.addr < A0_INT_END
    BY <2>1, RecordFits DEF IsInner
  <2>3. r.addr = q.addr /\ r.len = IF q.addr + q.len > A0_INT_END THEN A0_INT_END - q.addr ELSE q.len
    BY DEF Inner
  <2>4. a \in Ram /\ n \in 1..A0_EXT_END /\ a + n <= A0_EXT_END
    <3>1. ASSUME NEW x \in Nat, NEW y \in 1..A0_EXT_END, x + y <= A0_EXT_END, x < A0_INT_END,
                 NEW z, z = IF x + y > A0_INT_END THEN A0_INT_END - x ELSE y
          PROVE  /\ x - (x % 2) \in 0..(A0_EXT_END - 1) /\ z + (x % 2) \in 1..A0_EXT_END
                 /\ (x - (x % 2)) + (z + (x % 2)) <= A0_EXT_END
      BY <3>1
    <3>2. a = q.addr - (q.addr % 2) /\ n = r.len + (q.addr % 2)
      BY <2>3 DEF Lead
    <3> HIDE DEF a, n, r, q
    <3>3. QED
      BY <2>2, <2>3, <3>1, <3>2 DEF Ram
  <2>5. (\E ok \in BOOLEAN : ReadA0(a, n, ok)) \/ OtherTransfer
    BY <1>6 DEF ReadBackInner, Refused
  <2> HIDE DEF q, r, a, n
  <2>6. QED
    BY <2>4, <2>5 DEF GuardStep
<1>7. CASE ReleaseStage1At \/ ReleaseFirmwareAt \/ BailHold
  BY <1>7 DEF ReleaseStage1At, ReleaseFirmwareAt, BailHold, Refused, GuardStep
<1>8. QED
  BY <1>1, <1>2, <1>3, <1>4, <1>5, <1>6, <1>7 DEF LoadInWindow, LoopEnd, Skip, Mismatch

(* Every step of a load is a step of the guard with its device.            *)
LEMMA LoaderStepIsGuards == LoaderInv /\ [FwNext]_all => [Next]_vars
<1>1. SUFFICES ASSUME LoaderInv, [FwNext]_all PROVE Next \/ UNCHANGED vars
  OBVIOUS
<1>2. CASE Start
  <2>1. LoadBegin(Stage1, job.image) \/ UNCHANGED vars
    BY <1>2 DEF Start
  <2>2. Stage1 \in Stage1Candidates /\ job.image \in FwImages
    BY <1>1, LoaderAssumption DEF LoaderInv
  <2>3. QED
    BY <2>1, <2>2 DEF Next, GuardStep
<1>3. CASE LoadInWindow
  BY <1>1, <1>3, LoadStepIsGuards DEF Next
<1>4. CASE Unwind \/ ReopenLoaded \/ SelectPersonality \/ ReadPersonality
  BY <1>4 DEF Unwind, ReopenLoaded, SelectPersonality, ReadPersonality, Next, GuardStep
<1>5. CASE (DeviceStep /\ UNCHANGED loader) \/ UNCHANGED all
  BY <1>5 DEF Next, all
<1>6. QED
  BY <1>1, <1>2, <1>3, <1>4, <1>5 DEF FwNext, LoaderStep

(* A firmware load is a behaviour of the guard with its device.            *)
THEOREM LoaderUsesGuard == FwSpec => Spec
<1>1. FwInit => Init /\ LoaderInv
  BY DEF FwInit, LoaderInv
<1>2. QED
  BY <1>1, LoaderInvKept, LoaderStepIsGuards, PTL DEF FwSpec, Spec

(* So whatever fails during a load, the 8051 runs only vetted code.        *)
THEOREM LoadRunsOnlyVettedCode == FwSpec => []OnlyVettedCode
BY LoaderUsesGuard, OnlyVettedCodeRuns, PTL

-----------------------------------------------------------------------------
(* The loader's books against the guard's. SpanOf: the bytes of a record.  *)
SpanOf(r) == Span(r.addr, r.len)

(* Where the loader is decides the phase the guard is in: fwload.c's       *)
(* header promises that the loader follows the guard's phases exactly.     *)
Where ==
  /\ pc = "hold" => phase = "PH_NEW"
  /\ pc \in {"stage1", "release1"} => phase = "PH_S1_LOAD" /\ held
  /\ pc \in {"a3", "a3back", "hold2", "bail"} => phase = "PH_S1_RUN"
  /\ pc \in {"low", "lowback", "hold3", "release", "mismatch"} => phase = "PH_FW" /\ held
  /\ phase # "none" => fw = job.image /\ s1 = Stage1

(* A status is decided exactly once, never by a refusal; a reported        *)
(* mismatch has left the 8051 held.                                        *)
Decided ==
  /\ res # "FORBIDDEN"
  /\ pc \notin {"bail", "unwind", "done"} => res = "none"
  /\ res = "DEVICE" => pc \in {"unwind", "done"} /\ (attached => cpu = "held")

(* What the final release asks of the guard's books, file by file.         *)
AllWritten == \A b \in DOMAIN job.image : b > A3_MIN_EXCL => b \in a3_conf
AllRead    == \A b \in DOMAIN job.image : b > A3_MIN_EXCL => b \in rb_ext
AllLow     == \A b \in DOMAIN job.image : b <= A3_MIN_EXCL => ShIs(b, job.image[b])
AllInner   == \A b \in DOMAIN job.image : b < A0_INT_END => b \in rb_int

(* The stage-1's loop: every record behind k is in the shadow.             *)
Stage1Books ==
  /\ pc = "stage1" => \A n \in DOMAIN S1Records : n < k => \A b \in SpanOf(S1Records[n]) : ShIs(b, Stage1[b])
  /\ pc = "release1" => S1Resident
(* The two loops above A3_MIN_EXCL: behind k a record is written; read     *)
(* back, it is confirmed unless the loader has counted a difference.       *)
HighBooks ==
  /\ pc = "a3" => \A n \in DOMAIN job.records : n < k /\ IsHigh(job.records[n]) => SpanOf(job.records[n]) \subseteq a3_conf
  /\ pc \in {"a3back", "hold2", "low", "lowback", "hold3", "release"} => AllWritten
  /\ pc = "a3back" /\ ~bad =>
       \A n \in DOMAIN job.records : n < k /\ IsHigh(job.records[n]) => SpanOf(job.records[n]) \subseteq rb_ext
  /\ pc = "hold2" /\ ~bad => AllRead
  /\ pc \in {"low", "lowback", "hold3", "release"} => AllRead
(* The two loops below it: behind k a record is in the shadow; a clean     *)
(* read-back has confirmed its bytes in internal RAM.                      *)
LowBooks ==
  /\ pc = "low" => \A n \in DOMAIN job.records : n < k /\ IsLow(job.records[n]) =>
                     \A b \in SpanOf(job.records[n]) : ShIs(b, job.image[b])
  /\ pc \in {"lowback", "hold3", "release"} => AllLow
  /\ pc = "lowback" /\ ~bad =>
       \A n \in DOMAIN job.records : n < k /\ IsInner(job.records[n]) =>
         \A b \in SpanOf(job.records[n]) : b < A0_INT_END => b \in rb_int
  /\ pc \in {"hold3", "release"} => AllInner
(* Inductive with LoaderInv and the guard's own IndInv: NeverRefused alone *)
(* is not, the final release being admitted on books that four loops have  *)
(* filled.                                                                 *)
BooksInv == Where /\ Decided /\ Stage1Books /\ HighBooks /\ LowBooks

-----------------------------------------------------------------------------
(* A record of a file that passed the shape checks.                        *)
LEMMA RecordIs ==
  ASSUME LoaderInv, pc \notin {"start", "done"}, NEW n \in DOMAIN job.records
  PROVE  LET r == job.records[n] IN
           /\ r.addr \in Nat /\ r.len \in Nat \ {0} /\ r.len <= LOAD_REC_MAX /\ ~Straddles(r)
           /\ SpanOf(r) \subseteq DOMAIN job.image /\ r.addr + r.len <= A0_EXT_END
<1>1. job \in Jobs /\ Shape
  BY DEF LoaderInv
<1>2. IsRecord(job.records[n], job.image) /\ job.records[n].len <= LOAD_REC_MAX
  BY <1>1, LoaderAssumption, ParserAssumption DEF Short
<1>3. ~Straddles(job.records[n])
  BY <1>1 DEF Shape
<1> QED BY <1>2, <1>3, RecordFits DEF IsRecord, SpanOf

(* A byte's record is of the byte's kind.                                  *)
LEMMA ByteHasRecord ==
  ASSUME LoaderInv, pc \notin {"start", "done"}, NEW b \in DOMAIN job.image
  PROVE  \E n \in DOMAIN job.records :
           LET r == job.records[n] IN
           /\ b \in SpanOf(r)
           /\ b <= A3_MIN_EXCL => IsLow(r)
           /\ b > A3_MIN_EXCL => IsHigh(r)
           /\ b < A0_INT_END => IsInner(r)
<1>1. PICK n \in DOMAIN job.records : b \in SpanOf(job.records[n])
  BY ParserAssumption DEF LoaderInv, Covers, SpanOf
<1> DEFINE r == job.records[n]
<1>2. r.addr \in Nat /\ r.len \in Nat \ {0} /\ ~Straddles(r) /\ b \in Nat
  BY <1>1, RecordIs DEF SpanOf, Span
<1> HIDE DEF r
<1>3. b >= r.addr /\ b <= r.addr + r.len - 1
  BY <1>1, <1>2 DEF SpanOf, Span, r
<1>4. /\ b <= A3_MIN_EXCL => IsLow(r)
      /\ b > A3_MIN_EXCL => IsHigh(r)
      /\ b < A0_INT_END => IsInner(r)
  BY <1>2, <1>3 DEF Straddles, IsLow, IsHigh, IsInner
<1> QED BY <1>1, <1>4 DEF r

(* A record of the stage-1 lies in internal RAM.                           *)
LEMMA Stage1RecordIs ==
  ASSUME NEW n \in DOMAIN S1Records
  PROVE  LET r == S1Records[n] IN
           /\ r.addr \in Nat /\ r.len \in Nat \ {0} /\ r.len <= LOAD_REC_MAX
           /\ SpanOf(r) \subseteq DOMAIN Stage1 /\ r.addr + r.len <= A0_INT_END
<1> DEFINE r == S1Records[n]
<1>1. IsRecord(r, Stage1) /\ r.len <= LOAD_REC_MAX
  BY LoaderAssumption, ParserAssumption DEF Short
<1> HIDE DEF r
<1>2. r.addr \in Nat /\ r.len \in Nat \ {0} /\ SpanOf(r) \subseteq DOMAIN Stage1
  BY <1>1 DEF IsRecord, SpanOf
<1>3. r.addr + r.len - 1 \in SpanOf(r)
  BY <1>2, LastInSpan DEF SpanOf
<1>4. r.addr + r.len - 1 < A0_INT_END
  BY <1>2, <1>3, Files
<1> QED BY <1>1, <1>2, <1>4 DEF r

(* Outside the window's loops there is little to keep.                     *)
LEMMA Outside ==
  ASSUME pc' \in {"bail", "unwind", "reopen", "select", "personality", "done"},
         phase' # "none" => fw' = job'.image /\ s1' = Stage1,
         pc' = "bail" => phase' = "PH_S1_RUN",
         Decided'
  PROVE  BooksInv'
BY DEF BooksInv, Where, Stage1Books, HighBooks, LowBooks

(* The window opens on the stage-1 and the file's image.                   *)
LEMMA StartBooks ==
  ASSUME LoaderInv, BooksInv, Start
  PROVE  BooksInv'
<1>1. pc = "start" /\ res = "none"
  BY DEF Start, BooksInv, Decided
<1>2. CASE Shape
  <2>1. IsPinned(Stage1)
    BY LoaderAssumption DEF IsPinned
  <2>2. phase' = "PH_NEW" /\ fw' = job.image /\ s1' = Stage1 /\ job' = job /\ pc' = "hold" /\ res' = "none"
    BY <1>1, <1>2, <2>1 DEF Start, LoadBegin, Window, Goto
  <2> QED BY <2>2 DEF BooksInv, Where, Decided, Stage1Books, HighBooks, LowBooks
<1>3. CASE ~Shape
  <2>1. pc' = "done" /\ res' = "FORMAT" /\ UNCHANGED <<vars, job>>
    BY <1>3 DEF Start
  <2>2. Decided'
    BY <2>1 DEF Decided
  <2> QED BY <2>1, <2>2, Outside DEF BooksInv, Where, vars, win
<1> QED BY <1>2, <1>3

(* A transfer error ends the sequence.                                     *)
LEMMA QuitBooks ==
  ASSUME BooksInv, Quit("XFER"), UNCHANGED <<fw, s1>>, phase' # "none" => phase # "none"
  PROVE  BooksInv'
<1>1. pc' = "unwind" /\ res' = "XFER" /\ job' = job
  BY DEF Quit
<1>2. Decided'
  BY <1>1 DEF Decided
<1> QED BY <1>1, <1>2, Outside DEF BooksInv, Where

(* An error under the stage-1 goes to the hold at bail.                    *)
LEMMA BailBooks ==
  ASSUME BooksInv, Bail("XFER"), UNCHANGED <<fw, s1, phase>>, phase = "PH_S1_RUN"
  PROVE  BooksInv'
<1>1. pc' = "bail" /\ res' = "XFER" /\ job' = job
  BY DEF Bail
<1>2. Decided'
  BY <1>1 DEF Decided
<1> QED BY <1>1, <1>2, Outside DEF BooksInv, Where

(* The files' records are numbered from 1.                                 *)
LEMMA RecordsAreSeqs ==
  LoaderInv => /\ S1Records \in Seq([addr : Nat, len : Nat]) /\ DOMAIN S1Records = 1..Len(S1Records)
               /\ Len(S1Records) \in Nat
               /\ job.records \in Seq([addr : Nat, len : Nat]) /\ DOMAIN job.records = 1..Len(job.records)
               /\ Len(job.records) \in Nat /\ k \in Nat \ {0}
BY Files DEF LoaderInv

(* The three holds: a hold is admitted in every phase of a window.         *)
LEMMA HoldBooks ==
  ASSUME LoaderInv, BooksInv,
         HoldFor("hold", "stage1") \/ HoldFor("hold2", AfterStage1) \/ HoldFor("hold3", "release")
  PROVE  BooksInv'
<1> DEFINE next == IF pc = "hold" THEN "stage1" ELSE IF pc = "hold2" THEN AfterStage1 ELSE "release"
<1>1. pc \in {"hold", "hold2", "hold3"} /\ HoldFor(pc, next)
  BY DEF HoldFor
<1>2. /\ phase # "none" /\ fw = job.image /\ s1 = Stage1 /\ res = "none"
      /\ pc = "hold" => phase = "PH_NEW"
      /\ pc = "hold2" => phase = "PH_S1_RUN"
      /\ pc = "hold3" => phase = "PH_FW"
  BY <1>1 DEF BooksInv, Where, Decided
<1>3. PICK o \in Outcomes : Hold(o) /\ (IF o.ok THEN Goto(next) ELSE Quit("XFER"))
  BY <1>1, <1>2 DEF HoldFor, Refused
<1>4. UNCHANGED <<s1, fw, sh, a3_conf, rb_ext, rb_int, attached>> /\ phase' = PhaseAfterHold(o.ok)
      /\ held' = (held \/ o.ok)
  BY <1>3 DEF Hold, HeldAfterHold
<1>5. CASE ~o.ok
  <2>1. phase' # "none" => phase # "none"
    BY <1>2
  <2> QED BY <1>3, <1>4, <1>5, <2>1, QuitBooks
<1>6. CASE o.ok
  <2>1. pc' = next /\ k' = 1 /\ UNCHANGED <<job, bad, res>> /\ held'
    BY <1>3, <1>4, <1>6 DEF Goto
  <2>2. DOMAIN S1Records = 1..Len(S1Records) /\ DOMAIN job.records = 1..Len(job.records)
    BY RecordsAreSeqs
  <2>3. CASE pc = "hold"
    <3>1. phase' = "PH_S1_LOAD" /\ pc' = "stage1"
      BY <1>2, <1>4, <1>6, <2>1, <2>3 DEF PhaseAfterHold
    <3>2. Where' /\ Decided'
      BY <3>1, <1>2, <1>4, <2>1 DEF Where, Decided
    <3>3. Stage1Books' /\ HighBooks' /\ LowBooks'
      BY <3>1, <2>1, <2>2 DEF Stage1Books, HighBooks, LowBooks
    <3> QED BY <3>2, <3>3 DEF BooksInv
  <2>4. CASE pc = "hold2"
    <3>1. phase' = "PH_FW" /\ pc' = IF bad THEN "mismatch" ELSE "low"
      BY <1>2, <1>4, <2>1, <2>4 DEF PhaseAfterHold, AfterStage1
    <3>2. Where' /\ Decided'
      BY <3>1, <1>2, <1>4, <2>1 DEF Where, Decided
    <3>3. AllWritten' /\ (~bad => AllRead')
      BY <1>4, <2>1, <2>4 DEF BooksInv, HighBooks, AllWritten, AllRead
    <3>4. Stage1Books' /\ HighBooks' /\ LowBooks'
      BY <3>1, <3>3, <2>1, <2>2 DEF Stage1Books, HighBooks, LowBooks
    <3> QED BY <3>2, <3>4 DEF BooksInv
  <2>5. CASE pc = "hold3"
    <3>1. phase' = "PH_FW" /\ pc' = "release"
      BY <1>2, <1>4, <2>1, <2>5 DEF PhaseAfterHold
    <3>2. Where' /\ Decided'
      BY <3>1, <1>2, <1>4, <2>1 DEF Where, Decided
    <3>3. AllWritten' /\ AllRead' /\ AllLow' /\ AllInner'
      BY <1>4, <2>1, <2>5 DEF BooksInv, HighBooks, LowBooks, AllWritten, AllRead, AllLow, AllInner, ShIs
    <3>4. Stage1Books' /\ HighBooks' /\ LowBooks'
      BY <3>1, <3>3 DEF Stage1Books, HighBooks, LowBooks
    <3> QED BY <3>2, <3>4 DEF BooksInv
  <2> QED BY <1>1, <2>3, <2>4, <2>5
<1> QED BY <1>5, <1>6

(* That hold, and the report of a mismatch with the 8051 held.             *)
LEMMA BailHoldBooks ==
  ASSUME BooksInv, BailHold \/ Mismatch, HeldIsHeld
  PROVE  BooksInv'
<1>1. CASE BailHold
  <2>1. pc = "bail" /\ pc' = "unwind" /\ UNCHANGED <<res, job, fw, s1>> /\ phase = "PH_S1_RUN"
    BY <1>1 DEF BailHold, Hold, OtherTransfer, win, BooksInv, Where
  <2>2. Decided'
    BY <2>1 DEF BooksInv, Decided
  <2> QED BY <2>1, <2>2, Outside DEF BooksInv, Where
<1>2. CASE Mismatch
  <2>1. pc = "mismatch" /\ pc' = "unwind" /\ res' = "DEVICE" /\ UNCHANGED <<job, vars>>
    BY <1>2 DEF Mismatch, Quit
  <2>2. attached' => cpu' = "held"
    BY <2>1 DEF BooksInv, Where, HeldIsHeld, vars, win, device
  <2>3. Decided'
    BY <2>1, <2>2 DEF Decided
  <2> QED BY <2>1, <2>3, Outside DEF BooksInv, Where, vars, win
<1> QED BY <1>1, <1>2

(* What a written record adds to the shadow.                               *)
LEMMA ShadowGrows ==
  ASSUME NEW img, NEW r, NEW T, WriteA0(r.addr, r.len, Bytes(img, r), TRUE, T), SpanOf(r) \subseteq Internal
  PROVE  /\ \A b \in SpanOf(r) : b \in Internal /\ sh'[b] = img[b]
         /\ \A b \in Internal : sh[b] = img[b] => sh'[b] = img[b]
<1>1. sh' = [x \in Internal |-> IF x \in SpanOf(r) THEN Bytes(img, r)[x] ELSE sh[x]]
  BY DEF WriteA0, ShadowAfterWrite, SpanOf
<1>2. \A b \in SpanOf(r) : Bytes(img, r)[b] = img[b]
  BY DEF Bytes, SpanOf
<1> QED BY <1>1, <1>2

(* Writing a record of the stage-1 adds it to the shadow.                  *)
LEMMA WriteStage1Books ==
  ASSUME LoaderInv, BooksInv, WriteStage1
  PROVE  BooksInv'
<1> DEFINE r == S1Records[k]
           d == Bytes(Stage1, r)
<1>1. pc = "stage1" /\ k \in DOMAIN S1Records /\ DOMAIN S1Records = 1..Len(S1Records) /\ k \in Nat
      /\ WriteRecordA0(r, Stage1)
  BY RecordsAreSeqs DEF WriteStage1, At
<1>2. phase = "PH_S1_LOAD" /\ held /\ fw = job.image /\ s1 = Stage1 /\ res = "none"
  BY <1>1 DEF BooksInv, Where, Decided
<1>3. /\ r.addr \in Nat /\ r.len \in Nat \ {0} /\ r.len <= LOAD_REC_MAX
      /\ SpanOf(r) \subseteq DOMAIN Stage1 /\ r.addr + r.len <= A0_INT_END
  BY <1>1, Stage1RecordIs
<1>4. MayWriteA0(r.addr, r.len, d)
  BY <1>2, <1>3 DEF MayWriteA0, Matches, Bytes, SpanOf
<1>5. PICK ok \in BOOLEAN, T \in SUBSET Span(r.addr, r.len) :
        WriteA0(r.addr, r.len, d, ok, T) /\ IF ok THEN NextRecord ELSE Quit("XFER")
  BY <1>1, <1>4 DEF WriteRecordA0, Refused
<1> HIDE DEF r, d
<1>6. UNCHANGED <<phase, held, s1, fw>>
  BY <1>5 DEF WriteA0
<1>7. CASE ~ok
  BY <1>2, <1>5, <1>6, <1>7, QuitBooks
<1>8. CASE ok
  <2>1. UNCHANGED <<job, pc, bad, res>> /\ k' = k + 1
    BY <1>5, <1>8 DEF NextRecord
  <2>2. Where' /\ Decided'
    BY <1>1, <1>2, <1>6, <2>1 DEF Where, Decided
  <2>3. DOMAIN Stage1 \subseteq Internal
    BY LoaderAssumption
  <2>4. /\ \A b \in SpanOf(r) : b \in Internal /\ sh'[b] = Stage1[b]
        /\ \A b \in Internal : sh[b] = Stage1[b] => sh'[b] = Stage1[b]
    <3>1. WriteA0(r.addr, r.len, Bytes(Stage1, r), TRUE, T)
      BY <1>5, <1>8 DEF d
    <3> QED BY <3>1, <1>3, <2>3, ShadowGrows
  <2>5. ASSUME NEW n \in DOMAIN S1Records, n < k', NEW b \in SpanOf(S1Records[n])
        PROVE  b \in Internal /\ sh'[b] = Stage1[b]
    <3>1. CASE n < k
      BY <1>1, <2>4, <3>1 DEF BooksInv, Stage1Books, ShIs
    <3>2. CASE n = k
      BY <2>4, <3>2 DEF r
    <3> QED BY <1>1, <2>1, <2>5, <3>1, <3>2
  <2>6. Stage1Books' /\ HighBooks' /\ LowBooks'
    BY <1>1, <2>1, <2>5 DEF Stage1Books, HighBooks, LowBooks, ShIs
  <2> QED BY <2>2, <2>6 DEF BooksInv
<1> QED BY <1>7, <1>8

(* After the last record the shadow holds the stage-1, so that the guard   *)
(* admits its release.                                                     *)
LEMMA Stage1EndBooks ==
  ASSUME LoaderInv, BooksInv, LoopEnd("stage1", S1Records, "release1")
  PROVE  BooksInv'
<1>1. pc = "stage1" /\ pc' = "release1" /\ k > Len(S1Records) /\ UNCHANGED <<job, bad, res, vars>>
  BY DEF LoopEnd, Goto
<1>2. phase = "PH_S1_LOAD" /\ held /\ fw = job.image /\ s1 = Stage1 /\ res = "none"
  BY <1>1 DEF BooksInv, Where, Decided
<1>3. Where' /\ Decided'
  BY <1>1, <1>2 DEF Where, Decided, vars, win
<1>4. S1Resident
  <2> SUFFICES ASSUME NEW b \in DOMAIN Stage1
               PROVE  ShIs(b, Stage1[b])
    BY <1>2 DEF S1Resident
  <2>1. PICK n \in DOMAIN S1Records : b \in SpanOf(S1Records[n])
    BY ParserAssumption DEF Covers, SpanOf
  <2>2. n < k
    BY <1>1, RecordsAreSeqs
  <2> QED BY <1>1, <2>1, <2>2 DEF BooksInv, Stage1Books
<1>5. S1Resident'
  BY <1>1, <1>4 DEF S1Resident, ShIs, vars, win
<1> QED BY <1>1, <1>3, <1>5 DEF BooksInv, Stage1Books, HighBooks, LowBooks

(* The stage-1's release opens A3 and forgets the shadow.                  *)
LEMMA ReleaseStage1Books ==
  ASSUME LoaderInv, BooksInv, ReleaseStage1At
  PROVE  BooksInv'
<1>1. pc = "release1" /\ phase = "PH_S1_LOAD" /\ held /\ fw = job.image /\ s1 = Stage1 /\ res = "none" /\ S1Resident
  BY DEF ReleaseStage1At, BooksInv, Where, Decided, Stage1Books
<1>2. PICK o \in Outcomes : ReleaseStage1(o) /\ (IF o.ok THEN Goto("a3") ELSE Quit("XFER"))
  BY <1>1 DEF ReleaseStage1At, Refused, MayReleaseStage1
<1>3. phase' = "PH_S1_RUN" /\ UNCHANGED <<s1, fw>>
  BY <1>2 DEF ReleaseStage1
<1>4. CASE ~o.ok
  BY <1>1, <1>2, <1>3, <1>4, QuitBooks
<1>5. CASE o.ok
  <2>1. pc' = "a3" /\ k' = 1 /\ UNCHANGED <<job, bad, res>>
    BY <1>2, <1>5 DEF Goto
  <2>2. Where' /\ Decided'
    BY <1>1, <1>3, <2>1 DEF Where, Decided
  <2>3. Stage1Books' /\ HighBooks' /\ LowBooks'
    BY <2>1, RecordsAreSeqs DEF Stage1Books, HighBooks, LowBooks
  <2> QED BY <2>2, <2>3 DEF BooksInv
<1> QED BY <1>4, <1>5

(* An A3 write confirms its record as written.                             *)
LEMMA WriteHighBooks ==
  ASSUME LoaderInv, BooksInv, WriteHigh
  PROVE  BooksInv'
<1> DEFINE r == job.records[k]
           d == Bytes(job.image, r)
<1>1. pc = "a3" /\ k \in DOMAIN job.records /\ DOMAIN job.records = 1..Len(job.records) /\ k \in Nat /\ IsHigh(r)
  BY RecordsAreSeqs DEF WriteHigh, At
<1>2. phase = "PH_S1_RUN" /\ fw = job.image /\ s1 = Stage1 /\ res = "none"
  BY <1>1 DEF BooksInv, Where, Decided
<1>3. /\ r.addr \in Nat /\ r.len \in Nat \ {0} /\ r.len <= LOAD_REC_MAX
      /\ SpanOf(r) \subseteq DOMAIN job.image /\ r.addr + r.len <= A0_EXT_END
  BY <1>1, RecordIs
<1>4. MayA3(r.addr, r.len) /\ Matches(job.image, r.addr, r.len, d)
  BY <1>1, <1>2, <1>3 DEF MayA3, Matches, Bytes, SpanOf, IsHigh
<1>5. PICK ok \in BOOLEAN, g \in [Span(r.addr, r.len) -> Byte] :
        WriteA3(r.addr, r.len, d, ok, g) /\ IF ok THEN NextRecord ELSE Bail("XFER")
  BY <1>1, <1>4 DEF WriteHigh
<1> HIDE DEF r, d
<1>6. /\ UNCHANGED <<phase, held, s1, fw>>
      /\ a3_conf' = IF ok THEN a3_conf \union SpanOf(r) ELSE a3_conf \ SpanOf(r)
  BY <1>5 DEF WriteA3, SpanOf
<1>7. CASE ~ok
  BY <1>2, <1>5, <1>6, <1>7, BailBooks
<1>8. CASE ok
  <2>1. UNCHANGED <<job, pc, bad, res>> /\ k' = k + 1
    BY <1>5, <1>8 DEF NextRecord
  <2>2. Where' /\ Decided'
    BY <1>1, <1>2, <1>6, <2>1 DEF Where, Decided
  <2>3. ASSUME NEW n \in DOMAIN job.records, n < k', IsHigh(job.records[n])
        PROVE  SpanOf(job.records[n]) \subseteq a3_conf'
    <3>1. CASE n < k
      BY <1>1, <1>6, <1>8, <2>3, <3>1 DEF BooksInv, HighBooks
    <3>2. CASE n = k
      BY <1>6, <1>8, <3>2 DEF r
    <3> QED BY <1>1, <2>1, <2>3, <3>1, <3>2
  <2>4. Stage1Books' /\ HighBooks' /\ LowBooks'
    BY <1>1, <2>1, <2>3 DEF Stage1Books, HighBooks, LowBooks
  <2> QED BY <2>2, <2>4 DEF BooksInv
<1> QED BY <1>7, <1>8

(* A record that is not the loop's is left out of what the loop has done.  *)
LEMMA SkipBooks ==
  ASSUME LoaderInv, BooksInv,
         Skip("a3", IsHigh) \/ Skip("a3back", IsHigh) \/ Skip("low", IsLow) \/ Skip("lowback", IsInner)
  PROVE  BooksInv'
<1>1. /\ UNCHANGED <<job, pc, bad, res, vars>> /\ k' = k + 1 /\ k \in Nat
      /\ k \in DOMAIN job.records /\ DOMAIN job.records = 1..Len(job.records) /\ Len(job.records) \in Nat
      /\ pc \in {"a3", "a3back", "low", "lowback"}
      /\ pc \in {"a3", "a3back"} => ~IsHigh(job.records[k])
      /\ pc = "low" => ~IsLow(job.records[k])
      /\ pc = "lowback" => ~IsInner(job.records[k])
  BY RecordsAreSeqs DEF Skip, At, NextRecord
<1>2. UNCHANGED win
  BY <1>1 DEF vars
<1>3. Where' /\ Decided'
  BY <1>1, <1>2 DEF BooksInv, Where, Decided, win
<1>4. \A n \in DOMAIN job.records : n < k' => n < k \/ n = k
  BY <1>1
<1>5. Stage1Books'
  BY <1>1 DEF Stage1Books
<1>6. HighBooks'
  BY <1>1, <1>2, <1>4 DEF BooksInv, HighBooks, AllWritten, AllRead, win
<1>7. LowBooks'
  BY <1>1, <1>2, <1>4 DEF BooksInv, LowBooks, AllLow, AllInner, ShIs, win
<1> QED BY <1>3, <1>5, <1>6, <1>7 DEF BooksInv

(* After the last one every byte above A3_MIN_EXCL is written.             *)
LEMMA HighEndBooks ==
  ASSUME LoaderInv, BooksInv, LoopEnd("a3", job.records, "a3back")
  PROVE  BooksInv'
<1>1. pc = "a3" /\ pc' = "a3back" /\ k > Len(job.records) /\ k' = 1 /\ UNCHANGED <<job, bad, res, vars>>
  BY DEF LoopEnd, Goto
<1>2. UNCHANGED win
  BY <1>1 DEF vars
<1>3. Where' /\ Decided'
  BY <1>1, <1>2 DEF BooksInv, Where, Decided, win
<1>4. AllWritten
  <2> SUFFICES ASSUME NEW b \in DOMAIN job.image, b > A3_MIN_EXCL
               PROVE  b \in a3_conf
    BY DEF AllWritten
  <2>1. PICK n \in DOMAIN job.records : b \in SpanOf(job.records[n]) /\ IsHigh(job.records[n])
    BY <1>1, ByteHasRecord
  <2>2. n < k
    BY <1>1, RecordsAreSeqs
  <2> QED BY <1>1, <2>1, <2>2 DEF BooksInv, HighBooks
<1>5. AllWritten'
  BY <1>1, <1>2, <1>4 DEF AllWritten, win
<1>6. DOMAIN job.records = 1..Len(job.records)
  BY RecordsAreSeqs
<1> QED BY <1>1, <1>3, <1>5, <1>6 DEF BooksInv, Stage1Books, HighBooks, LowBooks

(* A read-back counts every byte that differs.                             *)
LEMMA CountedIs ==
  ASSUME NEW r, Counted(r)
  PROVE  /\ ~bad' => ~bad /\ \A b \in SpanOf(r) : mem[b] = job.image[b]
         /\ k' = k + 1 /\ UNCHANGED <<job, pc, res>>
BY Zenon DEF Counted, SpanOf

(* An A3 read-back confirms its record, or the loader counts a difference. *)
LEMMA ReadBackHighBooks ==
  ASSUME LoaderInv, BooksInv, ReadBackHigh
  PROVE  BooksInv'
<1> DEFINE r == job.records[k]
<1>1. pc = "a3back" /\ k \in DOMAIN job.records /\ DOMAIN job.records = 1..Len(job.records) /\ k \in Nat /\ IsHigh(r)
  BY RecordsAreSeqs DEF ReadBackHigh, At
<1>2. phase = "PH_S1_RUN" /\ fw = job.image /\ s1 = Stage1 /\ res = "none"
  BY <1>1 DEF BooksInv, Where, Decided
<1>3. /\ r.addr \in Nat /\ r.len \in Nat \ {0} /\ r.len <= LOAD_REC_MAX
      /\ SpanOf(r) \subseteq DOMAIN job.image /\ r.addr + r.len <= A0_EXT_END
  BY <1>1, RecordIs
<1>4. MayA3(r.addr, r.len)
  BY <1>1, <1>2, <1>3 DEF MayA3, IsHigh
<1>5. PICK ok \in BOOLEAN : ReadA3(r.addr, r.len, ok) /\ IF ok THEN Counted(r) ELSE Bail("XFER")
  BY <1>1, <1>4 DEF ReadBackHigh
<1> HIDE DEF r
<1>6. /\ UNCHANGED <<phase, held, s1, fw, a3_conf>>
      /\ rb_ext' = IF ok THEN (rb_ext \ Refuted(fw, SpanOf(r), mem)) \union Confirmed(fw, SpanOf(r), mem) ELSE rb_ext
  BY <1>5 DEF ReadA3, SpanOf
<1>7. CASE ~ok
  BY <1>2, <1>5, <1>6, <1>7, BailBooks
<1>8. CASE ok
  <2>1. UNCHANGED <<job, pc, res>> /\ k' = k + 1 /\ (~bad' => ~bad /\ \A b \in SpanOf(r) : mem[b] = job.image[b])
    BY <1>5, <1>8, CountedIs
  <2>2. Where' /\ Decided'
    BY <1>1, <1>2, <1>6, <2>1 DEF Where, Decided
  <2>3. ASSUME ~bad'
        PROVE  SpanOf(r) \subseteq rb_ext' /\ rb_ext \subseteq rb_ext'
    <3>1. Refuted(fw, SpanOf(r), mem) = {} /\ Confirmed(fw, SpanOf(r), mem) = SpanOf(r)
      BY <1>2, <1>3, <2>1, <2>3 DEF Refuted, Confirmed
    <3> QED BY <3>1, <1>6, <1>8
  <2>4. ASSUME ~bad', NEW n \in DOMAIN job.records, n < k', IsHigh(job.records[n])
        PROVE  SpanOf(job.records[n]) \subseteq rb_ext'
    <3>1. CASE n < k
      BY <1>1, <2>1, <2>3, <2>4, <3>1 DEF BooksInv, HighBooks
    <3>2. CASE n = k
      BY <2>3, <2>4, <3>2 DEF r
    <3> QED BY <1>1, <2>1, <2>4, <3>1, <3>2
  <2>5. AllWritten'
    BY <1>1, <1>6, <2>1 DEF BooksInv, HighBooks, AllWritten
  <2>6. Stage1Books' /\ HighBooks' /\ LowBooks'
    BY <1>1, <2>1, <2>4, <2>5 DEF Stage1Books, HighBooks, LowBooks
  <2> QED BY <2>2, <2>6 DEF BooksInv
<1> QED BY <1>7, <1>8

(* After a clean one every byte above A3_MIN_EXCL is confirmed.            *)
LEMMA HighBackEndBooks ==
  ASSUME LoaderInv, BooksInv, LoopEnd("a3back", job.records, AfterHighBack)
  PROVE  BooksInv'
<1>1. pc = "a3back" /\ pc' = "hold2" /\ k > Len(job.records) /\ UNCHANGED <<job, bad, res, vars>>
  BY DEF LoopEnd, Goto, AfterHighBack
<1>2. UNCHANGED win
  BY <1>1 DEF vars
<1>3. Where' /\ Decided'
  BY <1>1, <1>2 DEF BooksInv, Where, Decided, win
<1>4. ASSUME ~bad
      PROVE  AllRead
  <2> SUFFICES ASSUME NEW b \in DOMAIN job.image, b > A3_MIN_EXCL
               PROVE  b \in rb_ext
    BY DEF AllRead
  <2>1. PICK n \in DOMAIN job.records : b \in SpanOf(job.records[n]) /\ IsHigh(job.records[n])
    BY <1>1, ByteHasRecord
  <2>2. n < k
    BY <1>1, RecordsAreSeqs
  <2> QED BY <1>1, <1>4, <2>1, <2>2 DEF BooksInv, HighBooks
<1>5. AllWritten' /\ (~bad' => AllRead')
  BY <1>1, <1>2, <1>4 DEF BooksInv, HighBooks, AllWritten, AllRead, win
<1> QED BY <1>1, <1>3, <1>5 DEF BooksInv, Stage1Books, HighBooks, LowBooks

(* Writing a low record under the held 8051 adds it to the shadow, and     *)
(* takes back what was confirmed of it.                                    *)
LEMMA WriteLowBooks ==
  ASSUME LoaderInv, BooksInv, WriteLow
  PROVE  BooksInv'
<1> DEFINE r == job.records[k]
           d == Bytes(job.image, r)
<1>1. pc = "low" /\ k \in DOMAIN job.records /\ DOMAIN job.records = 1..Len(job.records) /\ k \in Nat /\ IsLow(r)
      /\ WriteRecordA0(r, job.image)
  BY RecordsAreSeqs DEF WriteLow, At
<1>2. phase = "PH_FW" /\ held /\ fw = job.image /\ s1 = Stage1 /\ res = "none"
  BY <1>1 DEF BooksInv, Where, Decided
<1>3. /\ r.addr \in Nat /\ r.len \in Nat \ {0} /\ r.len <= LOAD_REC_MAX /\ ~Straddles(r)
      /\ SpanOf(r) \subseteq DOMAIN job.image
  BY <1>1, RecordIs
<1>4. r.addr + r.len - 1 <= A3_MIN_EXCL
  BY <1>1, <1>3 DEF Straddles, IsLow
<1>5. MayWriteA0(r.addr, r.len, d)
  BY <1>2, <1>3, <1>4 DEF MayWriteA0, Matches, Bytes, SpanOf
<1>6. PICK ok \in BOOLEAN, T \in SUBSET Span(r.addr, r.len) :
        WriteA0(r.addr, r.len, d, ok, T) /\ IF ok THEN NextRecord ELSE Quit("XFER")
  BY <1>1, <1>5 DEF WriteRecordA0, Refused
<1>7. SpanOf(r) \subseteq Internal
  BY <1>3, <1>4 DEF SpanOf, Span, Internal
<1> HIDE DEF r, d
<1>8. UNCHANGED <<phase, held, s1, fw, a3_conf, rb_ext>>
  BY <1>6 DEF WriteA0
<1>9. CASE ~ok
  BY <1>2, <1>6, <1>8, <1>9, QuitBooks
<1>10. CASE ok
  <2>1. UNCHANGED <<job, pc, bad, res>> /\ k' = k + 1
    BY <1>6, <1>10 DEF NextRecord
  <2>2. Where' /\ Decided'
    BY <1>1, <1>2, <1>8, <2>1 DEF Where, Decided
  <2>3. /\ \A b \in SpanOf(r) : b \in Internal /\ sh'[b] = job.image[b]
        /\ \A b \in Internal : sh[b] = job.image[b] => sh'[b] = job.image[b]
    <3>1. WriteA0(r.addr, r.len, Bytes(job.image, r), TRUE, T)
      BY <1>6, <1>10 DEF d
    <3> QED BY <3>1, <1>7, ShadowGrows
  <2>4. ASSUME NEW n \in DOMAIN job.records, n < k', IsLow(job.records[n]), NEW b \in SpanOf(job.records[n])
        PROVE  b \in Internal /\ sh'[b] = job.image[b]
    <3>1. CASE n < k
      BY <1>1, <2>3, <2>4, <3>1 DEF BooksInv, LowBooks, ShIs
    <3>2. CASE n = k
      BY <2>3, <3>2 DEF r
    <3> QED BY <1>1, <2>1, <2>4, <3>1, <3>2
  <2>5. AllWritten' /\ AllRead'
    BY <1>1, <1>8, <2>1 DEF BooksInv, HighBooks, AllWritten, AllRead
  <2>6. Stage1Books' /\ HighBooks' /\ LowBooks'
    BY <1>1, <2>1, <2>4, <2>5 DEF Stage1Books, HighBooks, LowBooks, ShIs
  <2> QED BY <2>2, <2>6 DEF BooksInv
<1> QED BY <1>9, <1>10

(* After the last one the shadow holds every byte at or below A3_MIN_EXCL. *)
LEMMA LowEndBooks ==
  ASSUME LoaderInv, BooksInv, LoopEnd("low", job.records, "lowback")
  PROVE  BooksInv'
<1>1. pc = "low" /\ pc' = "lowback" /\ k > Len(job.records) /\ k' = 1 /\ UNCHANGED <<job, bad, res, vars>>
  BY DEF LoopEnd, Goto
<1>2. UNCHANGED win
  BY <1>1 DEF vars
<1>3. Where' /\ Decided'
  BY <1>1, <1>2 DEF BooksInv, Where, Decided, win
<1>4. AllLow
  <2> SUFFICES ASSUME NEW b \in DOMAIN job.image, b <= A3_MIN_EXCL
               PROVE  ShIs(b, job.image[b])
    BY DEF AllLow
  <2>1. PICK n \in DOMAIN job.records : b \in SpanOf(job.records[n]) /\ IsLow(job.records[n])
    BY <1>1, ByteHasRecord
  <2>2. n < k
    BY <1>1, RecordsAreSeqs
  <2> QED BY <1>1, <2>1, <2>2 DEF BooksInv, LowBooks
<1>5. AllWritten' /\ AllRead' /\ AllLow'
  BY <1>1, <1>2, <1>4 DEF BooksInv, HighBooks, AllWritten, AllRead, AllLow, ShIs, win
<1>6. DOMAIN job.records = 1..Len(job.records)
  BY RecordsAreSeqs
<1> QED BY <1>1, <1>3, <1>5, <1>6 DEF BooksInv, Stage1Books, HighBooks, LowBooks

(* The read of an inner record starts at an even address, so that the boot *)
(* ROM answers with the bytes asked for.                                   *)
LEMMA EvenRead ==
  ASSUME NEW a \in Nat
  PROVE  /\ a - (a % 2) \in Nat /\ (a - (a % 2)) % 2 = 0
         /\ a - (a % 2) <= a /\ a % 2 \in {0, 1}
OBVIOUS

(* A held read-back confirms the record's bytes in internal RAM, or the    *)
(* loader counts a difference; what the read at the odd address adds in    *)
(* front does no harm.                                                     *)
LEMMA ReadBackInnerBooks ==
  ASSUME LoaderInv, IndInv, BooksInv, ReadBackInner
  PROVE  BooksInv'
<1> DEFINE q == job.records[k]
           r == Inner(q)
           a == r.addr - Lead(r)
           n == r.len + Lead(r)
           got == [x \in Span(a, n) |-> BootRead(a, x)]
<1>1. pc = "lowback" /\ k \in DOMAIN job.records /\ DOMAIN job.records = 1..Len(job.records) /\ k \in Nat /\ IsInner(q)
  BY RecordsAreSeqs DEF ReadBackInner, At
<1>2. phase = "PH_FW" /\ held /\ fw = job.image /\ s1 = Stage1 /\ res = "none"
  BY <1>1 DEF BooksInv, Where, Decided
<1>3. q.addr \in Nat /\ q.len \in Nat \ {0} /\ SpanOf(q) \subseteq DOMAIN job.image /\ q.addr < A0_INT_END
  BY <1>1, RecordIs DEF IsInner
<1>4. r.addr = q.addr /\ r.len = (IF q.addr + q.len > A0_INT_END THEN A0_INT_END - q.addr ELSE q.len)
  BY DEF Inner
<1>5. /\ a = q.addr - (q.addr % 2) /\ n = r.len + (q.addr % 2)
      /\ a \in Nat /\ a % 2 = 0 /\ a <= q.addr /\ a + n = q.addr + r.len
  <2>1. q.addr - (q.addr % 2) \in Nat /\ (q.addr - (q.addr % 2)) % 2 = 0 /\ q.addr - (q.addr % 2) <= q.addr
        /\ q.addr % 2 \in {0, 1}
    BY <1>3, EvenRead
  <2>2. a = q.addr - (q.addr % 2) /\ n = r.len + (q.addr % 2)
    BY <1>4 DEF Lead
  <2>3. r.len \in Nat
    BY <1>3, <1>4
  <2> HIDE DEF a, n, q, r
  <2> QED BY <2>1, <2>2, <2>3, <1>3
<1>6. /\ SpanOf(r) \subseteq SpanOf(q) /\ SpanOf(r) \subseteq Span(a, n) /\ a + n <= A0_INT_END
      /\ \A b \in SpanOf(q) : b < A0_INT_END => b \in SpanOf(r)
  <2> HIDE DEF a, n, q, r
  <2>1. r.addr \in Nat /\ r.len \in Nat /\ n \in Int /\ r.addr + r.len <= A0_INT_END /\ r.addr + r.len <= q.addr + q.len
    BY <1>3, <1>4, <1>5
  <2> QED BY <2>1, <1>3, <1>4, <1>5 DEF SpanOf, Span
<1>7. PICK ok \in BOOLEAN : ReadA0(a, n, ok) /\ (IF ok THEN Counted(r) ELSE Quit("XFER"))
  BY <1>1, <1>2, <1>5 DEF ReadBackInner, Refused, MayReadA0
<1> HIDE DEF a, n, q, r
<1>8. /\ UNCHANGED <<phase, held, s1, fw, sh, a3_conf, rb_ext>>
      /\ ok => attached
      /\ ok => rb_int' = (rb_int \ Refuted(fw, Span(a, n), got)) \union Confirmed(fw, Span(a, n), got)
  BY <1>2, <1>6, <1>7 DEF ReadA0, CountsAsReadBack
<1>9. CASE ~ok
  BY <1>2, <1>7, <1>8, <1>9, QuitBooks
<1>10. CASE ok
  <2>1. UNCHANGED <<job, pc, res>> /\ k' = k + 1 /\ (~bad' => ~bad /\ \A b \in SpanOf(r) : mem[b] = job.image[b])
    BY <1>7, <1>10, CountedIs
  <2>2. Where' /\ Decided'
    BY <1>1, <1>2, <1>8, <2>1 DEF Where, Decided
  <2>3. \A x \in Span(a, n) : got[x] = mem[x]
    <3>1. ASSUME NEW x \in Span(a, n)
          PROVE  got[x] = mem[x]
      <4>1. x \in Int /\ x - 0 = x
        BY <1>5 DEF Span
      <4>2. got[x] = mem[x - (a % 2)]
        BY DEF BootRead
      <4> QED BY <4>1, <4>2, <1>5
    <3> QED BY <3>1
  <2>4. rb_int \subseteq rb_int'
    <3>1. \A x \in rb_int : x \in DOMAIN fw /\ mem[x] = fw[x]
      BY <1>8, <1>10 DEF IndInv, ReadBackIsTrue
    <3>2. \A x \in rb_int : x \notin Refuted(fw, Span(a, n), got)
      BY <3>1, <2>3 DEF Refuted
    <3> QED BY <3>2, <1>8, <1>10
  <2>5. ASSUME ~bad'
        PROVE  SpanOf(r) \subseteq rb_int'
    <3>1. \A x \in SpanOf(r) : x \in Span(a, n) /\ x \in DOMAIN fw /\ got[x] = fw[x]
      BY <1>2, <1>3, <1>6, <2>1, <2>3, <2>5
    <3>2. SpanOf(r) \subseteq Confirmed(fw, Span(a, n), got)
      BY <3>1 DEF Confirmed
    <3> QED BY <3>2, <1>8, <1>10
  <2>6. ASSUME ~bad', NEW i \in DOMAIN job.records, i < k', IsInner(job.records[i]),
               NEW b \in SpanOf(job.records[i]), b < A0_INT_END
        PROVE  b \in rb_int'
    <3>1. CASE i < k
      BY <1>1, <2>1, <2>4, <2>6, <3>1 DEF BooksInv, LowBooks
    <3>2. CASE i = k
      BY <1>6, <2>5, <2>6, <3>2 DEF q
    <3> QED BY <1>1, <2>1, <2>6, <3>1, <3>2
  <2>7. AllWritten' /\ AllRead' /\ AllLow'
    BY <1>1, <1>8, <2>1 DEF BooksInv, HighBooks, LowBooks, AllWritten, AllRead, AllLow, ShIs
  <2>8. Stage1Books' /\ HighBooks' /\ LowBooks'
    BY <1>1, <2>1, <2>6, <2>7 DEF Stage1Books, HighBooks, LowBooks
  <2> QED BY <2>2, <2>8 DEF BooksInv
<1> QED BY <1>9, <1>10

(* After a clean one the guard's books ask for nothing more.               *)
LEMMA LowBackEndBooks ==
  ASSUME LoaderInv, BooksInv, LoopEnd("lowback", job.records, AfterLowBack)
  PROVE  BooksInv'
<1>1. /\ pc = "lowback" /\ pc' = (IF bad THEN "mismatch" ELSE "hold3") /\ k > Len(job.records)
      /\ UNCHANGED <<job, bad, res, vars>>
  BY DEF LoopEnd, Goto, AfterLowBack
<1>2. UNCHANGED win
  BY <1>1 DEF vars
<1>3. Where' /\ Decided'
  BY <1>1, <1>2 DEF BooksInv, Where, Decided, win
<1>4. ASSUME ~bad
      PROVE  AllInner
  <2> SUFFICES ASSUME NEW b \in DOMAIN job.image, b < A0_INT_END
               PROVE  b \in rb_int
    BY DEF AllInner
  <2>1. PICK n \in DOMAIN job.records : b \in SpanOf(job.records[n]) /\ IsInner(job.records[n])
    BY <1>1, ByteHasRecord
  <2>2. n < k
    BY <1>1, RecordsAreSeqs
  <2> QED BY <1>1, <1>4, <2>1, <2>2 DEF BooksInv, LowBooks
<1>5. AllWritten' /\ AllRead' /\ AllLow' /\ (~bad' => AllInner')
  BY <1>1, <1>2, <1>4 DEF BooksInv, HighBooks, LowBooks, AllWritten, AllRead, AllLow, AllInner, ShIs, win
<1> QED BY <1>1, <1>3, <1>5 DEF BooksInv, Stage1Books, HighBooks, LowBooks

(* All that the final release asks for is in the guard's books.            *)
LEMMA ReleaseFirmwareBooks ==
  ASSUME LoaderInv, BooksInv, ReleaseFirmwareAt
  PROVE  BooksInv'
<1>1. /\ pc = "release" /\ phase = "PH_FW" /\ held /\ fw = job.image /\ s1 = Stage1 /\ res = "none"
      /\ AllWritten /\ AllRead /\ AllLow /\ AllInner
  BY DEF ReleaseFirmwareAt, BooksInv, Where, Decided, HighBooks, LowBooks
<1>2. \A b \in DOMAIN job.image : b < A0_EXT_END
  BY <1>1 DEF LoaderInv, Shape
<1>3. FwComplete
  BY <1>1, <1>2 DEF FwComplete, AllWritten, AllRead, AllLow, AllInner
<1>4. PICK o \in Outcomes : ReleaseFirmware(o) /\ (IF o.ok THEN Goto("unwind") ELSE Quit("XFER"))
  BY <1>1, <1>3 DEF ReleaseFirmwareAt, Refused, MayReleaseFirmware
<1>5. phase' = "none"
  BY <1>4 DEF ReleaseFirmware, FreeWindow, Window
<1>6. pc' = "unwind" /\ job' = job /\ res' \in {"none", "XFER"}
  BY <1>1, <1>4 DEF Goto, Quit
<1>7. Decided'
  BY <1>6 DEF Decided
<1> QED BY <1>5, <1>6, <1>7, Outside

(* Past the window, and the steps of the device: the books are closed, and *)
(* a mismatch that was reported stays one with the 8051 held.              *)
LEMMA UnwindBooks ==
  ASSUME LoaderInv, BooksInv, Unwind
  PROVE  BooksInv'
<1>1. /\ pc = "unwind" /\ phase' = "none" /\ UNCHANGED <<device, job, res>>
      /\ pc' = IF res = "none" THEN "reopen" ELSE "done"
  BY DEF Unwind, LoadEnd, FreeWindow, Window, Goto
<1>2. Decided'
  BY <1>1 DEF BooksInv, Decided, device
<1> QED BY <1>1, <1>2, Outside

(* The reopen under the loaded identity.                                   *)
LEMMA ReopenBooks ==
  ASSUME LoaderInv, BooksInv, ReopenLoaded
  PROVE  BooksInv'
<1>1. PICK found \in BOOLEAN : Reopen(found) /\ (IF found THEN Goto("select") ELSE Finish("NOT_FOUND"))
  BY DEF ReopenLoaded
<1>2. phase' = "none" /\ res = "none"
  BY <1>1 DEF ReopenLoaded, Reopen, FreeWindow, Window, BooksInv, Decided
<1>3. pc' \in {"select", "done"} /\ res' \in {"none", "NOT_FOUND"} /\ (pc' = "select" => res' = "none")
  BY <1>1, <1>2 DEF Goto, Finish
<1>4. Decided'
  BY <1>3 DEF Decided
<1> QED BY <1>2, <1>3, <1>4, Outside

(* The selection of the personality memory.                                *)
LEMMA SelectBooks ==
  ASSUME LoaderInv, BooksInv, SelectPersonality
  PROVE  BooksInv'
<1>1. PICK o \in Outcomes :
        Select("A3", o) /\ (IF o.ok THEN Goto("personality") ELSE Finish("LOADED_UNVERIFIED"))
  BY DEF SelectPersonality
<1>2. UNCHANGED <<win, job>> /\ res = "none"
  BY <1>1 DEF SelectPersonality, Select, Goto, Finish, BooksInv, Decided
<1>3. /\ pc' \in {"personality", "done"} /\ res' \in {"none", "LOADED_UNVERIFIED"}
      /\ pc' = "personality" => res' = "none"
  BY <1>1, <1>2 DEF Goto, Finish
<1>4. Decided'
  BY <1>3 DEF Decided
<1> QED BY <1>2, <1>3, <1>4, Outside DEF win, BooksInv, Where

(* The personality read decides the status.                                *)
LEMMA PersonalityBooks ==
  ASSUME LoaderInv, BooksInv, ReadPersonality
  PROVE  BooksInv'
<1>1. /\ UNCHANGED <<win, job>> /\ pc' = "done"
      /\ res' \in {"OK", "FIRMWARE_MISMATCH", "LOADED_UNVERIFIED"}
  BY DEF ReadPersonality, Verdict, Finish, vars
<1>2. Decided'
  BY <1>1 DEF Decided
<1> QED BY <1>1, <1>2, Outside DEF win, BooksInv, Where

(* The device touches none of the books; once unplugged it is not attached *)
(* again.                                                                  *)
LEMMA DeviceBooks ==
  ASSUME LoaderInv, BooksInv, DeviceStep, UNCHANGED loader
  PROVE  BooksInv'
<1>1. /\ UNCHANGED <<phase, held, s1, fw, sh, a3_conf, rb_ext, rb_int, job, pc, k, bad, res>>
      /\ attached' => attached /\ cpu' = cpu
  BY DEF DeviceStep, RunCode, Detach, PowerCycle, win, loader
<1>2. Where' /\ Stage1Books' /\ HighBooks' /\ LowBooks'
  BY <1>1 DEF BooksInv, Where, Stage1Books, HighBooks, LowBooks, S1Resident, ShIs,
              AllWritten, AllRead, AllLow, AllInner
<1>3. Decided'
  BY <1>1 DEF BooksInv, Decided
<1> QED BY <1>2, <1>3 DEF BooksInv

(* Stuttering.                                                             *)
LEMMA StutterBooks ==
  ASSUME BooksInv, UNCHANGED all
  PROVE  BooksInv'
BY DEF all, vars, win, device, loader, BooksInv, Where, Decided, Stage1Books, HighBooks, LowBooks, S1Resident,
       ShIs, AllWritten, AllRead, AllLow, AllInner

(* Every step keeps the books.                                             *)
LEMMA BooksKept == LoaderInv /\ IndInv /\ BooksInv /\ [FwNext]_all => BooksInv'
<1> SUFFICES ASSUME LoaderInv, IndInv, BooksInv, [FwNext]_all PROVE BooksInv'
  OBVIOUS
<1>1. CASE LoadInWindow
  <2>1. HeldIsHeld
    BY DEF IndInv
  <2> QED
    BY <1>1, <2>1, HoldBooks, BailHoldBooks, WriteStage1Books, Stage1EndBooks, ReleaseStage1Books, WriteHighBooks,
       SkipBooks, HighEndBooks, ReadBackHighBooks, HighBackEndBooks, WriteLowBooks, LowEndBooks,
       ReadBackInnerBooks, LowBackEndBooks, ReleaseFirmwareBooks DEF LoadInWindow
<1>2. CASE LoaderStep /\ ~LoadInWindow
  BY <1>2, StartBooks, UnwindBooks, ReopenBooks, SelectBooks, PersonalityBooks DEF LoaderStep
<1>3. CASE DeviceStep /\ UNCHANGED loader
  BY <1>3, DeviceBooks
<1>4. CASE UNCHANGED all
  BY <1>4, StutterBooks
<1> QED BY <1>1, <1>2, <1>3, <1>4 DEF FwNext

(* At the start there is nothing to keep.                                  *)
LEMMA BooksOpen == FwInit => BooksInv
BY DEF FwInit, Init, BooksInv, Where, Decided, Stage1Books, HighBooks, LowBooks


(* Whether a read-back has counted a difference is a Boolean.              *)
LEMMA CountedTypes ==
  ASSUME bad \in BOOLEAN, LoadInWindow
  PROVE  bad' \in BOOLEAN
<1>1. bad' = bad \/ \E r : Counted(r)
  BY DEF LoadInWindow, HoldFor, WriteStage1, LoopEnd, ReleaseStage1At, WriteHigh, Skip, ReadBackHigh,
     WriteLow, ReadBackInner, ReleaseFirmwareAt, BailHold, Mismatch, WriteRecordA0,
     Goto, Quit, Bail, NextRecord, Refused
<1>2. CASE bad' = bad
  BY <1>2
<1>3. ASSUME NEW r, Counted(r) PROVE bad' \in BOOLEAN
  <2>1. CASE bad \/ \E b \in Span(r.addr, r.len) : mem[b] # job.image[b]
    <3>1. bad' = TRUE
      BY <1>3, <2>1, Zenon DEF Counted
    <3> QED BY <3>1, Zenon
  <2>2. CASE ~(bad \/ \E b \in Span(r.addr, r.len) : mem[b] # job.image[b])
    <3>1. bad' = FALSE
      BY <1>3, <2>2, Zenon DEF Counted
    <3> QED BY <3>1, Zenon
  <2> QED BY <2>1, <2>2
<1> QED BY <1>1, <1>2, <1>3

(* The labels of load_in_window, and the statuses a load reports.          *)
Labels == {"start", "hold", "stage1", "release1", "a3", "a3back", "hold2", "low", "lowback", "hold3",
           "release", "mismatch", "bail", "unwind", "reopen", "select", "personality", "done"}
Statuses == {"none", "FORMAT", "XFER", "FORBIDDEN", "DEVICE", "NOT_FOUND", "LOADED_UNVERIFIED", "OK",
             "FIRMWARE_MISMATCH"}
(* The types of what the loader itself keeps.                              *)
OwnTypes == bad \in BOOLEAN /\ pc \in Labels /\ res \in Statuses

(* The load sequence goes only to labels, with statuses.                   *)
LEMMA LabelsKept ==
  ASSUME OwnTypes, LoadInWindow
  PROVE  pc' \in Labels /\ res' \in Statuses
<1>1. \/ UNCHANGED <<pc, res>>
      \/ \E r \in Statuses : Quit(r)
      \/ \E r \in Statuses : Bail(r)
      \/ \E l \in Labels : Goto(l)
      \/ BailHold
  BY DEF LoadInWindow, HoldFor, WriteStage1, LoopEnd, ReleaseStage1At, WriteHigh, Skip, ReadBackHigh,
     WriteLow, ReadBackInner, ReleaseFirmwareAt, Mismatch, WriteRecordA0, Counted, NextRecord, Refused,
     AfterStage1, AfterHighBack, AfterLowBack, Labels, Statuses
<1> QED BY <1>1 DEF OwnTypes, Quit, Bail, Goto, BailHold, Labels, Statuses

(* So does every step.                                                     *)
LEMMA OwnTypesKept == OwnTypes /\ [FwNext]_all => OwnTypes'
<1> SUFFICES ASSUME OwnTypes, [FwNext]_all PROVE OwnTypes'
  OBVIOUS
<1>1. CASE LoadInWindow
  <2>1. bad \in BOOLEAN
    BY DEF OwnTypes
  <2>2. bad' \in BOOLEAN
    BY <1>1, <2>1, CountedTypes
  <2> QED BY <1>1, <2>2, LabelsKept, Zenon DEF OwnTypes
<1>2. CASE LoaderStep /\ ~LoadInWindow
  <2>1. bad' = bad /\ pc' \in Labels /\ res' \in Statuses
    BY <1>2 DEF OwnTypes, LoaderStep, Start, Unwind, ReopenLoaded, SelectPersonality, ReadPersonality, Goto, Finish,
       Verdict, Labels, Statuses
  <2> QED BY <2>1 DEF OwnTypes
<1>3. CASE UNCHANGED loader
  BY <1>3 DEF OwnTypes, loader
<1> QED BY <1>1, <1>2, <1>3 DEF FwNext, all

(* Success is only ever told by an answer of the loaded firmware.          *)
LEMMA OkStep ==
  ASSUME BooksInv, [FwNext]_all, res' \in {"OK", "FIRMWARE_MISMATCH"}, res # res'
  PROVE  cpu = "firmware"
<1>1. CASE ReadPersonality
  BY <1>1 DEF ReadPersonality, Verdict, Finish
<1>2. CASE LoadInWindow
  <2>1. \/ res' = res \/ res' \in {"XFER", "FORBIDDEN", "DEVICE"}
    BY <1>2 DEF LoadInWindow, HoldFor, WriteStage1, LoopEnd, ReleaseStage1At, WriteHigh, Skip, ReadBackHigh,
       WriteLow, ReadBackInner, ReleaseFirmwareAt, BailHold, Mismatch, WriteRecordA0, Counted,
       Goto, Quit, Bail, NextRecord, Refused
  <2> QED BY <2>1
<1>3. CASE Start \/ Unwind \/ ReopenLoaded \/ SelectPersonality
  BY <1>3 DEF Start, Unwind, ReopenLoaded, SelectPersonality, Goto, Finish
<1>4. CASE UNCHANGED loader
  BY <1>4 DEF loader
<1> QED BY <1>1, <1>2, <1>3, <1>4 DEF FwNext, LoaderStep, all

-----------------------------------------------------------------------------
(* The loader's books are true at every step of every load, whichever      *)
(* transfers fail and whatever the device does meanwhile.                  *)
THEOREM LoadKeepsBooks == FwSpec => [](LoaderInv /\ IndInv /\ OwnTypes /\ BooksInv)
<1>1. FwInit => LoaderInv /\ BooksInv
  BY BooksOpen DEF FwInit, LoaderInv
<1>2. FwInit => OwnTypes
  BY DEF FwInit, OwnTypes, Labels, Statuses
<1>3. FwSpec => []IndInv
  BY LoaderUsesGuard, Invariance, PTL
<1> QED
  BY <1>1, <1>2, <1>3, LoaderInvKept, OwnTypesKept, BooksKept, PTL DEF FwSpec

(* The books are all that LoaderSafe asks for.                             *)
LEMMA BooksSuffice == LoaderInv /\ IndInv /\ OwnTypes /\ BooksInv => LoaderSafe
<1> SUFFICES ASSUME LoaderInv, IndInv, OwnTypes, BooksInv PROVE LoaderSafe
  OBVIOUS
<1>1. TypeOK
  BY DEF IndInv
<1>2. bad \in BOOLEAN
  BY DEF OwnTypes
<1>3. LoaderTypeOK
  BY <1>1, <1>2, Zenon DEF LoaderTypeOK, LoaderInv, OwnTypes, Labels, Statuses
<1>4. NeverRefused /\ MismatchStaysHeld
  BY DEF BooksInv, Decided, NeverRefused, MismatchStaysHeld
<1> QED BY <1>3, <1>4 DEF LoaderSafe

(* LoaderSafe: the guard never refuses a transfer of the loader, which     *)
(* follows its phases exactly and finds its read-back clean only where the *)
(* guard has confirmed the file; and a mismatch stays with the 8051 held   *)
(* (fwload.c, load_in_window).                                             *)
THEOREM LoaderIsSafe == FwSpec => []LoaderSafe
BY LoadKeepsBooks, BooksSuffice, PTL

(* OkMeansLoaded: a load that reports success has left the scanner running *)
(* the firmware (pk_device_load_firmware's last answer).                   *)
THEOREM OkLoadsRun == FwSpec => OkMeansLoaded
<1>1. BooksInv /\ [FwNext]_all => [res' \in {"OK", "FIRMWARE_MISMATCH"} /\ res # res' => cpu = "firmware"]_all
  BY OkStep
<1> QED BY <1>1, LoadKeepsBooks, PTL DEF FwSpec, OkMeansLoaded
=============================================================================
