-------------------------------- MODULE Guard --------------------------------
(***************************************************************************)
(* The guarded transport (core/src/link/guard.c): the only holder of the   *)
(* raw USB transport, which vets every control transfer.  Its load window  *)
(* is the state machine by which firmware may enter the scanner's 8051.    *)
(*                                                                         *)
(* The caller is arbitrary: any control transfer, with any data, in any    *)
(* order.  The module composes the guard with the device it protects: RAM, *)
(* the 8051, the personality selection of the loaded firmware, the cable.  *)
(* A transfer may fail with or without having taken effect; a write that   *)
(* fails may have stored some of its bytes.                                *)
(***************************************************************************)
EXTENDS Integers

CONSTANTS
  Byte,              \* values of a byte
  Unset,             \* sh_set bit clear: the shadow does not know the byte
  Stage1,            \* the pinned stage-1, a function from addresses to bytes
  Stage1Candidates,  \* stage-1 images a caller may offer, the pinned one among them
  FwImages,          \* firmware images a caller may offer
  A3_MIN_EXCL,       \* A0 at or below it, A3 only above it (0x1B3F)
  A0_INT_END,        \* internal RAM ends below it (0x4000)
  A0_EXT_END,        \* A3 never reaches it (0xE000); the RAM modelled ends here
  LOAD_REC_MAX       \* longest load transfer (16)

Images == Stage1Candidates \union FwImages

ASSUME GuardAssumption ==
  /\ A3_MIN_EXCL \in Nat /\ A0_INT_END \in Nat /\ A0_EXT_END \in Nat
  /\ A3_MIN_EXCL < A0_INT_END /\ A0_INT_END <= A0_EXT_END
  /\ LOAD_REC_MAX \in Nat \ {0}
  /\ Unset \notin Byte
  /\ Stage1 \in Stage1Candidates
  /\ \A img \in Images : DOMAIN img \subseteq Nat /\ img \in [DOMAIN img -> Byte]

Ram      == 0..(A0_EXT_END - 1)
Internal == 0..(A0_INT_END - 1)
Span(a, n) == a..(a + n - 1)
NoImage  == [x \in {} |-> Unset]
Blank    == [x \in Internal |-> Unset]

VARIABLES
  phase,    \* win.phase, or "none" while gst.w is NULL
  held,     \* win.held
  s1, fw,   \* win.s1, win.fw
  sh,       \* win.sh and win.sh_set: shadow of the internal RAM
  a3_conf,  \* win.a3_conf: addresses A3-written with success
  rb_ext,   \* win.rb_ext: addresses whose last A3 read-back was equal
  rb_int,   \* win.rb_int: addresses whose last held A0 read-back was equal
  a4,       \* gst.a4: the A4 selection a following A9 IN relies on
  mem,      \* the device's RAM
  cpu,      \* what its 8051 does
  sel,      \* the personality memory the running firmware has selected
  attached  \* the guard's handle reaches the device

win    == <<phase, held, s1, fw, sh, a3_conf, rb_ext, rb_int>>
device == <<mem, cpu, sel, attached>>
vars   == <<win, a4, device>>

Phase == {"none", "PH_NEW", "PH_S1_LOAD", "PH_S1_RUN", "PH_FW"}
Selection == {"none", "A5", "A3"}
Cpu == {"boot", "held", "stage1", "firmware", "unvetted"}

(* Every byte an image uses lies in RAM with the image's value.            *)
Holds(img) == \A x \in DOMAIN img : x \in Ram /\ mem[x] = img[x]

(* A control transfer either succeeds, or fails after taking effect, or    *)
(* fails without effect; nothing takes effect through a dead handle.       *)
Outcomes == {o \in [ok : BOOLEAN, took : BOOLEAN] : (o.ok => o.took) /\ (o.took => attached)}

-----------------------------------------------------------------------------
(* Init: the guard has just been opened (guard_new) on a device that runs  *)
(* its boot ROM and whose RAM holds anything.                              *)
Init ==
  /\ phase = "none" /\ held = FALSE /\ s1 = NoImage /\ fw = NoImage /\ sh = Blank
  /\ a3_conf = {} /\ rb_ext = {} /\ rb_int = {}
  /\ a4 = "none"
  /\ mem \in [Ram -> Byte] /\ cpu = "boot" /\ sel = "none" /\ attached = TRUE

(* free(g->w); g->w = NULL, and a window just opened on the images i, f.   *)
Window(ph, i, f) ==
  /\ phase' = ph /\ held' = FALSE /\ s1' = i /\ fw' = f /\ sh' = Blank
  /\ a3_conf' = {} /\ rb_ext' = {} /\ rb_int' = {}

FreeWindow == Window("none", NoImage, NoImage)

(* The pin: only Kodak's stage-1, which lies in internal RAM.              *)
IsPinned(i) == i = Stage1 /\ DOMAIN i \subseteq Internal

LoadBegin(i, f) ==
  /\ IF IsPinned(i) THEN Window("PH_NEW", i, f) ELSE FreeWindow
  /\ a4' = "none"
  /\ UNCHANGED device

LoadEnd ==
  /\ FreeWindow
  /\ a4' = "none"
  /\ UNCHANGED device

-----------------------------------------------------------------------------
(* matches_image: the bytes d at a..a+n-1 are the image's.                 *)
Matches(img, a, n, d) == \A x \in Span(a, n) : x \in DOMAIN img /\ img[x] = d[x]

ShIs(x, v) == x \in Internal /\ sh[x] = v

S1Resident == \A x \in DOMAIN s1 : x \in Internal => ShIs(x, s1[x])

FwComplete_NoHeldReadBack ==
  \A x \in DOMAIN fw :
    IF x <= A3_MIN_EXCL THEN ShIs(x, fw[x])
                        ELSE x < A0_EXT_END /\ x \in a3_conf /\ x \in rb_ext

FwComplete ==
  \A x \in DOMAIN fw :
    /\ x <= A3_MIN_EXCL => ShIs(x, fw[x])
    /\ x > A3_MIN_EXCL => x < A0_EXT_END /\ x \in a3_conf /\ x \in rb_ext
    /\ x < A0_INT_END => x \in rb_int

(* A0 write of CPUCS_HOLD.  Restricting before the transfer: a hold ends   *)
(* the stage-1 run for good.  Permitting only after success.               *)
PhaseAfterHold(ok) ==
  IF phase = "PH_S1_RUN" THEN "PH_FW"
  ELSE IF phase = "PH_NEW" /\ ok THEN "PH_S1_LOAD" ELSE phase

HeldAfterHold(ok) == held \/ ok

Hold(o) ==
  /\ phase # "none"
  /\ phase' = PhaseAfterHold(o.ok)
  /\ held' = HeldAfterHold(o.ok)
  /\ a4' = "none"
  /\ cpu' = IF o.took THEN "held" ELSE cpu
  /\ sel' = IF o.took THEN "none" ELSE sel
  /\ UNCHANGED <<s1, fw, sh, a3_conf, rb_ext, rb_int, mem, attached>>

(* What the 8051 does once released over the RAM as it is.                 *)
Released(o, label, img) ==
  cpu' = IF o.took THEN (IF Holds(img) THEN label ELSE "unvetted") ELSE cpu

(* A0 write of CPUCS_RELEASE while the stage-1 is being written.           *)
MayReleaseStage1 == phase = "PH_S1_LOAD" /\ held /\ S1Resident

ReleaseStage1(o) ==
  /\ MayReleaseStage1
  /\ phase' = "PH_S1_RUN" /\ held' = FALSE /\ sh' = Blank
  /\ a4' = "none"
  /\ Released(o, "stage1", Stage1)
  /\ UNCHANGED <<s1, fw, a3_conf, rb_ext, rb_int, mem, sel, attached>>

(* The final release.  The window closes however the transfer ends.        *)
MayReleaseFirmware == phase = "PH_FW" /\ held /\ FwComplete

ReleaseFirmware(o) ==
  /\ MayReleaseFirmware
  /\ FreeWindow
  /\ a4' = "none"
  /\ Released(o, "firmware", fw)
  /\ UNCHANGED <<mem, sel, attached>>

-----------------------------------------------------------------------------
(* A0 write of RAM: the boot ROM stores what it acknowledges; a failed     *)
(* write has stored the bytes at T and not the others.                     *)
MayWriteA0(a, n, d) ==
  /\ phase # "none" /\ held /\ n <= LOAD_REC_MAX
  /\ \/ phase = "PH_S1_LOAD" /\ a + n <= A0_INT_END /\ Matches(s1, a, n, d)
     \/ phase = "PH_FW" /\ a + n - 1 <= A3_MIN_EXCL /\ Matches(fw, a, n, d)

ShadowAfterWrite(a, n, d, ok) ==
  [x \in Internal |-> IF x \in Span(a, n) THEN (IF ok THEN d[x] ELSE Unset) ELSE sh[x]]

WriteA0(a, n, d, ok, T) ==
  /\ MayWriteA0(a, n, d)
  /\ ok => attached /\ T = Span(a, n)
  /\ ~attached => T = {}
  /\ sh' = ShadowAfterWrite(a, n, d, ok)
  /\ rb_int' = rb_int \ Span(a, n)
  /\ a4' = "none"
  /\ mem' = [x \in Ram |-> IF x \in T THEN d[x] ELSE mem[x]]
  /\ UNCHANGED <<phase, held, s1, fw, a3_conf, rb_ext, cpu, sel, attached>>

(* The boot ROM answers a read at an odd address from the even one below.  *)
BootRead(a, x) == mem[x - (a % 2)]

MayReadA0_OddToo(a, n) == phase # "none"

MayReadA0(a, n) == phase # "none" /\ a % 2 = 0

(* The addresses of a read that the image uses and that were read equal,   *)
(* and those read different.                                               *)
Confirmed(img, S, got) == {x \in S : x \in DOMAIN img /\ got[x] = img[x]}
Refuted(img, S, got)   == {x \in S : x \in DOMAIN img /\ got[x] # img[x]}

CountsAsReadBack(a, n) == held /\ phase = "PH_FW" /\ a + n <= A0_INT_END

(* A0 read.  Under a held 8051 it is the read-back of the final release.   *)
ReadA0(a, n, ok) ==
  /\ MayReadA0(a, n)
  /\ ok => attached
  /\ LET got == [x \in Span(a, n) |-> BootRead(a, x)] IN
       rb_int' = IF ok /\ CountsAsReadBack(a, n)
                 THEN (rb_int \ Refuted(fw, Span(a, n), got)) \union Confirmed(fw, Span(a, n), got)
                 ELSE rb_int
  /\ a4' = "none"
  /\ UNCHANGED <<phase, held, s1, fw, sh, a3_conf, rb_ext, device>>

-----------------------------------------------------------------------------
(* A3 is a request of the running stage-1.  An acknowledged A3 write says  *)
(* nothing about what was stored: the bytes g are what the RAM then holds. *)
MayA3(a, n) ==
  /\ phase = "PH_S1_RUN"
  /\ n <= LOAD_REC_MAX /\ a > A3_MIN_EXCL /\ a + n <= A0_EXT_END

WriteA3(a, n, d, ok, g) ==
  /\ MayA3(a, n)
  /\ Matches(fw, a, n, d)
  /\ ok => attached /\ cpu = "stage1"
  /\ ~(attached /\ cpu = "stage1") => \A x \in Span(a, n) : g[x] = mem[x]
  /\ a3_conf' = IF ok THEN a3_conf \union Span(a, n) ELSE a3_conf \ Span(a, n)
  /\ rb_ext' = rb_ext \ Span(a, n)
  /\ a4' = "none"
  /\ mem' = [x \in Ram |-> IF x \in Span(a, n) THEN g[x] ELSE mem[x]]
  /\ UNCHANGED <<phase, held, s1, fw, sh, rb_int, cpu, sel, attached>>

ReadA3(a, n, ok) ==
  /\ MayA3(a, n)
  /\ ok => attached /\ cpu = "stage1"
  /\ rb_ext' = IF ok
               THEN (rb_ext \ Refuted(fw, Span(a, n), mem)) \union Confirmed(fw, Span(a, n), mem)
               ELSE rb_ext
  /\ a4' = "none"
  /\ UNCHANGED <<phase, held, s1, fw, sh, a3_conf, rb_int, device>>

-----------------------------------------------------------------------------
(* A4: only the two personality values, never under the stage-1; only the  *)
(* loaded firmware services it.                                            *)
Select(v, o) ==
  /\ phase # "PH_S1_RUN"
  /\ o.took => cpu = "firmware"
  /\ a4' = IF o.ok THEN v ELSE "none"
  /\ sel' = IF o.took THEN v ELSE sel
  /\ UNCHANGED <<win, mem, cpu, attached>>

(* Every other transfer, refused or passed on, drops the selection: bulk   *)
(* in and out, and any control request but A4 OUT and A9 IN.               *)
OtherTransfer ==
  /\ a4' = "none"
  /\ UNCHANGED <<win, device>>

(* g_reopen ends any window and any selection, whatever it finds.          *)
Reopen(found) ==
  /\ FreeWindow
  /\ a4' = "none"
  /\ attached' = found
  /\ UNCHANGED <<mem, cpu, sel>>

GuardStep ==
  \/ \E i \in Stage1Candidates, f \in FwImages : LoadBegin(i, f)
  \/ LoadEnd
  \/ \E o \in Outcomes : Hold(o) \/ ReleaseStage1(o) \/ ReleaseFirmware(o)
  \/ \E a \in Ram, n \in 1..A0_EXT_END :
       /\ a + n <= A0_EXT_END
       /\ \/ \E d \in [Span(a, n) -> Byte], ok \in BOOLEAN, T \in SUBSET Span(a, n) : WriteA0(a, n, d, ok, T)
          \/ \E ok \in BOOLEAN : ReadA0(a, n, ok) \/ ReadA3(a, n, ok)
          \/ \E d, g \in [Span(a, n) -> Byte], ok \in BOOLEAN : WriteA3(a, n, d, ok, g)
  \/ \E v \in {"A5", "A3"}, o \in Outcomes : Select(v, o)
  \/ OtherTransfer
  \/ \E found \in BOOLEAN : Reopen(found)

-----------------------------------------------------------------------------
(* The device.  A running 8051 owns its RAM: the stage-1 all of the        *)
(* internal RAM, loaded firmware everything.                               *)
Scratch == IF cpu = "stage1" THEN Internal
           ELSE IF cpu \in {"firmware", "unvetted"} THEN Ram ELSE {}

RunCode ==
  /\ \E x \in Scratch, v \in Byte : mem' = [mem EXCEPT ![x] = v]
  /\ UNCHANGED <<win, a4, cpu, sel, attached>>

(* The handle dies: the cable is pulled, or the firmware re-enumerates.    *)
Detach ==
  /\ attached' = FALSE
  /\ UNCHANGED <<win, a4, mem, cpu, sel>>

(* The scanner loses power: the boot ROM runs again over whatever RAM.     *)
PowerCycle ==
  /\ mem' \in [Ram -> Byte]
  /\ cpu' = "boot" /\ sel' = "none" /\ attached' = FALSE
  /\ UNCHANGED <<win, a4>>

DeviceStep == RunCode \/ Detach \/ PowerCycle

Next == GuardStep \/ DeviceStep

Spec == Init /\ [][Next]_vars

-----------------------------------------------------------------------------
(* Types: addresses the guard has confirmed lie in the RAM its windows     *)
(* allow.                                                                  *)
TypeOK ==
  /\ phase \in Phase /\ held \in BOOLEAN
  /\ s1 \in Stage1Candidates \union {NoImage} /\ fw \in FwImages \union {NoImage}
  /\ sh \in [Internal -> Byte \union {Unset}]
  /\ a3_conf \subseteq Ram /\ rb_ext \subseteq Ram /\ rb_int \subseteq Internal
  /\ a4 \in Selection
  /\ mem \in [Ram -> Byte] /\ cpu \in Cpu /\ sel \in Selection /\ attached \in BOOLEAN

(* The 8051 is only ever released over RAM that holds, byte for byte, the  *)
(* pinned stage-1 or the whole firmware image of the window: whatever the  *)
(* caller sends, whichever transfers fail half-way, whatever the stage-1   *)
(* scribbles between a read-back and the release (guard.c, fw_complete).   *)
OnlyVettedCode == cpu # "unvetted"

(* A3 reaches the device only while Kodak's stage-1 is what runs (or the   *)
(* 8051 is held and nobody answers): never the boot ROM, never loaded      *)
(* firmware, in which request A3 is another handler.                       *)
A3OnlyUnderStage1 == phase = "PH_S1_RUN" /\ attached => cpu \in {"stage1", "held"}

(* When the guard believes the 8051 held, and lets RAM be written, it is.  *)
HeldIsHeld == held /\ attached => cpu = "held"

(* An A9 read passed on reads the memory the caller selected: the guard's  *)
(* selection is the running firmware's, and survives no other transfer.    *)
SelectionIsTrue == a4 # "none" /\ attached => cpu = "firmware" /\ sel = a4

(* The inductive strengthening. Each phase of a window goes with what the  *)
(* guard has forgotten on entering it.                                     *)
WindowShape ==
  /\ phase = "none" => s1 = NoImage /\ fw = NoImage
  /\ phase # "none" => s1 = Stage1 /\ DOMAIN s1 \subseteq Internal
  /\ phase \in {"none", "PH_NEW", "PH_S1_RUN"} => ~held
  /\ phase = "PH_S1_LOAD" => held
  /\ ~held => sh = Blank /\ rb_int = {}
  /\ phase \notin {"PH_S1_RUN", "PH_FW"} => rb_ext = {} /\ a3_conf = {}
  /\ phase # "PH_FW" => rb_int = {}

(* Once the stage-1 run has begun to end, the stage-1 or nothing runs      *)
(* until the final release.                                                *)
LoadedCpu == phase = "PH_FW" /\ attached => cpu \in {"stage1", "held"}

(* A byte the shadow knows is the byte in the device's RAM.                *)
ShadowIsTrue ==
  held /\ attached => \A x \in Internal : sh[x] # Unset => sh[x] = mem[x]

(* A byte confirmed by read-back is still in RAM, but for internal RAM     *)
(* read under the stage-1, which scribbles there.                          *)
ReadBackIsTrue ==
  attached =>
    /\ \A x \in rb_ext : x \in DOMAIN fw /\ (x >= A0_INT_END => mem[x] = fw[x])
    /\ \A x \in rb_int : x \in DOMAIN fw /\ mem[x] = fw[x]

(* Inductive: what the guard believes of RAM, of the 8051 and of the       *)
(* selection is true, so no caller can lead it to a false release.         *)
IndInv ==
  /\ TypeOK
  /\ OnlyVettedCode /\ A3OnlyUnderStage1 /\ HeldIsHeld /\ SelectionIsTrue
  /\ WindowShape /\ LoadedCpu /\ ShadowIsTrue /\ ReadBackIsTrue
=============================================================================
