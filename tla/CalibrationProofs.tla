------------------------- MODULE CalibrationProofs -------------------------
(***************************************************************************)
(* The calibration: Capture's sums are of their setting, LightSearch ends  *)
(* within its bounds and sends what the boards accept, CalRun's records    *)
(* and times are true.  And what a calibration needs to have been copied   *)
(* first: VendorStore's imports leave a store that opens, ChipRead's       *)
(* readers a chip's image under its own key, and do not read it twice;     *)
(* PsiImport's entries say what the registry export says.                  *)
(***************************************************************************)
EXTENDS Capture, CalRun, LightSearch, VendorStore, ChipRead, PsiImport, SequenceTheorems, FiniteSetTheorems, WellFoundedInduction, TLAPS

-----------------------------------------------------------------------------
(* Capture: the lines of a sum                                             *)

(* The places of a capture. *)
Stations == {"idle", "written", "probe", "watch", "arm", "sum", "failed"}

(* Where the capture's fields range, and which fields it has.              *)
CaptureTypes ==
  /\ setting \in Nat
  /\ buffered \in Seq(Nat) /\ Len(buffered) <= BUFFER /\ flight \in Seq(Nat)
  /\ filed \in [seg : Nat, lines : Seq(Nat)]
  /\ capture.at \in Stations /\ capture.want \in Nat /\ capture.skip \in Nat /\ capture.sum \in Seq(Nat)
  /\ capture = [at |-> capture.at, want |-> capture.want, probing |-> capture.probing, seen |-> capture.seen,
                active |-> capture.active, skip |-> capture.skip, sum |-> capture.sum]

(* Which segment is which, and what the capture is doing. *)
CaptureBooks ==
  /\ capture.at \in {"idle", "written"} => capture.want = filed.seg /\ ~rearm
  /\ capture.at \in {"probe", "arm"} => capture.want = filed.seg + 1 /\ ~rearm
  /\ SegmentIsComing
  /\ capture.active <=> capture.at \in {"arm", "sum"}
  /\ capture.probing <=> capture.at \in {"probe", "watch"}
  /\ capture.at \in {"probe", "watch"} /\ capture.seen => capture.want = filed.seg
  /\ capture.at \in {"written", "probe", "watch", "arm"} \/ (capture.at = "sum" /\ rearm) => capture.sum = <<>>
  /\ capture.at = "arm" \/ (capture.at = "sum" /\ rearm) => capture.skip >= BUFFER

(* Behind the first n lines of the chunk that was handed out, the one in *)
(* flight and the device, every line was exposed under the setting.      *)
Behind(n, out) ==
  /\ \A i \in 1..Len(flight) : out + i > n => flight[i] = setting
  /\ \A i \in 1..Len(buffered) : out + Len(flight) + i > n => buffered[i] = setting

(* A segment is on its way or probed: no line of it is counted yet.        *)
(* And: the lines of the segment are being counted.                        *)
Watched == (capture.at = "watch" /\ ~rearm) \/ capture.at = "arm" \/ (capture.at = "sum" /\ rearm)
Summing == capture.at = "sum" /\ ~rearm

(* As many old lines as the device holds may still come before the capture *)
(* is armed; once it counts, as many as it still has to skip.              *)
LinesInv ==
  /\ Watched => Behind(BUFFER, 0)
  /\ Summing => /\ Behind(capture.skip, Len(filed.lines))
                /\ \A i \in 1..Len(filed.lines) : i > capture.skip => filed.lines[i] = setting
  /\ SumsAreOfTheSetting

(* Every step keeps the types. *)
LEMMA TypesKept == CaptureTypes /\ [CaptureNext]_captureVars => CaptureTypes'
<1> SUFFICES ASSUME CaptureTypes, [CaptureNext]_captureVars PROVE CaptureTypes'
  OBVIOUS
<1> USE CaptureAssumption DEF CaptureTypes, Stations
<1>1. CASE Expose
  BY <1>1 DEF Expose
<1>2. CASE Transfer
  BY <1>2, SMTT(60) DEF Transfer
<1>3. CASE ChunkReturns
  BY <1>3, SMTT(60) DEF ChunkReturns
<1>4. CASE OnLine
  <2>1. filed.lines \in Seq(Nat) /\ filed.lines # <<>> /\ UNCHANGED <<setting, buffered, flight, rearm>>
        /\ filed' = [filed EXCEPT !.lines = Tail(filed.lines)]
    BY <1>4 DEF OnLine
  <2>2. filed' \in [seg : Nat, lines : Seq(Nat)] /\ Head(filed.lines) \in Nat
    <3>1. Tail(filed.lines) \in Seq(Nat) /\ Head(filed.lines) \in Nat
      BY <2>1, HeadTailProperties
    <3> QED BY <2>1, <3>1
  <2>3. /\ capture'.at \in Stations /\ capture'.want \in Nat /\ capture'.skip \in Nat /\ capture'.sum \in Seq(Nat)
        /\ capture' = [at |-> capture'.at, want |-> capture'.want, probing |-> capture'.probing, seen |-> capture'.seen,
                       active |-> capture'.active, skip |-> capture'.skip, sum |-> capture'.sum]
    <3> DEFINE ours == filed.seg = capture.want
               se == capture.seen \/ (capture.probing /\ ours)
               sk == IF capture.active /\ ours /\ capture.skip > 0 THEN capture.skip - 1 ELSE capture.skip
               su == IF capture.active /\ ours /\ capture.skip = 0 /\ Len(capture.sum) < NEED
                     THEN Append(capture.sum, Head(filed.lines)) ELSE capture.sum
    <3>1. capture' = [capture EXCEPT !.seen = se, !.skip = sk, !.sum = su]
      BY <1>4 DEF OnLine
    <3>2. sk \in Nat
      OBVIOUS
    <3>3. su \in Seq(Nat)
      BY <2>2
    <3> HIDE DEF se, sk, su
    <3> QED BY <3>1, <3>2, <3>3
  <2> QED BY <2>1, <2>2, <2>3
<1>5. CASE WriteSetting
  <2>1. /\ UNCHANGED <<buffered, flight, filed>> /\ setting' = setting + 1
        /\ capture' = [at |-> "written", want |-> capture.want, probing |-> capture.probing, seen |-> capture.seen,
                       active |-> capture.active, skip |-> capture.skip, sum |-> <<>>]
    BY <1>5 DEF WriteSetting
  <2>2. setting' \in Nat /\ <<>> \in Seq(Nat)
    BY <2>1
  <2> QED BY <2>1, <2>2
<1>6. CASE Probe
  <2>1. /\ UNCHANGED <<setting, buffered, flight, filed>>
        /\ capture' = [at |-> "probe", want |-> capture.want + 1, probing |-> TRUE, seen |-> FALSE,
                       active |-> capture.active, skip |-> capture.skip, sum |-> capture.sum]
    BY <1>6 DEF Probe
  <2>2. capture.want + 1 \in Nat
    OBVIOUS
  <2> QED BY <2>1, <2>2
<1>7. CASE Rearms("probe", "watch") \/ Rearms("arm", "sum")
  BY <1>7 DEF Rearms
<1>8. CASE Arm
  <2>1. /\ UNCHANGED <<setting, buffered, flight, filed>>
        /\ capture' = [at |-> "arm", want |-> capture.want + 1, probing |-> FALSE, seen |-> capture.seen,
                       active |-> TRUE, skip |-> SETTLE_LINES, sum |-> capture.sum]
    BY <1>8 DEF Arm, Skipped
  <2>2. capture.want + 1 \in Nat /\ SETTLE_LINES \in Nat
    OBVIOUS
  <2> QED BY <2>1, <2>2
<1>9. CASE Summed
  BY <1>9 DEF Summed
<1>10. CASE CaptureFails
  BY <1>10 DEF CaptureFails
<1>11. CASE UNCHANGED captureVars
  BY <1>11 DEF captureVars
<1> QED BY <1>1, <1>2, <1>3, <1>4, <1>5, <1>6, <1>7, <1>8, <1>9, <1>10, <1>11 DEF CaptureNext

(* What one line does to the capture: it is skipped, added to the sum, or it ends a station. *)
LEMMA OnLineIs ==
  ASSUME CaptureTypes, OnLine
  PROVE  LET ours == filed.seg = capture.want IN
         /\ filed.lines # <<>> /\ filed'.seg = filed.seg /\ filed'.lines = Tail(filed.lines)
         /\ UNCHANGED <<setting, buffered, flight, rearm>>
         /\ capture'.at = capture.at /\ capture'.want = capture.want
         /\ capture'.probing = capture.probing /\ capture'.active = capture.active
         /\ capture'.seen <=> capture.seen \/ (capture.probing /\ ours)
         /\ capture'.skip = IF capture.active /\ ours /\ capture.skip > 0 THEN capture.skip - 1 ELSE capture.skip
         /\ capture'.sum = IF capture.active /\ ours /\ capture.skip = 0 /\ Len(capture.sum) < NEED
                           THEN Append(capture.sum, Head(filed.lines)) ELSE capture.sum
BY DEF OnLine, CaptureTypes

(* Every step keeps the books: which segment the capture wants, and what it is doing. *)
LEMMA BooksKept == CaptureTypes /\ CaptureBooks /\ [CaptureNext]_captureVars => CaptureBooks'
<1> SUFFICES ASSUME CaptureTypes, CaptureBooks, [CaptureNext]_captureVars PROVE CaptureBooks'
  OBVIOUS
<1>1. CASE Expose \/ Transfer
  BY <1>1 DEF Expose, Transfer, CaptureBooks, SegmentIsComing
<1>2. CASE ChunkReturns
  BY <1>2 DEF ChunkReturns, CaptureTypes, CaptureBooks, SegmentIsComing
<1>3. CASE OnLine
  <2> DEFINE ours == filed.seg = capture.want
  <2>1. /\ filed'.seg = filed.seg /\ rearm' = rearm /\ capture'.at = capture.at /\ capture'.want = capture.want
        /\ capture'.probing = capture.probing /\ capture'.active = capture.active
        /\ capture'.seen <=> capture.seen \/ (capture.probing /\ ours)
    BY <1>3, OnLineIs
  <2>2. capture.at \in {"written", "probe", "watch", "arm"} \/ (capture.at = "sum" /\ rearm) => capture'.sum = <<>>
    <3>1. capture.at \in {"written", "probe", "watch", "arm"} \/ (capture.at = "sum" /\ rearm) =>
            capture.sum = <<>> /\ ~(capture.active /\ ours)
      BY DEF CaptureTypes, CaptureBooks, SegmentIsComing
    <3> QED BY <1>3, <3>1, OnLineIs
  <2>3. capture.at = "arm" \/ (capture.at = "sum" /\ rearm) => capture'.skip >= BUFFER
    <3>1. capture.at = "arm" \/ (capture.at = "sum" /\ rearm) =>
            capture.skip >= BUFFER /\ ~(capture.active /\ ours)
      BY DEF CaptureTypes, CaptureBooks, SegmentIsComing
    <3> QED BY <1>3, <3>1, OnLineIs
  <2> QED BY <2>1, <2>2, <2>3 DEF CaptureBooks, SegmentIsComing
<1>4. CASE WriteSetting
  BY <1>4 DEF WriteSetting, CaptureTypes, CaptureBooks, SegmentIsComing
<1>5. CASE Probe
  BY <1>5 DEF Probe, CaptureTypes, CaptureBooks, SegmentIsComing
<1>6. CASE Rearms("probe", "watch") \/ Rearms("arm", "sum")
  BY <1>6 DEF Rearms, CaptureTypes, CaptureBooks, SegmentIsComing
<1>7. CASE Arm
  BY <1>7, CaptureAssumption DEF Arm, ProbeOver, Skipped, CaptureTypes, CaptureBooks, SegmentIsComing
<1>8. CASE Summed
  <2>1. NEED # 0 /\ capture.sum # <<>>
    BY <1>8, CaptureAssumption DEF Summed
  <2> QED BY <1>8, <2>1 DEF Summed, CaptureTypes, CaptureBooks, SegmentIsComing
<1>9. CASE CaptureFails
  BY <1>9 DEF CaptureFails, CaptureTypes, CaptureBooks, SegmentIsComing
<1>10. CASE UNCHANGED captureVars
  BY <1>10 DEF captureVars, CaptureBooks, SegmentIsComing
<1> QED BY <1>1, <1>2, <1>3, <1>4, <1>5, <1>6, <1>7, <1>8, <1>9, <1>10 DEF CaptureNext

(* Every step keeps the lines: those that are summed were exposed under the last setting. *)
LEMMA LinesKept == CaptureTypes /\ CaptureBooks /\ LinesInv /\ [CaptureNext]_captureVars => LinesInv'
<1> SUFFICES ASSUME CaptureTypes, CaptureBooks, LinesInv, [CaptureNext]_captureVars PROVE LinesInv'
  OBVIOUS
<1> USE CaptureAssumption
<1>1. CASE Expose
  <2>1. /\ UNCHANGED <<setting, flight, filed, rearm, capture>> /\ buffered' = Append(buffered, setting)
        /\ Len(buffered') = Len(buffered) + 1 /\ Len(buffered) \in Nat
        /\ \A i \in 1..Len(buffered') : buffered'[i] = IF i = Len(buffered') THEN setting ELSE buffered[i]
    BY <1>1, AppendProperties DEF Expose, CaptureTypes
  <2>2. ASSUME NEW n, NEW out, Behind(n, out) PROVE Behind(n, out)'
    BY <2>1, <2>2 DEF Behind
  <2> QED BY <2>1, <2>2 DEF LinesInv, Watched, Summing, SumsAreOfTheSetting
<1>2. CASE Transfer
  <2>1. /\ UNCHANGED <<setting, filed, rearm, capture>> /\ buffered # <<>>
        /\ flight' = Append(flight, Head(buffered)) /\ buffered' = Tail(buffered)
    BY <1>2 DEF Transfer
  <2>2. /\ Len(flight) \in Nat /\ Len(buffered) \in Nat /\ Len(buffered) > 0
        /\ Len(flight') = Len(flight) + 1 /\ Len(buffered') = Len(buffered) - 1
    BY <2>1, SMTT(60) DEF CaptureTypes
  <2>3. /\ \A i \in 1..Len(flight') : flight'[i] = IF i = Len(flight') THEN buffered[1] ELSE flight[i]
        /\ \A i \in 1..Len(buffered') : buffered'[i] = buffered[i + 1]
    BY <2>1, <2>2, AppendProperties, HeadTailProperties, SMTT(60) DEF CaptureTypes
  <2>4. ASSUME NEW n \in Nat, NEW out \in Nat, Behind(n, out) PROVE Behind(n, out)'
    BY <2>1, <2>2, <2>3, <2>4 DEF Behind
  <2>5. capture.skip \in Nat /\ Len(filed.lines) \in Nat /\ BUFFER \in Nat
    BY DEF CaptureTypes
  <2> QED BY <2>1, <2>4, <2>5 DEF LinesInv, Watched, Summing, SumsAreOfTheSetting
<1>3. CASE ChunkReturns
  <2>1. /\ UNCHANGED <<setting, buffered, capture>> /\ flight' = <<>> /\ rearm' = FALSE
        /\ filed.lines = <<>> /\ filed'.lines = flight /\ Len(buffered) <= BUFFER
        /\ Len(flight) \in Nat /\ Len(buffered) \in Nat /\ BUFFER \in Nat /\ capture.skip \in Nat
        /\ Len(filed.lines) = 0 /\ Len(flight') = 0
    BY <1>3, SMTT(60) DEF ChunkReturns, CaptureTypes
  <2>2. Watched' => Behind(BUFFER, 0)'
    BY <2>1 DEF Behind
  <2>3. ASSUME Summing' PROVE Behind(capture.skip, Len(filed.lines))'
                              /\ \A i \in 1..Len(filed'.lines) : i > capture'.skip => filed'.lines[i] = setting'
    <3>1. CASE rearm
      <4>1. Behind(BUFFER, 0) /\ capture.skip >= BUFFER
        BY <2>1, <2>3, <3>1 DEF LinesInv, Watched, Summing, CaptureBooks
      <4> QED BY <2>1, <4>1, SMTT(60) DEF Behind
    <3>2. CASE ~rearm
      <4>1. Behind(capture.skip, Len(filed.lines))
        BY <2>1, <2>3, <3>2 DEF LinesInv, Summing
      <4> QED BY <2>1, <4>1 DEF Behind
    <3> QED BY <3>1, <3>2 DEF CaptureTypes
  <2>4. SumsAreOfTheSetting'
    BY <2>1 DEF LinesInv, SumsAreOfTheSetting
  <2> QED BY <2>2, <2>3, <2>4 DEF LinesInv
<1>4. CASE OnLine
  <2> DEFINE ours == filed.seg = capture.want
  <2>1. /\ filed.lines # <<>> /\ filed'.seg = filed.seg /\ filed'.lines = Tail(filed.lines)
        /\ UNCHANGED <<setting, buffered, flight, rearm>>
        /\ capture'.at = capture.at /\ capture'.active = capture.active
        /\ capture'.skip = IF capture.active /\ ours /\ capture.skip > 0 THEN capture.skip - 1 ELSE capture.skip
        /\ capture'.sum = IF capture.active /\ ours /\ capture.skip = 0 /\ Len(capture.sum) < NEED
                           THEN Append(capture.sum, Head(filed.lines)) ELSE capture.sum
    BY <1>4, OnLineIs
  <2>2. /\ Len(filed.lines) \in Nat /\ Len(filed.lines) > 0 /\ Len(filed'.lines) = Len(filed.lines) - 1
        /\ filed.lines \in Seq(Nat)
    BY <2>1 DEF CaptureTypes
  <2>3. \A i \in 1..Len(filed'.lines) : filed'.lines[i] = filed.lines[i + 1]
    BY <2>1, <2>2, HeadTailProperties
  <2>4. Head(filed.lines) = filed.lines[1] /\ 1 \in 1..Len(filed.lines)
    BY <2>2, HeadTailProperties
  <2>5. Watched' => Behind(BUFFER, 0)'
    BY <2>1 DEF LinesInv, Watched, Behind
  <2>6. Summing' => capture.active /\ ours /\ Summing
    BY <2>1 DEF Summing, CaptureBooks, SegmentIsComing, CaptureTypes
  <2>7. capture.skip \in Nat /\ Len(flight) \in Nat /\ Len(buffered) \in Nat
    BY DEF CaptureTypes
  <2>8. ASSUME Summing' PROVE \A i \in 1..Len(filed'.lines) : i > capture'.skip => filed'.lines[i] = setting'
    <3>1. /\ capture.active /\ ours
          /\ \A i \in 1..Len(filed.lines) : i > capture.skip => filed.lines[i] = setting
      BY <2>6, <2>8 DEF LinesInv
    <3> SUFFICES ASSUME NEW i \in 1..Len(filed'.lines), i > capture'.skip PROVE filed'.lines[i] = setting'
      OBVIOUS
    <3>2. i \in Nat /\ i + 1 \in 1..Len(filed.lines) /\ filed'.lines[i] = filed.lines[i + 1] /\ setting' = setting
      BY <2>1, <2>2, <2>3
    <3>3. i + 1 > capture.skip
      BY <2>1, <2>7, <3>1, <3>2
    <3> QED BY <3>1, <3>2, <3>3
  <2>9. ASSUME Summing' PROVE Behind(capture.skip, Len(filed.lines))'
    <3>1. Behind(capture.skip, Len(filed.lines))
      BY <2>6, <2>9 DEF LinesInv
    <3> DEFINE n == capture.skip
               m == capture'.skip
               out == Len(filed.lines)
    <3>2. /\ n \in Nat /\ out \in Nat /\ out > 0 /\ Len(filed'.lines) = out - 1
          /\ (m = n - 1 /\ n > 0) \/ (m = 0 /\ n = 0)
      <4>1. capture.active /\ ours
        BY <2>6, <2>9
      <4>2. m = IF n > 0 THEN n - 1 ELSE n
        BY <2>1, <4>1
      <4> QED BY <2>2, <2>7, <4>2
    <3>3. /\ \A i \in 1..Len(flight) : out + i > n => flight[i] = setting
          /\ \A i \in 1..Len(buffered) : out + Len(flight) + i > n => buffered[i] = setting
      BY <3>1 DEF Behind
    <3> HIDE DEF n, m, out
    <3>4. \A i \in 1..Len(flight) : (out - 1) + i > m => flight[i] = setting
      BY <2>7, <3>2, <3>3
    <3>5. \A i \in 1..Len(buffered) : (out - 1) + Len(flight) + i > m => buffered[i] = setting
      BY <2>7, <3>2, <3>3
    <3> QED BY <2>1, <3>2, <3>4, <3>5 DEF Behind, m
  <2>10. SumsAreOfTheSetting'
    <3>1. CASE capture'.sum = capture.sum
      BY <2>1, <3>1 DEF LinesInv, SumsAreOfTheSetting
    <3>2. CASE capture.active /\ ours /\ capture.skip = 0 /\ capture'.sum = Append(capture.sum, Head(filed.lines))
      <4>1. capture.at = "arm" \/ capture.at = "sum"
        BY <3>2 DEF CaptureBooks
      <4>2. Summing
        BY <3>2, <4>1 DEF CaptureBooks, Summing, SegmentIsComing, CaptureTypes
      <4>3. filed.lines[1] = setting
        BY <2>4, <3>2, <4>2 DEF LinesInv
      <4>4. capture.sum \in Seq(Nat) /\ filed.lines[1] \in Nat
        BY <2>2, <2>4, ElementOfSeq DEF CaptureTypes
      <4>5. /\ Len(capture'.sum) = Len(capture.sum) + 1 /\ capture'.sum[Len(capture.sum) + 1] = setting
            /\ \A i \in 1..Len(capture.sum) : capture'.sum[i] = capture.sum[i]
        BY <2>4, <3>2, <4>3, <4>4, AppendProperties
      <4>6. \A i \in 1..Len(capture'.sum) : i \in 1..Len(capture.sum) \/ i = Len(capture.sum) + 1
        BY <4>4, <4>5
      <4> QED BY <2>1, <4>5, <4>6 DEF LinesInv, SumsAreOfTheSetting
    <3> QED BY <2>1, <3>1, <3>2
  <2> QED BY <2>5, <2>8, <2>9, <2>10 DEF LinesInv
<1>5. CASE WriteSetting
  <2>1. capture'.at = "written" /\ capture'.sum = <<>>
    BY <1>5 DEF WriteSetting, CaptureTypes
  <2> QED BY <2>1 DEF LinesInv, Watched, Summing, SumsAreOfTheSetting
<1>6. CASE Probe
  <2>1. capture'.at = "probe" /\ capture'.sum = capture.sum /\ setting' = setting
    BY <1>6 DEF Probe, CaptureTypes
  <2> QED BY <2>1 DEF LinesInv, Watched, Summing, SumsAreOfTheSetting
<1>7. CASE Rearms("probe", "watch") \/ Rearms("arm", "sum")
  <2>1. /\ UNCHANGED <<setting, buffered, flight, filed>> /\ rearm' = TRUE /\ capture'.sum = capture.sum
        /\ \/ capture'.at = "watch"
           \/ capture.at = "arm" /\ capture'.at = "sum"
    BY <1>7 DEF Rearms, CaptureTypes
  <2> QED BY <2>1 DEF LinesInv, Watched, Summing, Behind, SumsAreOfTheSetting
<1>8. CASE Arm
  <2>1. /\ UNCHANGED <<setting, buffered, flight, filed, rearm>> /\ capture'.sum = capture.sum /\ capture'.at = "arm"
        /\ capture.at = "watch" /\ capture.seen
    BY <1>8 DEF Arm, ProbeOver, CaptureTypes
  <2>2. ~rearm
    BY <2>1 DEF CaptureBooks, SegmentIsComing, CaptureTypes
  <2> QED BY <2>1, <2>2 DEF LinesInv, Watched, Summing, Behind, SumsAreOfTheSetting
<1>9. CASE Summed \/ CaptureFails
  <2>1. capture'.at \in {"idle", "failed"} /\ capture'.sum = capture.sum /\ setting' = setting
    BY <1>9 DEF Summed, CaptureFails, CaptureTypes
  <2> QED BY <2>1 DEF LinesInv, Watched, Summing, SumsAreOfTheSetting
<1>10. CASE UNCHANGED captureVars
  BY <1>10 DEF captureVars, LinesInv, Watched, Summing, Behind, SumsAreOfTheSetting
<1> QED BY <1>1, <1>2, <1>3, <1>4, <1>5, <1>6, <1>7, <1>8, <1>9, <1>10 DEF CaptureNext

(* All of it holds at first. *)
LEMMA CaptureOpens == CaptureInit => CaptureTypes /\ CaptureBooks /\ LinesInv
<1> SUFFICES ASSUME CaptureInit PROVE CaptureTypes /\ CaptureBooks /\ LinesInv
  OBVIOUS
<1> USE CaptureAssumption DEF CaptureInit
<1>1. CaptureTypes
  BY DEF CaptureTypes, Stations
<1>2. CaptureBooks
  BY DEF CaptureBooks, SegmentIsComing
<1>3. LinesInv
  BY DEF LinesInv, Watched, Summing, SumsAreOfTheSetting
<1> QED BY <1>1, <1>2, <1>3

(* CaptureIsOfTheSetting: what a capture sums is of the setting it was asked for, whatever lines of the one *)
(* before were still in the scanner, the transfer or the chunk when the register was written.               *)
THEOREM SumsTheSetting == CaptureSpec => []CaptureIsOfTheSetting
<1>1. CaptureBooks /\ LinesInv => CaptureIsOfTheSetting
  BY DEF CaptureBooks, LinesInv, CaptureIsOfTheSetting
<1> QED BY <1>1, CaptureOpens, TypesKept, BooksKept, LinesKept, PTL DEF CaptureSpec

-----------------------------------------------------------------------------
(* CalRun: records and times                                               *)

(* A sequence of anything, and what is known of its length, its end and its tail. *)
IsSeq(s) == \E S : s \in Seq(S)

(* A sequence has a length, and the empty one alone has length 0.          *)
LEMMA SeqIs ==
  ASSUME NEW s, IsSeq(s)
  PROVE  /\ Len(s) \in Nat /\ DOMAIN s = 1..Len(s)
         /\ s # <<>> => Len(s) > 0
         /\ Len(s) = 0 => s = <<>>
<1>1. PICK S : s \in Seq(S)
  BY DEF IsSeq
<1> QED BY <1>1, LenProperties, EmptySeq

(* Append leaves the elements where they are, and adds one.                *)
LEMMA AppendIs ==
  ASSUME NEW s, IsSeq(s), NEW x
  PROVE  /\ IsSeq(Append(s, x)) /\ Len(Append(s, x)) = Len(s) + 1 /\ DOMAIN Append(s, x) = 1..(Len(s) + 1)
         /\ \A k \in 1..Len(s) : Append(s, x)[k] = s[k]
         /\ Append(s, x)[Len(s) + 1] = x
<1>1. PICK S : s \in Seq(S)
  BY DEF IsSeq
<1>2. s \in Seq(S \union {x}) /\ x \in S \union {x}
  BY <1>1, SeqMonotonic
<1>3. Append(s, x) \in Seq(S \union {x})
  BY <1>2, AppendProperties
<1> QED BY <1>2, <1>3, AppendProperties, LenProperties DEF IsSeq

(* The tail has every element but the first, one place earlier.            *)
LEMMA TailIs ==
  ASSUME NEW s, IsSeq(s), s # <<>>
  PROVE  /\ IsSeq(Tail(s)) /\ Len(Tail(s)) = Len(s) - 1 /\ DOMAIN Tail(s) = 1..(Len(s) - 1)
         /\ \A k \in 1..(Len(s) - 1) : Tail(s)[k] = s[k + 1]
         /\ Head(s) = s[1] /\ 1 \in 1..Len(s)
<1>1. PICK S : s \in Seq(S)
  BY DEF IsSeq
<1>2. Tail(s) \in Seq(S) /\ Len(Tail(s)) = Len(s) - 1 /\ (\A k \in 1..Len(Tail(s)) : Tail(s)[k] = s[k + 1])
      /\ Head(s) = s[1]
  BY <1>1, HeadTailProperties
<1>3. 1 \in 1..Len(s)
  BY <1>1, LenProperties, EmptySeq
<1>4. DOMAIN Tail(s) = 1..(Len(s) - 1)
  BY <1>2, LenProperties
<1> QED BY <1>2, <1>3, <1>4 DEF IsSeq

-----------------------------------------------------------------------------
(* A full search of c at time t is stored. *)
FullAt(c, t) == \E k \in Ids(c) : records[k].full /\ records[k].at = t

(* What a stored or kept record says of its light: TimesAreStored and LineageIsFull, of one record. *)
Sound(r) ==
  /\ r.cfg \in CFG /\ r.at \in Nat /\ r.fullUtc \in Nat /\ r.from \in {0} \union DOMAIN records
  /\ r.lineage => r.full \/ (r.from # 0 /\ records[r.from].lineage)
  /\ ir /\ r.from # 0 /\ ~r.pinned => records[r.from].lineage
  /\ r.full => r.fullUtc = r.at
  /\ ~r.full /\ r.fullUtc # 0 => FullAt(r.cfg, r.fullUtc)

(* What a session remembers of c are times of stored records. *)
ClockOk(c, x) ==
  /\ x = [run |-> x.run, full |-> x.full, looked |-> x.looked] /\ x.run \in Nat /\ x.full \in Nat
  /\ x.run # 0 => \E k \in Ids(c) : records[k].at = x.run
  /\ x.full # 0 => FullAt(c, x.full)

(* The store, the selections and the session's memory. *)
StoreInv ==
  /\ hour \in Nat /\ hour # 0 /\ IsSeq(records)
  /\ \A k \in DOMAIN records : Sound(records[k])
  /\ DOMAIN selected = CFG /\ \A c \in CFG : selected[c] \in {0} \union Ids(c)
  /\ DOMAIN clock = CFG /\ \A c \in CFG : ClockOk(c, clock[c])

(* The run in progress: its light, and the records that wait to be put are sound already. *)
CalOk ==
  /\ cal = [at |-> cal.at, kind |-> cal.kind, cfg |-> cal.cfg, todo |-> cal.todo, pinned |-> cal.pinned,
            from |-> cal.from, parent |-> cal.parent, full |-> cal.full, checked |-> cal.checked, kept |-> cal.kept]
  /\ cal.from \in {0} \union DOMAIN records /\ cal.parent \in {0} \union DOMAIN records
  /\ IsSeq(cal.kept) /\ \A k \in DOMAIN cal.kept : Sound(cal.kept[k])
  /\ cal.todo \subseteq CFG
  /\ cal.at \in {"resolved", "measure"} => /\ cal.cfg \in CFG
                                           /\ ir /\ cal.from # 0 /\ ~cal.pinned => records[cal.from].lineage
  /\ cal.at = "resolved" => cal.kind = "scan" /\ cal.kept = <<>> /\ cal.from = cal.parent
  /\ cal.at = "measure" => /\ cal.kind \in {"scan", "gain", "session"}
                           /\ cal.kind = "scan" => cal.kept = <<>>
                           /\ ~cal.full => cal.from = cal.parent
  /\ cal.at = "next" => cal.kind \in {"gain", "session"}
  /\ cal.checked \in Nat /\ cal.checked <= hour

(* A full search of c that is fresh at t is stored. *)
FreshAt(c, t) == \E k \in Ids(c) : records[k].full /\ t - records[k].at <= FULL_AFTER

(* ... or is being made for the scan: FullWhenLate before the scan is reached. *)
Fresh ==
  /\ cal.at = "scans" /\ ~cal.pinned /\ auto => FreshAt(cal.cfg, cal.checked)
  /\ cal.at = "measure" /\ cal.kind = "scan" /\ ~cal.pinned /\ auto => cal.full \/ FreshAt(cal.cfg, cal.checked)
  /\ cal.at = "store" /\ cal.kind = "scan" /\ ~cal.pinned /\ auto =>
       \/ FreshAt(cal.cfg, cal.checked)
       \/ /\ Len(cal.kept) = 1 /\ cal.kept[1].full /\ cal.kept[1].cfg = cal.cfg
          /\ cal.checked <= cal.kept[1].at

-----------------------------------------------------------------------------
(* Records are only ever added. *)
Grown == /\ IsSeq(records') /\ ir' = ir
         /\ \A k \in DOMAIN records : k \in DOMAIN records' /\ records'[k] = records[k]

(* What is said of the records stays true of more of them. *)
LEMMA GrownKeeps ==
  ASSUME IsSeq(records), Grown
  PROVE  /\ \A c, k : k \in Ids(c) => k \in Ids(c)' /\ k \in DOMAIN records /\ records'[k] = records[k]
         /\ \A c, t : FullAt(c, t) => FullAt(c, t)'
         /\ \A c, t : FreshAt(c, t) => FreshAt(c, t)'
         /\ \A r : Sound(r) => Sound(r)'
         /\ \A c, x : ClockOk(c, x) => ClockOk(c, x)'
<1>1. \A c, k : k \in Ids(c) => k \in Ids(c)' /\ k \in DOMAIN records /\ records'[k] = records[k]
  BY DEF Grown, Ids
<1>2. ASSUME NEW c, NEW t, FullAt(c, t) PROVE FullAt(c, t)'
  BY <1>1, <1>2 DEF FullAt
<1>3. ASSUME NEW c, NEW t, FreshAt(c, t) PROVE FreshAt(c, t)'
  BY <1>1, <1>3 DEF FreshAt
<1>4. ASSUME NEW r, Sound(r) PROVE Sound(r)'
  <2>1. r.from = 0 \/ (r.from \in DOMAIN records' /\ records'[r.from] = records[r.from])
    BY <1>4 DEF Sound, Grown
  <2>2. ~r.full /\ r.fullUtc # 0 => FullAt(r.cfg, r.fullUtc)'
    BY <1>2, <1>4 DEF Sound
  <2>3. ir' = ir
    BY DEF Grown
  <2> QED BY <1>4, <2>1, <2>2, <2>3 DEF Sound
<1>5. ASSUME NEW c, NEW x, ClockOk(c, x) PROVE ClockOk(c, x)'
  <2>1. x.full # 0 => FullAt(c, x.full)'
    BY <1>2, <1>5 DEF ClockOk
  <2>2. x.run # 0 => \E k \in Ids(c)' : records'[k].at = x.run
    BY <1>1, <1>5 DEF ClockOk
  <2> QED BY <1>5, <2>1, <2>2 DEF ClockOk
<1> QED BY <1>1, <1>2, <1>3, <1>4, <1>5

(* A configuration's record is one of its own. *)
LEMMA NewestIs ==
  ASSUME StoreInv, NEW c \in CFG
  PROVE  NewestOf(c) = 0 \/ NewestOf(c) \in Ids(c)
<1>1. CASE selected[c] # 0
  BY <1>1 DEF NewestOf, StoreInv
<1>2. CASE selected[c] = 0 /\ Ids(c) = {}
  BY <1>2 DEF NewestOf
<1>3. CASE selected[c] = 0 /\ Ids(c) # {}
  <2>1. Ids(c) \subseteq 1..Len(records) /\ Len(records) \in Nat
    BY SeqIs DEF StoreInv, Ids
  <2> DEFINE L == {Len(records) - k : k \in Ids(c)}
  <2>2. L \in SUBSET Nat /\ L # {}
    BY <1>3, <2>1
  <2>3. \E x \in L : \A y \in L : ~ (<<y, x>> \in OpToRel(<, Nat))
    <3> HIDE DEF L
    <3> QED BY <2>2, NatLessThanWellFounded, WFMin
  <2>6. PICK x \in L : \A y \in L : ~ (y < x)
    <3> HIDE DEF L
    <3> QED BY <2>2, <2>3 DEF OpToRel
  <2>7. PICK k \in Ids(c) : x = Len(records) - k
    BY <2>6
  <2>4. \A l \in Ids(c) : ~ (Len(records) - l < Len(records) - k)
    BY <2>6, <2>7
  <2>5. \A l \in Ids(c) : l <= k
    BY <2>1, <2>4
  <2> QED BY <1>3, <2>5 DEF NewestOf
<1> QED BY <1>1, <1>2, <1>3

(* The time a session takes from the store is that of a full search: a record carries it forward. *)
LEMMA LookedUpIs ==
  ASSUME StoreInv, NEW c \in CFG
  PROVE  ClockOk(c, LookedUp(c))
<1>1. ClockOk(c, clock[c])
  BY DEF StoreInv
<1>2. CASE clock[c].looked
  BY <1>1, <1>2 DEF LookedUp
<1>3. CASE ~clock[c].looked
  <2> DEFINE t == StoredLastFull(c)
             x == [clock[c] EXCEPT !.full = t, !.looked = TRUE]
  <2>1. t \in Nat /\ (t # 0 => FullAt(c, t))
    <3>1. CASE NewestOf(c) = 0
      BY <3>1 DEF StoredLastFull
    <3>2. CASE NewestOf(c) # 0
      <4> DEFINE n == NewestOf(c)
      <4>1. n \in Ids(c) /\ n \in DOMAIN records /\ records[n].cfg = c /\ Sound(records[n]) /\ t = records[n].fullUtc
        BY <3>2, NewestIs DEF StoredLastFull, Ids, StoreInv
      <4> HIDE DEF n, t
      <4>2. CASE records[n].full
        BY <4>1, <4>2 DEF Sound, FullAt
      <4>3. CASE ~records[n].full
        BY <4>1, <4>3 DEF Sound
      <4> QED BY <4>2, <4>3
    <3> QED BY <3>1, <3>2
  <2>2. LookedUp(c) = x
    BY <1>3 DEF LookedUp
  <2> HIDE DEF t
  <2>5. x = [run |-> clock[c].run, full |-> t, looked |-> TRUE]
    <3>1. PICK r, f, l : clock[c] = [run |-> r, full |-> f, looked |-> l]
      BY <1>1 DEF ClockOk
    <3>2. x = [[run |-> r, full |-> f, looked |-> l] EXCEPT !.full = t, !.looked = TRUE]
      BY <3>1, Zenon
    <3> HIDE DEF x
    <3>3. x = [run |-> r, full |-> t, looked |-> TRUE]
      BY <3>2
    <3>4. clock[c].run = r
      BY <3>1
    <3> QED BY <3>3, <3>4
  <2> HIDE DEF x
  <2>3. x.run = clock[c].run /\ x.full = t /\ x = [run |-> x.run, full |-> x.full, looked |-> x.looked]
    BY <2>5
  <2> HIDE DEF x
  <2>4. ClockOk(c, x)
    BY <1>1, <2>1, <2>3 DEF ClockOk
  <2> QED BY <2>2, <2>4
<1> QED BY <1>2, <1>3

(* Every step only adds to the records. *)
LEMMA GrownIs == StoreInv /\ [CalNext]_calVars => Grown
<1> SUFFICES ASSUME StoreInv, [CalNext]_calVars PROVE Grown
  OBVIOUS
<1>1. ir' = ir /\ (records' = records \/ \E x : records' = Append(records, x))
  <2>1. CASE Stores
    BY <2>1 DEF Stores
  <2>2. CASE StoreFails
    BY <2>2 DEF StoreFails
  <2>3. CASE AppImports
    BY <2>3 DEF AppImports
  <2>4. CASE \/ \E c \in CFG : ResolveScan(c)
             \/ ScanDue \/ ScanEnds \/ StartCalibrate \/ NextBase \/ BasesDone
             \/ Measured \/ MeasureFails \/ StoreDone
             \/ HourPasses \/ AppSelects \/ Reopens \/ UNCHANGED calVars
    BY <2>4 DEF ResolveScan, ScanDue, ScanEnds, StartCalibrate, NextBase, BasesDone, Measured, MeasureFails, StoreDone,
                HourPasses, AppSelects, Reopens, calVars
  <2> QED BY <2>1, <2>2, <2>3, <2>4 DEF CalNext
<1>2. CASE records' = records
  BY <1>1, <1>2 DEF Grown, StoreInv, IsSeq
<1>3. ASSUME NEW x, records' = Append(records, x) PROVE Grown
  <2>1. IsSeq(records) /\ DOMAIN records = 1..Len(records) /\ Len(records) \in Nat
    BY SeqIs DEF StoreInv
  <2>2. /\ IsSeq(records') /\ DOMAIN records' = 1..(Len(records) + 1)
        /\ \A k \in 1..Len(records) : records'[k] = records[k]
    BY <1>3, <2>1, AppendIs
  <2> QED BY <1>1, <2>1, <2>2 DEF Grown
<1> QED BY <1>1, <1>2, <1>3

(* Steps that leave the store and set the memory right. *)
LEMMA StoreRests ==
  ASSUME StoreInv, Grown, records' = records, selected' = selected, hour' \in Nat, hour' # 0,
         DOMAIN clock' = CFG, \A c \in CFG : \E x : clock'[c] = x /\ ClockOk(c, x)
  PROVE  StoreInv'
<1>1. IsSeq(records)
  BY DEF StoreInv
<1>2. \A k \in DOMAIN records' : Sound(records[k])'
  <2> SUFFICES ASSUME NEW k \in DOMAIN records PROVE Sound(records[k])'
    OBVIOUS
  <2>1. PICK r : r = records[k]
    OBVIOUS
  <2>2. Sound(r)
    BY <2>1 DEF StoreInv
  <2>3. Sound(r)'
    BY <1>1, <2>2, GrownKeeps
  <2> QED BY <2>1, <2>3 DEF Sound, FullAt, Ids
<1>3. \A c \in CFG : ClockOk(c, clock[c])'
  <2> SUFFICES ASSUME NEW c \in CFG PROVE ClockOk(c, clock[c])'
    OBVIOUS
  <2>1. PICK x : clock'[c] = x /\ ClockOk(c, x)
    OBVIOUS
  <2>2. ClockOk(c, x)'
    BY <1>1, <2>1, GrownKeeps
  <2> QED BY <2>1, <2>2 DEF ClockOk, FullAt, Ids
<1>4. \A c : Ids(c)' = Ids(c)
  BY DEF Ids
<1> QED BY <1>1, <1>2, <1>3, <1>4 DEF StoreInv

(* Steps that leave the store and the memory. *)
LEMMA StoreStays ==
  ASSUME StoreInv, Grown, records' = records, selected' = selected, hour' \in Nat, hour' # 0, clock' = clock
  PROVE  StoreInv'
<1>1. \A c \in CFG : \E x : clock'[c] = x /\ ClockOk(c, x)
  BY DEF StoreInv
<1> QED BY <1>1, StoreRests DEF StoreInv

(* A scan picks its light: pinned, or usable. *)
LEMMA ResolveKept ==
  ASSUME StoreInv, CalOk, Fresh, Grown, NEW c \in CFG, ResolveScan(c)
  PROVE  StoreInv' /\ CalOk' /\ Fresh'
<1>1. PICK pin \in {0} \cup Ids(c) :
        cal' = [Idle EXCEPT !.at = "resolved", !.kind = "scan", !.cfg = c, !.pinned = pin # 0,
                            !.from = IF pin # 0 THEN pin ELSE IF Usable(c) THEN NewestOf(c) ELSE 0,
                            !.parent = IF pin # 0 THEN pin ELSE IF Usable(c) THEN NewestOf(c) ELSE 0]
  BY DEF ResolveScan
<1> DEFINE id == IF pin # 0 THEN pin ELSE IF Usable(c) THEN NewestOf(c) ELSE 0
<1>2. id \in {0} \union DOMAIN records /\ (ir /\ id # 0 /\ pin = 0 => records[id].lineage)
  BY NewestIs DEF Ids, Usable
<1> HIDE DEF id
<1>3. cal' = [at |-> "resolved", kind |-> "scan", cfg |-> c, todo |-> {}, pinned |-> pin # 0, from |-> id, parent |-> id,
              full |-> FALSE, checked |-> 0, kept |-> <<>>]
  BY <1>1 DEF Idle, id
<1>4. UNCHANGED <<hour, ir, auto, records, selected, clock>>
  BY DEF ResolveScan
<1>5. /\ cal'.at = "resolved" /\ cal'.kind = "scan" /\ cal'.cfg = c /\ cal'.todo = {} /\ (cal'.pinned <=> pin # 0)
      /\ cal'.from = id /\ cal'.parent = id /\ cal'.checked = 0 /\ cal'.kept = <<>>
      /\ cal' = [at |-> cal'.at, kind |-> cal'.kind, cfg |-> cal'.cfg, todo |-> cal'.todo, pinned |-> cal'.pinned,
            from |-> cal'.from, parent |-> cal'.parent, full |-> cal'.full, checked |-> cal'.checked, kept |-> cal'.kept]
  BY <1>3
<1>6. StoreInv'
  BY <1>4, StoreStays DEF StoreInv
<1>7. IsSeq(<<>>) /\ DOMAIN <<>> = {}
  BY EmptySeq, LenProperties DEF IsSeq
<1>8. CalOk'
  BY <1>2, <1>4, <1>5, <1>7 DEF CalOk, StoreInv
<1>9. Fresh'
  BY <1>5 DEF Fresh
<1> QED BY <1>6, <1>8, <1>9

(* What the policy answers: neither "not due" nor "not full" without a fresh full search. *)
LEMMA DueIs ==
  ASSUME StoreInv, NEW c \in CFG, NEW x, ClockOk(c, x), NEW t \in Nat, t = x.run
  PROVE  /\ auto /\ ~Due(t, x.full).due => FreshAt(c, hour)
         /\ auto /\ ~Due(t, x.full).full => FreshAt(c, hour)
<1>1. x.full \in Nat /\ (x.full # 0 => FullAt(c, x.full)) /\ hour \in Nat /\ FULL_AFTER \in Nat
  BY CalAssumption DEF ClockOk, StoreInv
<1>2. ~FullLate(x.full) => FreshAt(c, hour)
  <2> SUFFICES ASSUME ~FullLate(x.full) PROVE FreshAt(c, hour)
    OBVIOUS
  <2>1. FullAt(c, x.full) /\ hour - x.full <= FULL_AFTER
    BY <1>1 DEF FullLate
  <2> QED BY <2>1 DEF FullAt, FreshAt
<1>3. auto /\ ~Due(t, x.full).full => ~FullLate(x.full)
  BY DEF Due
<1>4. auto /\ ~Due(t, x.full).due => ~FullLate(x.full)
  BY DEF Due
<1> QED BY <1>2, <1>3, <1>4

(* The policy is asked on the worker. *)
LEMMA DueKept ==
  ASSUME StoreInv, CalOk, Fresh, Grown, ScanDue
  PROVE  StoreInv' /\ CalOk' /\ Fresh'
<1> DEFINE c == cal.cfg
<1>a. c \in CFG /\ cal.at = "resolved" /\ cal.kind = "scan" /\ cal.kept = <<>> /\ cal.from = cal.parent
  BY DEF ScanDue, CalOk
<1>1. PICK x : x = LookedUp(c)
  OBVIOUS
<1>2. ClockOk(c, x)
  BY <1>1, <1>a, LookedUpIs
<1> DEFINE dueDue == IF cal.from = 0 THEN TRUE ELSE Due(x.run, x.full).due
           full == (IF cal.from = 0 THEN TRUE ELSE Due(x.run, x.full).full) /\ ~cal.pinned
<1>3. /\ clock' = [clock EXCEPT ![c] = x] /\ UNCHANGED <<hour, ir, auto, records, selected>>
      /\ cal' = [cal EXCEPT !.at = IF dueDue THEN "measure" ELSE "scans", !.full = full, !.checked = hour,
                             !.from = IF full THEN 0 ELSE @]
  BY <1>1 DEF ScanDue
<1>4. /\ auto /\ ~dueDue => FreshAt(c, hour)
      /\ auto /\ ~full /\ ~cal.pinned => FreshAt(c, hour)
  BY <1>a, <1>2, DueIs DEF ClockOk
<1> HIDE DEF dueDue, full
<1>5. /\ cal'.at = (IF dueDue THEN "measure" ELSE "scans") /\ cal'.kind = "scan" /\ cal'.cfg = c /\ cal'.todo = cal.todo
      /\ cal'.pinned = cal.pinned
      /\ (cal'.full <=> full) /\ cal'.from = (IF full THEN 0 ELSE cal.from) /\ cal'.parent = cal.parent
      /\ cal'.checked = hour /\ cal'.kept = <<>>
      /\ cal' = [at |-> cal'.at, kind |-> cal'.kind, cfg |-> cal'.cfg, todo |-> cal'.todo, pinned |-> cal'.pinned,
            from |-> cal'.from, parent |-> cal'.parent, full |-> cal'.full, checked |-> cal'.checked, kept |-> cal'.kept]
  BY <1>3, <1>a DEF CalOk
<1>6. StoreInv'
  <2>1. DOMAIN clock' = CFG /\ \A d \in CFG : clock'[d] = IF d = c THEN x ELSE clock[d]
    BY <1>3, <1>a DEF StoreInv
  <2>2. \A d \in CFG : \E y : clock'[d] = y /\ ClockOk(d, y)
    BY <1>2, <2>1 DEF StoreInv
  <2> QED BY <1>3, <2>1, <2>2, StoreRests DEF StoreInv
<1>7. CalOk'
  <2>1. IsSeq(<<>>) /\ DOMAIN <<>> = {}
    BY EmptySeq, LenProperties DEF IsSeq
  <2>2. hour \in Nat
    BY DEF StoreInv
  <2> QED BY <1>a, <1>3, <1>5, <2>1, <2>2 DEF CalOk
<1>8. Fresh'
  <2>1. FreshAt(c, hour) => \A d, t : d = c /\ t = hour => FreshAt(d, t)'
    BY GrownKeeps DEF StoreInv
  <2>2. FreshAt(c, hour) => FreshAt(cal.cfg, cal.checked)'
    BY <1>3, <1>5, <2>1 DEF FreshAt, Ids
  <2> QED BY <1>3, <1>4, <1>5, <2>2 DEF Fresh
<1> QED BY <1>6, <1>7, <1>8

(* The record cal. *)
CalShape ==
  cal = [at |-> cal.at, kind |-> cal.kind, cfg |-> cal.cfg, todo |-> cal.todo, pinned |-> cal.pinned,
         from |-> cal.from, parent |-> cal.parent, full |-> cal.full, checked |-> cal.checked, kept |-> cal.kept]

(* No run in progress. *)
LEMMA IdleIsOk ==
  ASSUME IsSeq(records), hour \in Nat, cal = Idle
  PROVE  CalOk /\ Fresh
<1>1. /\ cal.at = "idle" /\ cal.from = 0 /\ cal.parent = 0 /\ cal.kept = <<>> /\ cal.todo = {} /\ cal.checked = 0
      /\ CalShape
  BY DEF Idle, CalShape
<1>2. IsSeq(<<>>) /\ DOMAIN <<>> = {}
  BY EmptySeq, LenProperties DEF IsSeq
<1>3. CalOk
  BY <1>1, <1>2 DEF CalOk, CalShape
<1> QED BY <1>1, <1>3 DEF Fresh

(* No run in progress any more. *)
LEMMA TurnsIdle ==
  ASSUME IsSeq(records'), hour' \in Nat, cal' = Idle
  PROVE  CalOk' /\ Fresh'
<1>1. /\ cal'.at = "idle" /\ cal'.from = 0 /\ cal'.parent = 0 /\ cal'.kept = <<>> /\ cal'.todo = {} /\ cal'.checked = 0
      /\ CalShape'
  BY DEF Idle, CalShape
<1>2. IsSeq(<<>>) /\ DOMAIN <<>> = {}
  BY EmptySeq, LenProperties DEF IsSeq
<1>3. CalOk'
  BY <1>1, <1>2 DEF CalOk, CalShape
<1> QED BY <1>1, <1>3 DEF Fresh

(* The steps that leave the records, and set at most the place of the run. *)
LEMMA RestKept ==
  ASSUME StoreInv, CalOk, Fresh, Grown, \/ ScanEnds \/ StartCalibrate \/ BasesDone \/ MeasureFails \/ StoreDone \/ Reopens
  PROVE  StoreInv' /\ CalOk' /\ Fresh'
<1>1. hour' = hour /\ records' = records /\ selected' = selected /\ ir' = ir /\ auto' = auto
  BY DEF ScanEnds, StartCalibrate, BasesDone, MeasureFails, StoreDone, Reopens
<1>0. IsSeq(records') /\ hour' \in Nat
  BY <1>1 DEF StoreInv
<1>2. StoreInv'
  <2>1. CASE clock' = clock
    BY <1>1, <2>1, StoreStays DEF StoreInv
  <2>2. CASE clock' = [c \in CFG |-> Unknown]
    <3>1. \A c \in CFG : ClockOk(c, Unknown)
      BY DEF ClockOk, Unknown
    <3> QED BY <1>1, <2>2, <3>1, StoreRests DEF StoreInv
  <2> QED BY <2>1, <2>2 DEF ScanEnds, StartCalibrate, BasesDone, MeasureFails, StoreDone, Reopens
<1>3. CASE cal' = Idle
  BY <1>0, <1>2, <1>3, TurnsIdle
<1>4. CASE StartCalibrate
  <2>1. PICK todo \in SUBSET CFG, gain \in BOOLEAN :
          cal' = [Idle EXCEPT !.at = "next", !.kind = IF gain THEN "gain" ELSE "session", !.todo = todo]
    BY <1>4 DEF StartCalibrate
  <2>2. /\ cal'.at = "next" /\ cal'.kind \in {"gain", "session"} /\ cal'.from = 0 /\ cal'.parent = 0
        /\ cal'.kept = <<>> /\ cal'.todo \subseteq CFG /\ cal'.checked = 0 /\ CalShape'
    BY <2>1 DEF Idle, CalShape
  <2>3. IsSeq(<<>>) /\ DOMAIN <<>> = {}
    BY EmptySeq, LenProperties DEF IsSeq
  <2>4. CalOk'
    BY <1>0, <2>2, <2>3 DEF CalOk, CalShape
  <2> QED BY <1>2, <2>2, <2>4 DEF Fresh
<1>5. ASSUME cal'.at \in {"next", "store", "scans"}, cal'.kind = cal.kind \/ cal'.kind = "failed",
             cal'.cfg = cal.cfg, cal'.todo \subseteq CFG, cal'.pinned = cal.pinned, cal'.from = cal.from,
             cal'.parent = cal.parent, cal'.full = cal.full, cal'.checked = cal.checked, cal'.kept = cal.kept, CalShape',
             cal'.at = "next" => cal'.kind \in {"gain", "session"}
      PROVE  CalOk'
  <2>1. \A k \in DOMAIN cal'.kept : Sound(cal.kept[k])'
    <3> SUFFICES ASSUME NEW k \in DOMAIN cal.kept PROVE Sound(cal.kept[k])'
      BY <1>5
    <3>1. PICK r : r = cal.kept[k]
      OBVIOUS
    <3>2. Sound(r)'
      BY <3>1, GrownKeeps DEF CalOk, StoreInv
    <3> QED BY <1>5, <3>1, <3>2 DEF Sound, FullAt, Ids
  <2> QED BY <1>1, <1>5, <2>1 DEF CalOk, CalShape
<1>6. CASE BasesDone
  <2>1. cal' = [cal EXCEPT !.at = "store"] /\ cal.at = "next" /\ cal.kind \in {"gain", "session"}
    BY <1>6 DEF BasesDone, CalOk
  <2>2. /\ cal'.at = "store" /\ cal'.kind = cal.kind
        /\ cal'.cfg = cal.cfg /\ cal'.todo \subseteq CFG /\ cal'.pinned = cal.pinned /\ cal'.from = cal.from
        /\ cal'.parent = cal.parent /\ cal'.full = cal.full /\ cal'.checked = cal.checked /\ cal'.kept = cal.kept
        /\ CalShape'
    BY <2>1 DEF CalShape, CalOk
  <2> QED BY <1>2, <1>5, <2>1, <2>2 DEF Fresh
<1>7. CASE MeasureFails /\ cal.kind = "gain" /\ cal' = [cal EXCEPT !.at = "next"]
  <2>2. /\ cal'.at = "next" /\ cal'.kind = cal.kind
        /\ cal'.cfg = cal.cfg /\ cal'.todo \subseteq CFG /\ cal'.pinned = cal.pinned /\ cal'.from = cal.from
        /\ cal'.parent = cal.parent /\ cal'.full = cal.full /\ cal'.checked = cal.checked /\ cal'.kept = cal.kept
        /\ CalShape'
    BY <1>7 DEF CalShape, CalOk
  <2> QED BY <1>2, <1>5, <1>7, <2>2 DEF Fresh
<1>8. CASE MeasureFails /\ cal' = [cal EXCEPT !.at = "store", !.todo = {}, !.kind = "failed"]
  <2>2. /\ cal'.at = "store" /\ cal'.kind = "failed"
        /\ cal'.cfg = cal.cfg /\ cal'.todo \subseteq CFG /\ cal'.pinned = cal.pinned /\ cal'.from = cal.from
        /\ cal'.parent = cal.parent /\ cal'.full = cal.full /\ cal'.checked = cal.checked /\ cal'.kept = cal.kept
        /\ CalShape'
    BY <1>8 DEF CalShape, CalOk
  <2> QED BY <1>2, <1>5, <2>2 DEF Fresh
<1>9. CASE StoreDone /\ cal.kind = "scan" /\ cal' = [cal EXCEPT !.at = "scans"]
  <2>1. cal.at = "store" /\ cal.kept = <<>> /\ Len(cal.kept) = 0
    BY <1>9, EmptySeq DEF StoreDone
  <2>2. /\ cal'.at = "scans" /\ cal'.kind = cal.kind
        /\ cal'.cfg = cal.cfg /\ cal'.todo \subseteq CFG /\ cal'.pinned = cal.pinned /\ cal'.from = cal.from
        /\ cal'.parent = cal.parent /\ cal'.full = cal.full /\ cal'.checked = cal.checked /\ cal'.kept = cal.kept
        /\ CalShape'
    BY <1>9 DEF CalShape, CalOk
  <2>3. ~cal.pinned /\ auto => FreshAt(cal.cfg, cal.checked)
    BY <1>9, <2>1 DEF Fresh
  <2>4. ~cal.pinned /\ auto => FreshAt(cal.cfg, cal.checked)'
    BY <1>1, <2>2, <2>3 DEF FreshAt, Ids
  <2>5. Fresh'
    BY <1>1, <2>2, <2>4 DEF Fresh
  <2>6. CalOk'
    BY <1>5, <2>2
  <2> QED BY <1>2, <2>5, <2>6
<1> QED BY <1>2, <1>3, <1>4, <1>6, <1>7, <1>8, <1>9 DEF ScanEnds, StartCalibrate, BasesDone, MeasureFails, StoreDone, Reopens

(* pk_calibrate takes up a base. *)
LEMMA NextKept ==
  ASSUME StoreInv, CalOk, Fresh, Grown, NextBase
  PROVE  StoreInv' /\ CalOk' /\ Fresh'
<1> DEFINE Full(c) == cal.kind = "gain" \/ ~Usable(c) \/ Due(1, LookedUp(c).full).full
<1>1. PICK c \in cal.todo :
          /\ clock' = [clock EXCEPT ![c] = LookedUp(c)]
          /\ cal' = [cal EXCEPT !.at = "measure", !.cfg = c, !.todo = @ \ {c}, !.full = Full(c),
                                !.from = IF Full(c) THEN 0 ELSE NewestOf(c), !.parent = NewestOf(c)]
  BY DEF NextBase
<1>a. c \in CFG /\ cal.at = "next" /\ cal.kind \in {"gain", "session"} /\ UNCHANGED <<hour, ir, auto, records, selected>>
  BY <1>1 DEF NextBase, CalOk
<1>2. PICK x, full :
          /\ x = LookedUp(c) /\ full = Full(c)
          /\ clock' = [clock EXCEPT ![c] = x]
          /\ cal' = [cal EXCEPT !.at = "measure", !.cfg = c, !.todo = @ \ {c}, !.full = full,
                                !.from = IF full THEN 0 ELSE NewestOf(c), !.parent = NewestOf(c)]
  BY <1>1, Zenon
<1>3. PICK n : n = NewestOf(c)
  OBVIOUS
<1>4. n \in {0} \union DOMAIN records /\ (~full => (n # 0 /\ (ir => records[n].lineage)))
  BY <1>2, <1>3, <1>a, NewestIs DEF Usable, Ids
<1>5. /\ cal'.at = "measure" /\ cal'.kind = cal.kind /\ cal'.cfg = c /\ cal'.todo \subseteq CFG /\ cal'.pinned = cal.pinned
      /\ cal'.full = full /\ cal'.from = (IF full THEN 0 ELSE n) /\ cal'.parent = n
      /\ cal'.checked = cal.checked /\ cal'.kept = cal.kept /\ CalShape'
  BY <1>2, <1>3 DEF CalOk, CalShape
<1>6. StoreInv'
  <2>0. ClockOk(c, x)
    BY <1>2, <1>a, LookedUpIs
  <2>1. DOMAIN clock' = CFG /\ \A d \in CFG : clock'[d] = IF d = c THEN x ELSE clock[d]
    BY <1>2, <1>a DEF StoreInv
  <2>2. \A d \in CFG : \E y : clock'[d] = y /\ ClockOk(d, y)
    BY <2>0, <2>1 DEF StoreInv
  <2> QED BY <1>a, <2>1, <2>2, StoreRests DEF StoreInv
<1>7. CalOk'
  <2>1. \A k \in DOMAIN cal'.kept : Sound(cal.kept[k])'
    <3> SUFFICES ASSUME NEW k \in DOMAIN cal.kept PROVE Sound(cal.kept[k])'
      BY <1>5
    <3>1. PICK r : r = cal.kept[k]
      OBVIOUS
    <3>2. Sound(r)'
      BY <3>1, GrownKeeps DEF CalOk, StoreInv
    <3> QED BY <1>5, <3>1, <3>2 DEF Sound, FullAt, Ids
  <2> QED BY <1>a, <1>4, <1>5, <2>1 DEF CalOk, CalShape
<1>8. Fresh'
  BY <1>a, <1>5 DEF Fresh
<1> QED BY <1>6, <1>7, <1>8

(* The record a measurement makes is sound. *)
LEMMA BuiltIs ==
  ASSUME StoreInv, CalOk, cal.at = "measure"
  PROVE  Sound(Built) /\ Built.full = cal.full /\ Built.cfg = cal.cfg /\ Built.at = hour
<1>1. /\ Built.cfg = cal.cfg /\ Built.at = hour /\ Built.full = cal.full
      /\ Built.fullUtc = (IF cal.full THEN hour ELSE clock[cal.cfg].full)
      /\ (Built.lineage <=> Lineage) /\ Built.from = cal.from /\ Built.pinned = cal.pinned
  BY DEF Built
<1>2. cal.cfg \in CFG /\ ClockOk(cal.cfg, clock[cal.cfg])
  BY DEF CalOk, StoreInv
<1>3. Built.fullUtc \in Nat /\ (~Built.full /\ Built.fullUtc # 0 => FullAt(Built.cfg, Built.fullUtc))
  BY <1>1, <1>2 DEF ClockOk, StoreInv
<1>4. Built.lineage => Built.full \/ (Built.from # 0 /\ records[Built.from].lineage)
  BY <1>1 DEF CalOk, Lineage
<1>5. ir /\ Built.from # 0 /\ ~Built.pinned => records[Built.from].lineage
  BY <1>1 DEF CalOk
<1> HIDE DEF Built
<1> QED BY <1>1, <1>2, <1>3, <1>4, <1>5 DEF Sound, CalOk, StoreInv

(* The measurement ends well. *)
LEMMA MeasuredKept ==
  ASSUME StoreInv, CalOk, Fresh, Grown, Measured
  PROVE  StoreInv' /\ CalOk' /\ Fresh'
<1>1. UNCHANGED <<hour, ir, auto, records, selected, clock>> /\ cal.at = "measure" /\ cal.kind \in {"scan", "gain", "session"}
  BY DEF Measured, EarlyTimes, CalOk
<1>2. PICK b : b = Built
  OBVIOUS
<1>3. Sound(b) /\ b.full = cal.full /\ b.cfg = cal.cfg /\ b.at = hour
  BY <1>1, <1>2, BuiltIs
<1>4. /\ cal' = [cal EXCEPT !.kept = Append(@, b), !.from = 0, !.parent = 0, !.full = FALSE,
                            !.at = IF cal.kind = "scan" THEN "store" ELSE "next"]
  BY <1>2 DEF Measured
<1>5. PICK s : s = Append(cal.kept, b)
  OBVIOUS
<1>6. /\ cal'.at = (IF cal.kind = "scan" THEN "store" ELSE "next") /\ cal'.kind = cal.kind /\ cal'.cfg = cal.cfg
      /\ cal'.todo = cal.todo /\ cal'.pinned = cal.pinned /\ cal'.from = 0 /\ cal'.parent = 0
      /\ cal'.checked = cal.checked /\ cal'.kept = s /\ CalShape'
  BY <1>4, <1>5 DEF CalOk, CalShape
<1>7. /\ IsSeq(s) /\ Len(s) = Len(cal.kept) + 1 /\ DOMAIN s = 1..(Len(cal.kept) + 1)
      /\ \A k \in 1..Len(cal.kept) : s[k] = cal.kept[k]
      /\ s[Len(cal.kept) + 1] = b /\ DOMAIN cal.kept = 1..Len(cal.kept) /\ Len(cal.kept) \in Nat
      /\ cal.kind = "scan" => Len(s) = 1 /\ s[1] = b
  <2>1. IsSeq(cal.kept) /\ (cal.kind = "scan" => cal.kept = <<>>)
    BY <1>1 DEF CalOk
  <2>2. cal.kind = "scan" => Len(cal.kept) = 0
    BY <2>1, EmptySeq
  <2> QED BY <1>5, <2>1, <2>2, AppendIs, SeqIs
<1>8. StoreInv'
  BY <1>1, StoreStays DEF StoreInv
<1>9. CalOk'
  <2>1. \A k \in DOMAIN s : Sound(s[k])
    <3> SUFFICES ASSUME NEW k \in DOMAIN s PROVE Sound(s[k])
      OBVIOUS
    <3>1. CASE k = Len(cal.kept) + 1
      BY <1>3, <1>7, <3>1
    <3>2. CASE k \in 1..Len(cal.kept)
      BY <1>7, <3>2 DEF CalOk
    <3> QED BY <1>7, <3>1, <3>2
  <2>2. \A k \in DOMAIN cal'.kept : Sound(cal.kept[k])'
    <3> SUFFICES ASSUME NEW k \in DOMAIN s PROVE Sound(cal.kept[k])'
      BY <1>6
    <3>1. PICK r : r = s[k]
      OBVIOUS
    <3>2. Sound(r)'
      BY <2>1, <3>1, GrownKeeps DEF StoreInv
    <3> QED BY <1>6, <3>1, <3>2 DEF Sound, FullAt, Ids
  <2> QED BY <1>1, <1>6, <1>7, <2>2 DEF CalOk, CalShape
<1>10. Fresh'
  <2>1. ASSUME cal.kind = "scan", ~cal.pinned, auto
        PROVE \/ FreshAt(cal.cfg, cal.checked)'
              \/ Len(s) = 1 /\ s[1].full /\ s[1].cfg = cal.cfg /\ cal.checked <= s[1].at
    <3>1. cal.full \/ FreshAt(cal.cfg, cal.checked)
      BY <1>1, <2>1 DEF Fresh
    <3>2. CASE cal.full
      BY <1>3, <1>7, <2>1, <3>2 DEF CalOk
    <3>3. CASE FreshAt(cal.cfg, cal.checked)
      BY <1>1, <1>6, <3>3 DEF FreshAt, Ids
    <3> QED BY <3>1, <3>2, <3>3
  <2>2. cal'.at # "scans" /\ cal'.at # "measure"
    BY <1>6
  <2> QED BY <1>1, <1>6, <2>1, <2>2 DEF Fresh
<1> QED BY <1>8, <1>9, <1>10

(* A put, taken or only left behind. *)
LEMMA PutKept ==
  ASSUME StoreInv, CalOk, Grown, NEW rec, rec.cfg \in CFG, Sound(rec),
         records' = Append(records, rec), hour' = hour, selected' = selected,
         \/ clock' = clock
         \/ clock' = [clock EXCEPT ![rec.cfg].run = rec.at, ![rec.cfg].full = IF rec.full THEN rec.at ELSE @]
  PROVE  StoreInv' /\ Len(records) + 1 \in Ids(rec.cfg)' /\ records'[Len(records) + 1] = rec
<1>1. /\ IsSeq(records) /\ IsSeq(records') /\ Len(records) \in Nat /\ DOMAIN records = 1..Len(records)
      /\ DOMAIN records' = 1..(Len(records) + 1)
      /\ \A k \in 1..Len(records) : records'[k] = records[k]
      /\ records'[Len(records) + 1] = rec
  <2>1. IsSeq(records)
    BY DEF StoreInv
  <2> QED BY <2>1, SeqIs, AppendIs
<1>2. Len(records) + 1 \in Ids(rec.cfg)'
  BY <1>1 DEF Ids
<1>3. \A k \in DOMAIN records' : Sound(records[k])'
  <2> SUFFICES ASSUME NEW k \in DOMAIN records' PROVE Sound(records[k])'
    OBVIOUS
  <2>1. PICK r : r = records'[k]
    OBVIOUS
  <2>2. Sound(r)
    <3>1. CASE k \in 1..Len(records)
      BY <1>1, <2>1, <3>1 DEF StoreInv
    <3>2. CASE k = Len(records) + 1
      BY <1>1, <2>1, <3>2
    <3> QED BY <1>1, <3>1, <3>2
  <2>3. Sound(r)'
    BY <1>1, <2>2, GrownKeeps
  <2> QED BY <2>1, <2>3 DEF Sound, FullAt, Ids
<1>4. DOMAIN clock' = CFG
  BY DEF StoreInv
<1>5. \A c \in CFG : ClockOk(c, clock[c])'
  <2> SUFFICES ASSUME NEW c \in CFG PROVE ClockOk(c, clock[c])'
    OBVIOUS
  <2>1. ClockOk(c, clock[c])
    BY DEF StoreInv
  <2>2. CASE clock'[c] = clock[c]
    <3>1. PICK x : x = clock[c]
      OBVIOUS
    <3>2. ClockOk(c, x)'
      BY <1>1, <2>1, <3>1, GrownKeeps
    <3> QED BY <2>2, <3>1, <3>2 DEF ClockOk, FullAt, Ids
  <2>3. CASE c = rec.cfg /\ clock' = [clock EXCEPT ![rec.cfg].run = rec.at, ![rec.cfg].full = IF rec.full THEN rec.at ELSE @]
    <3>1. PICK x, r, f, l : x = clock[c] /\ clock[c] = [run |-> r, full |-> f, looked |-> l]
      BY <2>1 DEF ClockOk
    <3>2. clock'[c] = [run |-> rec.at, full |-> IF rec.full THEN rec.at ELSE f, looked |-> l]
      <4> DEFINE z == [[run |-> r, full |-> f, looked |-> l] EXCEPT !.run = rec.at]
                 g == [clock EXCEPT ![c] = z]
      <4>1. z = [run |-> rec.at, full |-> f, looked |-> l]
        OBVIOUS
      <4>2. c \in DOMAIN clock
        BY DEF StoreInv
      <4>3. [clock EXCEPT ![c].run = rec.at] = g
        BY <3>1
      <4>4. clock' = [[clock EXCEPT ![c].run = rec.at] EXCEPT ![c].full = IF rec.full THEN rec.at ELSE @]
        BY <2>3
      <4>5. clock' = [g EXCEPT ![c].full = IF rec.full THEN rec.at ELSE @]
        BY <4>3, <4>4, ZenonT(60)
      <4>6. c \in DOMAIN g /\ g[c] = z
        BY <4>2
      <4> HIDE DEF g, z
      <4>7. clock'[c] = [z EXCEPT !.full = IF rec.full THEN rec.at ELSE z.full]
        BY <4>5, <4>6
      <4> QED BY <4>1, <4>7
    <3>3. x.full = f /\ f \in Nat /\ rec.at \in Nat
      BY <2>1, <3>1 DEF ClockOk, Sound
    <3>4. PICK y : y = clock'[c]
      OBVIOUS
    <3>5. y.run = rec.at /\ y.full = (IF rec.full THEN rec.at ELSE f) /\ y = [run |-> y.run, full |-> y.full, looked |-> y.looked]
      BY <3>2, <3>4
    <3>6. f # 0 => FullAt(c, f)'
      <4>1. f # 0 => FullAt(c, f)
        BY <2>1, <3>1, <3>3 DEF ClockOk
      <4> QED BY <1>1, <4>1, GrownKeeps
    <3>7. rec.full => FullAt(c, rec.at)'
      BY <1>1, <1>2, <2>3 DEF FullAt
    <3>8. \E k \in Ids(c)' : records'[k].at = rec.at
      BY <1>1, <1>2, <2>3
    <3> QED BY <3>3, <3>4, <3>5, <3>6, <3>7, <3>8 DEF ClockOk, FullAt, Ids
  <2>4. clock'[c] = clock[c] \/ (c = rec.cfg /\ clock' = [clock EXCEPT ![rec.cfg].run = rec.at,
                                                                ![rec.cfg].full = IF rec.full THEN rec.at ELSE @])
    BY DEF StoreInv
  <2> QED BY <2>2, <2>3, <2>4
<1>6. \A c \in CFG : selected'[c] \in {0} \union Ids(c)'
  BY <1>1, GrownKeeps DEF StoreInv
<1> QED BY <1>1, <1>2, <1>3, <1>4, <1>5, <1>6 DEF StoreInv

(* What the rest of the kept records is when the first one was put. *)
LEMMA KeptShrinks ==
  ASSUME StoreInv, CalOk, Fresh, Grown, cal.at = "store", cal.kept # <<>>, NEW kind, kind = cal.kind \/ kind = "failed",
         hour' = hour, auto' = auto, cal' = [cal EXCEPT !.kept = Tail(@), !.kind = kind]
  PROVE  /\ CalOk'
         /\ Sound(Head(cal.kept)) /\ Head(cal.kept).cfg \in CFG
         /\ (kind = "failed" \/ \E k \in DOMAIN records' : records'[k] = Head(cal.kept)) => Fresh'
<1>1. /\ IsSeq(Tail(cal.kept)) /\ DOMAIN Tail(cal.kept) = 1..(Len(cal.kept) - 1)
      /\ \A k \in 1..(Len(cal.kept) - 1) : Tail(cal.kept)[k] = cal.kept[k + 1]
      /\ Head(cal.kept) = cal.kept[1] /\ 1 \in 1..Len(cal.kept)
      /\ DOMAIN cal.kept = 1..Len(cal.kept) /\ Len(cal.kept) \in Nat
  <2>1. IsSeq(cal.kept)
    BY DEF CalOk
  <2> QED BY <2>1, SeqIs, TailIs
<1>2. Sound(Head(cal.kept)) /\ Head(cal.kept).cfg \in CFG
  <2>1. Sound(Head(cal.kept))
    BY <1>1 DEF CalOk
  <2> QED BY <2>1 DEF Sound
<1>3. PICK s : s = Tail(cal.kept)
  OBVIOUS
<1>4. /\ cal'.at = "store" /\ cal'.kind = kind /\ cal'.cfg = cal.cfg /\ cal'.todo = cal.todo
      /\ cal'.pinned = cal.pinned /\ cal'.from = cal.from
      /\ cal'.parent = cal.parent /\ cal'.full = cal.full /\ cal'.checked = cal.checked /\ cal'.kept = s /\ CalShape'
  BY <1>3 DEF CalOk, CalShape
<1>5. \A k \in DOMAIN cal'.kept : Sound(cal.kept[k])'
  <2> SUFFICES ASSUME NEW k \in DOMAIN s PROVE Sound(cal.kept[k])'
    BY <1>4
  <2>1. PICK r : r = s[k]
    OBVIOUS
  <2>2. k + 1 \in 1..Len(cal.kept) /\ r = cal.kept[k + 1]
    BY <1>1, <1>3, <2>1
  <2>3. Sound(r)
    BY <1>1, <2>2 DEF CalOk
  <2>4. Sound(r)'
    BY <2>3, GrownKeeps DEF StoreInv
  <2> QED BY <1>4, <2>1, <2>4 DEF Sound, FullAt, Ids
<1>6. CalOk'
  <2>1. cal'.from \in {0} \union DOMAIN records' /\ cal'.parent \in {0} \union DOMAIN records'
    BY <1>4 DEF CalOk, Grown
  <2> QED BY <1>1, <1>3, <1>4, <1>5, <2>1 DEF CalOk, CalShape
<1>7. ASSUME kind = "failed" \/ \E k \in DOMAIN records' : records'[k] = Head(cal.kept)
      PROVE  Fresh'
  <2>1. CASE kind = "failed"
    BY <1>4, <2>1 DEF Fresh
  <2>2. CASE kind = cal.kind /\ \E k \in DOMAIN records' : records'[k] = Head(cal.kept)
    <3> SUFFICES ASSUME cal.kind = "scan", ~cal.pinned, auto PROVE FreshAt(cal.cfg, cal.checked)'
      BY <1>4, <2>2 DEF Fresh
    <3>1. CASE FreshAt(cal.cfg, cal.checked)
      <4>1. \A d, t : d = cal.cfg /\ t = cal.checked => FreshAt(d, t)'
        BY <3>1, GrownKeeps DEF StoreInv
      <4> QED BY <1>4, <4>1 DEF FreshAt, Ids
    <3>2. CASE cal.kept[1].full /\ cal.kept[1].cfg = cal.cfg /\ cal.checked <= cal.kept[1].at
      <4>1. PICK r : r = cal.kept[1]
        OBVIOUS
      <4>2. PICK k \in DOMAIN records' : records'[k] = r
        BY <1>1, <2>2, <4>1
      <4>3. r.cfg = cal.cfg /\ r.full /\ cal.checked <= r.at /\ r.at \in Nat /\ cal.checked \in Nat
        BY <1>1, <1>2, <3>2, <4>1 DEF CalOk, Sound
      <4>4. cal.checked - r.at <= FULL_AFTER
        BY <4>3, CalAssumption
      <4> QED BY <1>4, <4>2, <4>3, <4>4 DEF FreshAt, Ids
    <3> QED BY <3>1, <3>2 DEF Fresh
  <2> QED BY <1>7, <2>1, <2>2
<1> QED BY <1>2, <1>6, <1>7

(* The put succeeds. *)
LEMMA StoresKept ==
  ASSUME StoreInv, CalOk, Fresh, Grown, Stores
  PROVE  StoreInv' /\ CalOk' /\ Fresh'
<1>1. PICK rec : rec = Head(cal.kept)
  OBVIOUS
<1>2. /\ cal.at = "store" /\ cal.kept # <<>> /\ UNCHANGED <<hour, ir, auto, selected>>
      /\ records' = Append(records, rec) /\ cal' = [cal EXCEPT !.kept = Tail(@)]
      /\ clock' = [clock EXCEPT ![rec.cfg].run = rec.at, ![rec.cfg].full = IF rec.full THEN rec.at ELSE @]
  BY <1>1 DEF Stores
<1>3. cal' = [cal EXCEPT !.kept = Tail(@), !.kind = cal.kind]
  BY <1>2 DEF CalOk
<1>4. Sound(rec) /\ rec.cfg \in CFG /\ CalOk'
  BY <1>1, <1>2, <1>3, KeptShrinks
<1>5. StoreInv' /\ Len(records) + 1 \in Ids(rec.cfg)' /\ records'[Len(records) + 1] = rec
  BY <1>2, <1>4, PutKept
<1>6. \E k \in DOMAIN records' : records'[k] = Head(cal.kept)
  BY <1>1, <1>5 DEF Ids
<1> QED BY <1>2, <1>3, <1>4, <1>5, <1>6, KeptShrinks

(* The put fails, and may have left its record. *)
LEMMA FailsKept ==
  ASSUME StoreInv, CalOk, Fresh, Grown, StoreFails
  PROVE  StoreInv' /\ CalOk' /\ Fresh'
<1>1. PICK rec : rec = Head(cal.kept)
  OBVIOUS
<1>2. /\ cal.at = "store" /\ cal.kept # <<>> /\ UNCHANGED <<hour, ir, auto, selected, clock>>
      /\ cal' = [cal EXCEPT !.kept = Tail(@), !.kind = "failed"]
      /\ records' = records \/ records' = Append(records, rec)
  BY <1>1 DEF StoreFails
<1>3. Sound(rec) /\ rec.cfg \in CFG /\ CalOk' /\ Fresh'
  BY <1>1, <1>2, KeptShrinks
<1>4. CASE records' = records
  BY <1>2, <1>3, <1>4, StoreStays DEF StoreInv
<1>5. CASE records' = Append(records, rec)
  BY <1>2, <1>3, <1>5, PutKept
<1> QED BY <1>2, <1>3, <1>4, <1>5

(* The steps that leave cal and let the records grow. *)
LEMMA CalRests ==
  ASSUME StoreInv, CalOk, Fresh, Grown, cal' = cal, auto' = auto, hour' \in Nat, hour' >= hour
  PROVE  CalOk' /\ Fresh'
<1>1. PICK x, kept : x = cal /\ kept = cal.kept
  OBVIOUS
<1>2. \A k \in DOMAIN cal'.kept : Sound(cal.kept[k])'
  <2> SUFFICES ASSUME NEW k \in DOMAIN kept PROVE Sound(cal.kept[k])'
    BY <1>1
  <2>1. PICK r : r = kept[k]
    OBVIOUS
  <2>2. Sound(r)'
    BY <1>1, <2>1, GrownKeeps DEF CalOk, StoreInv
  <2> QED BY <1>1, <2>1, <2>2 DEF Sound, FullAt, Ids
<1>3. CalOk'
  <2>1. /\ cal'.from \in {0} \union DOMAIN records' /\ cal'.parent \in {0} \union DOMAIN records'
        /\ cal.from # 0 => records'[cal.from] = records[cal.from]
    BY DEF CalOk, Grown
  <2>2. cal'.checked \in Nat /\ cal'.checked <= hour'
    BY DEF CalOk, StoreInv
  <2>3. ir' = ir
    BY DEF Grown
  <2> QED BY <1>2, <2>1, <2>2, <2>3 DEF CalOk
<1>4. FreshAt(cal.cfg, cal.checked) => FreshAt(cal.cfg, cal.checked)'
  <2> SUFFICES ASSUME FreshAt(cal.cfg, cal.checked) PROVE FreshAt(cal.cfg, cal.checked)'
    OBVIOUS
  <2>1. \A d, t : d = cal.cfg /\ t = cal.checked => FreshAt(d, t)'
    BY GrownKeeps DEF StoreInv
  <2> QED BY <2>1 DEF FreshAt, Ids
<1>5. Fresh'
  BY <1>4 DEF Fresh
<1> QED BY <1>3, <1>5

(* Time passes, the application selects or imports, or nothing happens. *)
LEMMA WorldKept ==
  ASSUME StoreInv, CalOk, Fresh, Grown, HourPasses \/ AppSelects \/ AppImports \/ UNCHANGED calVars
  PROVE  StoreInv' /\ CalOk' /\ Fresh'
<1>1. cal' = cal /\ auto' = auto /\ hour' \in Nat /\ hour' >= hour /\ clock' = clock
  BY DEF HourPasses, AppSelects, AppImports, calVars, StoreInv
<1>2. CalOk' /\ Fresh'
  BY <1>1, CalRests
<1>3. CASE HourPasses
  <2>1. records' = records /\ selected' = selected /\ hour' # 0
    BY <1>3 DEF HourPasses, StoreInv
  <2> QED BY <1>1, <1>2, <2>1, StoreStays
<1>4. CASE AppSelects
  <2>1. PICK c \in CFG : \E k \in {0} \cup Ids(c) : selected' = [selected EXCEPT ![c] = k]
    BY <1>4 DEF AppSelects
  <2>2. UNCHANGED <<hour, ir, records>>
    BY <1>4 DEF AppSelects
  <2>3. DOMAIN selected' = CFG /\ \A d \in CFG : selected'[d] \in {0} \union Ids(d)
    BY <2>1 DEF StoreInv
  <2>4. \A d : Ids(d)' = Ids(d)
    BY <2>2 DEF Ids
  <2>5. \A j \in DOMAIN records' : Sound(records[j])'
    BY <2>2 DEF StoreInv, Sound, FullAt, Ids
  <2>6. \A d \in CFG : ClockOk(d, clock[d])'
    BY <1>1, <2>2 DEF StoreInv, ClockOk, FullAt, Ids
  <2> QED BY <1>1, <1>2, <2>2, <2>3, <2>4, <2>5, <2>6 DEF StoreInv
<1>5. CASE AppImports
  <2>1. PICK c \in CFG : records' = Append(records, AsImported(c))
    BY <1>5 DEF AppImports
  <2>2. PICK rec : rec = AsImported(c)
    OBVIOUS
  <2>3. rec.cfg \in CFG /\ Sound(rec)
    BY <2>2 DEF AsImported, Sound, StoreInv
  <2>4. UNCHANGED <<hour, selected>>
    BY <1>5 DEF AppImports
  <2> QED BY <1>1, <2>1, <2>2, <2>3, <2>4, PutKept, <1>2
<1>6. CASE UNCHANGED calVars
  <2>1. records' = records /\ selected' = selected /\ hour' # 0
    BY <1>6 DEF calVars, StoreInv
  <2> QED BY <1>1, <1>2, <2>1, StoreStays
<1> QED BY <1>2, <1>3, <1>4, <1>5, <1>6

(* Every step keeps the invariant. *)
LEMMA RecordsKept == StoreInv /\ CalOk /\ Fresh /\ [CalNext]_calVars => StoreInv' /\ CalOk' /\ Fresh'
<1> SUFFICES ASSUME StoreInv, CalOk, Fresh, [CalNext]_calVars PROVE StoreInv' /\ CalOk' /\ Fresh'
  OBVIOUS
<1>1. Grown
  BY GrownIs
<1>2. CASE \E c \in CFG : ResolveScan(c)
  BY <1>1, <1>2, ResolveKept
<1>3. CASE ScanDue
  BY <1>1, <1>3, DueKept
<1>4. CASE ScanEnds \/ StartCalibrate \/ BasesDone \/ MeasureFails \/ StoreDone \/ Reopens
  BY <1>1, <1>4, RestKept
<1>5. CASE NextBase
  BY <1>1, <1>5, NextKept
<1>6. CASE Measured
  BY <1>1, <1>6, MeasuredKept
<1>7. CASE Stores
  BY <1>1, <1>7, StoresKept
<1>8. CASE StoreFails
  BY <1>1, <1>8, FailsKept
<1>9. CASE HourPasses \/ AppSelects \/ AppImports \/ UNCHANGED calVars
  BY <1>1, <1>9, WorldKept
<1> QED BY <1>2, <1>3, <1>4, <1>5, <1>6, <1>7, <1>8, <1>9 DEF CalNext

(* It holds at first. *)
LEMMA RecordsBegin == CalInit => StoreInv /\ CalOk /\ Fresh
<1> SUFFICES ASSUME CalInit PROVE StoreInv /\ CalOk /\ Fresh
  OBVIOUS
<1>1. hour = 1 /\ selected = [c \in CFG |-> 0] /\ clock = [c \in CFG |-> Unknown] /\ cal = Idle
  BY DEF CalInit
<1>2. PICK old \in {0} \cup CFG :
        records = IF old = 0 THEN <<>> ELSE <<[AsImported(old) EXCEPT !.full = TRUE, !.fullUtc = 1]>>
  BY DEF CalInit
<1>3. IsSeq(records) /\ \A k \in DOMAIN records : Sound(records[k])
  <2>1. CASE old = 0
    <3>1. IsSeq(<<>>) /\ DOMAIN <<>> = {}
      BY EmptySeq, LenProperties DEF IsSeq
    <3> QED BY <1>2, <2>1, <3>1
  <2>2. CASE old # 0
    <3>1. PICK rec : rec = [AsImported(old) EXCEPT !.full = TRUE, !.fullUtc = 1]
      OBVIOUS
    <3>2. rec = [cfg |-> old, at |-> 1, full |-> TRUE, fullUtc |-> 1, lineage |-> FALSE, from |-> 0, pinned |-> FALSE]
      BY <1>1, <3>1 DEF AsImported
    <3>3. rec.cfg = old /\ rec.at = 1 /\ rec.full /\ rec.fullUtc = 1 /\ ~rec.lineage /\ rec.from = 0
      BY <3>2
    <3>4. Sound(rec)
      BY <1>2, <2>2, <3>3 DEF Sound
    <3>5. records = <<rec>> /\ <<rec>> \in Seq({rec})
      BY <1>2, <2>2, <3>1
    <3>6. IsSeq(records)
      BY <3>5, Zenon DEF IsSeq
    <3>7. DOMAIN records = 1..1 /\ records[1] = rec
      BY <3>5
    <3> QED BY <3>4, <3>6, <3>7
  <2> QED BY <2>1, <2>2
<1>4. \A c \in CFG : ClockOk(c, Unknown)
  BY DEF ClockOk, Unknown
<1>5. StoreInv
  BY <1>1, <1>3, <1>4 DEF StoreInv
<1> QED BY <1>1, <1>3, <1>5, IdleIsOk

(* It implies what the run checks. *)
LEMMA RecordsImplied == StoreInv /\ Fresh => RecordsAreTrue
<1> SUFFICES ASSUME StoreInv, Fresh PROVE RecordsAreTrue
  OBVIOUS
<1>1. TimesAreStored
  <2>1. ASSUME NEW c \in CFG
        PROVE  /\ clock[c].run # 0 => \E k \in Ids(c) : records[k].at = clock[c].run
               /\ clock[c].full # 0 => FullAt(c, clock[c].full)
    BY DEF StoreInv, ClockOk
  <2>2. ASSUME NEW k \in DOMAIN records, records[k].fullUtc # 0 PROVE FullAt(records[k].cfg, records[k].fullUtc)
    <3>1. Sound(records[k])
      BY DEF StoreInv
    <3>2. CASE records[k].full
      BY <2>2, <3>1, <3>2 DEF Sound, FullAt, Ids
    <3>3. CASE ~records[k].full
      BY <2>2, <3>1, <3>3 DEF Sound
    <3> QED BY <3>2, <3>3
  <2> QED BY <2>1, <2>2 DEF TimesAreStored, FullAt
<1>2. LineageIsFull
  BY DEF StoreInv, Sound, LineageIsFull
<1>3. FullWhenLate
  BY DEF Fresh, FullWhenLate, FreshAt
<1> QED BY <1>1, <1>2, <1>3 DEF RecordsAreTrue

(* RecordsAreTrue: a session's and the records' times are those of stored records, an IR lineage goes back to a *)
(* full search, and no unpinned scan runs without a fresh full search in the store: for every set of            *)
(* configurations, every policy and any number of runs, failed puts, selections, imports and restarts.          *)
THEOREM RecordsStayTrue == CalSpec => []RecordsAreTrue
<1>1. CalSpec => [](StoreInv /\ CalOk /\ Fresh)
  <2> HIDE DEF CalInit, CalNext, calVars, StoreInv, CalOk, Fresh
  <2> QED BY RecordsBegin, RecordsKept, PTL DEF CalSpec
<1> QED BY <1>1, RecordsImplied, PTL

-----------------------------------------------------------------------------
(* LightSearch: the search                                                 *)

(* The stages of a light search, and the ranges of the AFE. *)
Stages == {"window", "black", "light", "currents", "duty", "raise", "flat", "lag", "over"}
Gains == [RGB -> 0..GAIN_MAX]
Offsets == [RGB -> (1 - OFFSET_MAX)..OFFSET_MAX]

(* What the code holds. *)
SetShape(x) == x = [cur |-> x.cur, d |-> x.d, words |-> x.words, gain |-> x.gain, off |-> x.off]
SetOk ==
  /\ SetShape(set)
  /\ set.cur \in [CH -> Nat] /\ set.d \in [CH -> Nat] /\ set.gain \in Gains /\ set.off \in Offsets
(* What the boards were sent: LampFits is what the light board lets through. *)
DevShape(x) ==
  x = [vis |-> x.vis, lv |-> x.lv, on |-> x.on, ir |-> x.ir, gain |-> x.gain, off |-> x.off, acquiring |-> x.acquiring]
LampFits(x) ==
  /\ x.lv \in [CH -> Nat] /\ x.on \in [CH -> Nat]
  /\ \A c \in CH : x.lv[c] <= Limit[c] /\ x.on[c] <= PERIOD - 2
  /\ (\A c \in CH : x.lv[c] = 0) \/ (job.ir => x.lv["Ir"] > 0)
DevOk == DevShape(dev) /\ LampFits(dev) /\ dev.gain \in Gains /\ dev.off \in Offsets
(* The search. *)
SearchShape(x) ==
  x = [round |-> x.round, done |-> x.done, last |-> x.last, last2 |-> x.last2, confirm |-> x.confirm, steps |-> x.steps,
       outer |-> x.outer, flags |-> x.flags, failed |-> x.failed]
SearchOk ==
  /\ SearchShape(search)
  /\ search.round \in Nat /\ search.steps \in Nat /\ search.outer \in Nat
(* All of the types. *)
LightTypes == job \in JOBS /\ at \in Stages /\ SetOk /\ DevOk /\ SearchOk

(* The lamp burns with the currents the code holds. *)
LampIsSet == \A c \in Channels : dev.lv[c] = set.cur[c]

(* What each stage of the search relies on. *)
Pace ==
  /\ at \notin {"window", "over"} => dev.acquiring /\ dev.gain = set.gain /\ dev.off = set.off
  /\ at \in {"window", "black", "light", "currents"} => set.gain = [c \in RGB |-> GAIN_START]
  /\ at \in {"light", "currents", "duty", "raise", "flat"} => dev.ir = job.ir /\ set.words = IF job.ir THEN 4 ELSE 3
  /\ at \in {"currents", "duty", "raise", "flat", "lag"} =>
       /\ \A c \in CH : 1 <= set.cur[c]
       /\ \A c \in Channels : set.cur[c] <= Limit[c]
  /\ at \in {"currents", "duty", "raise", "flat"} => dev.vis
  /\ at \in {"currents", "flat"} \/ (at = "duty" /\ search.round > 0) => LampIsSet
  /\ at = "duty" /\ search.round = 0 => search.confirm = DUTY_CONFIRM

(* The channels still searched have risen by one at every step. *)
Rising ==
  at = "currents" =>
    /\ search.done \subseteq CH /\ search.done # CH /\ search.steps < CURRENT_STEPS_MAX
    /\ \A c \in CH \ search.done : c \in Channels /\ set.cur[c] = 1 + search.steps

(* The raises a channel has left, and those of all: every raise takes one away, so their number bounds the loop. *)
Left(c) ==
  IF c = "Ir" THEN IF job.ir THEN LIM_IR[c] - set.cur[c] ELSE 0
  ELSE IF set.cur[c] < Limit[c] THEN Limit[c] - set.cur[c] + GAIN_MAX - GAIN_START
  ELSE GAIN_MAX - set.gain[c]
AllLeft == Left("R") + Left("G") + Left("B") + Left("Ir")
Most == Raises(Limit, "R") + Raises(Limit, "G") + Raises(Limit, "B") + Greatest(1, Limit["Ir"]) - 1

(* The currents are within their limits, and then no more raises are left than there were at first. *)
CurrentsFit == LightTypes /\ (\A c \in CH : 1 <= set.cur[c]) /\ \A c \in Channels : set.cur[c] <= Limit[c]
Bounded == AllLeft \in Nat /\ AllLeft <= Most

(* The raises made and those left are never more than Most. *)
Ending ==
  /\ at \in {"duty", "raise"} => search.outer + AllLeft <= Most
  /\ at = "raise" => search.flags # {} /\ search.flags \subseteq Channels

(* The inductive invariant. *)
LightInv == LightTypes /\ Pace /\ Rising /\ Ending

-----------------------------------------------------------------------------
(* What the assumptions say of a job, its channels and its limits. *)
LEMMA LimitIs ==
  ASSUME job \in JOBS
  PROVE  /\ job.ir \in BOOLEAN /\ job.light \in [CH -> Nat] /\ job.dark \in [RGB -> Int]
         /\ job.cur \in [CH -> Nat] /\ job.duty \in [CH -> Nat] /\ \A c \in RGB : job.gain[c] \in Nat
         /\ Limit \in [CH -> 0..CURRENT_STEPS_MAX] /\ \A c \in Channels : Limit[c] >= 1
         /\ RGB \subseteq Channels /\ Channels \subseteq CH /\ RGB \subseteq CH /\ "Ir" \in CH
         /\ "Ir" \in Channels <=> job.ir
         /\ Most \in Nat /\ Most + 1 < OUTER_MAX
<1>1. /\ job.ir \in BOOLEAN /\ job.light \in [CH -> Nat] /\ job.dark \in [RGB -> Int]
      /\ job.cur \in [CH -> Nat] /\ job.duty \in [CH -> Nat] /\ \A c \in RGB : job.gain[c] \in Nat
  BY JobAssumption
<1>2. RGB \subseteq Channels /\ Channels \subseteq CH /\ RGB \subseteq CH /\ "Ir" \in CH /\ ("Ir" \in Channels <=> job.ir)
  BY <1>1 DEF Channels, CH, RGB
<1>3. Limit \in [CH -> 0..CURRENT_STEPS_MAX] /\ Limit \in {LIM_RGB, LIM_IR}
  BY LightAssumption DEF Limit
<1>4. \A c \in Channels : Limit[c] >= 1
  BY LightAssumption DEF Limit, Channels, CH
<1>5. Raises(Limit, "R") + Raises(Limit, "G") + Raises(Limit, "B") + Greatest(1, Limit["Ir"]) < OUTER_MAX
  BY <1>3, LightAssumption
<1>6. \A c \in RGB : Raises(Limit, c) \in Nat /\ Raises(Limit, c) > 0
  BY <1>2, <1>3, <1>4, LightAssumption DEF Raises, Greatest
<1>7. Raises(Limit, "R") \in Nat /\ Raises(Limit, "G") \in Nat /\ Raises(Limit, "B") \in Nat
  BY <1>6 DEF RGB
<1>8. Greatest(1, Limit["Ir"]) \in Nat /\ Greatest(1, Limit["Ir"]) >= 1
  BY <1>2, <1>3 DEF Greatest
<1>9. Most \in Nat /\ Most + 1 < OUTER_MAX
  BY <1>5, <1>7, <1>8, LightAssumption DEF Most
<1> QED BY <1>1, <1>2, <1>3, <1>4, <1>9

(* A reading is a number. *)
LEMMA ReadingIs ==
  ASSUME LightTypes, NEW c \in CH
  PROVE  Reading(c) \in Nat
<1>1. job.light[c] \in Nat /\ dev.lv[c] \in Nat /\ dev.on[c] \in Nat
  BY LimitIs DEF LightTypes, DevOk, LampFits
<1>2. (IF c = "Ir" THEN 1 ELSE dev.gain[c]) \in Nat
  BY LightAssumption DEF LightTypes, DevOk, Gains, CH, RGB
<1>3. \A x, y \in Nat : x * y \in Nat
  OBVIOUS
<1>4. \A x, y \in Nat : y # 0 => x \div y \in Nat
  OBVIOUS
<1>5. (job.light[c] * dev.lv[c] * dev.on[c] * (IF c = "Ir" THEN 1 ELSE dev.gain[c])) \in Nat
  BY <1>1, <1>2, <1>3
<1>6. (job.light[c] * dev.lv[c] * dev.on[c] * (IF c = "Ir" THEN 1 ELSE dev.gain[c])) \div MAXD \in Nat
  BY <1>4, <1>5, LightAssumption
<1> QED BY <1>6 DEF Reading, Least, FULL

(* So are the duties the search computes. *)
LEMMA DutyIs ==
  ASSUME LightTypes
  PROVE  /\ \A n \in Nat : DutyForCurrent(n) \in Nat
         /\ \A c \in CH : NextDuty(c) \in Nat
<1>1. \A x, y \in Nat : y # 0 => x \div y \in Nat
  OBVIOUS
<1>2. ASSUME NEW n \in Nat PROVE DutyForCurrent(n) \in Nat
  <2>1. MAXD \div 2 \in Nat
    BY <1>1, LightAssumption
  <2>2. n >= 3 => (MAXD * (n - 1)) \div n \in Nat
    <3>1. n >= 3 => n - 1 \in Nat
      OBVIOUS
    <3>2. n >= 3 => MAXD * (n - 1) \in Nat
      BY <3>1, LightAssumption
    <3> QED BY <1>1, <3>2
  <2> QED BY <2>1, <2>2 DEF DutyForCurrent, Greatest
<1>3. ASSUME NEW c \in CH PROVE NextDuty(c) \in Nat
  <2>1. Reading(c) \in Nat /\ set.d[c] \in Nat
    BY ReadingIs DEF LightTypes, SetOk
  <2>2. set.d[c] * TARGET \in Nat /\ 2 * set.d[c] \in Nat
    BY <2>1 DEF TARGET
  <2>3. Reading(c) # 0 => Scaled(c) \in Nat
    BY <1>1, <2>1, <2>2 DEF Scaled, Greatest
  <2> QED BY <2>1, <2>2, <2>3, LightAssumption DEF NextDuty
<1> QED BY <1>2, <1>3

(* lamp_apply sends what the light board lets through. *)
LEMMA LitIs ==
  ASSUME LightTypes, NEW vis, NEW cur \in [CH -> Nat], NEW d \in [CH -> Nat], cur["Ir"] >= 1,
         NEW x, x = Lit(vis, cur, d)
  PROVE  /\ DevShape(x) /\ LampFits(x)
         /\ x.vis = vis /\ x.ir = dev.ir /\ x.gain = dev.gain /\ x.off = dev.off /\ x.acquiring = dev.acquiring
         /\ \A c \in CH : cur[c] <= Limit[c] => x.lv[c] = cur[c]
<1> DEFINE lv == [c \in CH |-> Least(cur[c], Limit[c])]
           on == [c \in CH |-> IF c = "Ir" /\ ~job.ir THEN 0 ELSE OnCount(d[c])]
<1>1. x = [dev EXCEPT !.vis = vis, !.lv = lv, !.on = on]
  BY DEF Lit
<1> HIDE DEF lv, on
<1>2. /\ DevShape(x) /\ x.lv = lv /\ x.on = on
      /\ x.vis = vis /\ x.ir = dev.ir /\ x.gain = dev.gain /\ x.off = dev.off /\ x.acquiring = dev.acquiring
  BY <1>1 DEF LightTypes, DevOk, DevShape
<1>3. \A c \in CH : Limit[c] \in Nat /\ cur[c] \in Nat /\ d[c] \in Nat
  BY LimitIs DEF LightTypes
<1>4. PERIOD - 2 = MAXD /\ MAXD \in Nat
  BY LightAssumption DEF PERIOD
<1>5. lv \in [CH -> Nat] /\ \A c \in CH : lv[c] <= Limit[c] /\ (cur[c] <= Limit[c] => lv[c] = cur[c])
  BY <1>3 DEF lv, Least
<1>6. on \in [CH -> Nat] /\ \A c \in CH : on[c] <= PERIOD - 2
  BY <1>3, <1>4 DEF on, OnCount, Least
<1>7. job.ir => lv["Ir"] > 0
  <2>1. job.ir => Limit["Ir"] >= 1
    BY LimitIs DEF LightTypes
  <2>2. "Ir" \in CH
    BY DEF CH
  <2> QED BY <1>3, <2>1, <2>2 DEF lv, Least
<1> QED BY <1>2, <1>5, <1>6, <1>7 DEF LampFits

(* The lamp's values depend on the job alone. *)
LEMMA FitsPrimed ==
  ASSUME job' = job, NEW x, x.lv = dev'.lv, x.on = dev'.on, LampFits(x)
  PROVE  LampFits(dev)'
BY DEF LampFits, Limit, PERIOD

(* So do the limits. *)
LEMMA SameJob ==
  ASSUME job' = job
  PROVE  Limit' = Limit /\ Channels' = Channels /\ Most' = Most
BY DEF Limit, Channels, Most

(* A search that begins. *)
LEMMA NoSearchIs ==
  ASSUME NEW done, NEW x, x = [NoSearch EXCEPT !.done = done]
  PROVE  /\ SearchShape(x) /\ x.round = 0 /\ x.done = done /\ x.confirm = DUTY_CONFIRM /\ x.steps = 0 /\ x.outer = 0
         /\ x.flags = {}
<1>1. x = [round |-> 0, done |-> done, last |-> [c \in CH |-> 0], last2 |-> [c \in CH |-> 0],
           confirm |-> DUTY_CONFIRM, steps |-> 0, outer |-> 0, flags |-> {}, failed |-> "none"]
  BY DEF NoSearch, SearchFrom
<1>2. /\ x.round = 0 /\ x.done = done /\ x.confirm = DUTY_CONFIRM /\ x.steps = 0 /\ x.outer = 0
      /\ x.flags = {} /\ x.failed = "none" /\ x.last = [c \in CH |-> 0] /\ x.last2 = [c \in CH |-> 0]
  BY <1>1
<1>3. SearchShape(x)
  BY <1>1, <1>2, Zenon DEF SearchShape
<1> QED BY <1>2, <1>3

(* The invariant holds at first. *)
LEMMA LightOpens == LightInit => LightInv
<1> SUFFICES ASSUME LightInit PROVE LightInv
  OBVIOUS
<1>1. /\ job \in JOBS /\ at = "window"
      /\ SetShape(set) /\ set.cur = [c \in CH |-> 1] /\ set.d = [c \in CH |-> 1] /\ set.gain = [c \in RGB |-> GAIN_START]
      /\ set.off = [c \in RGB |-> OFFSET_START]
      /\ DevShape(dev) /\ dev.lv = [c \in CH |-> 0] /\ dev.on = [c \in CH |-> 0]
      /\ dev.gain = [c \in RGB |-> 1] /\ dev.off = [c \in RGB |-> 0]
  BY DEF LightInit, SetShape, DevShape
<1>2. SearchShape(search) /\ search.round = 0 /\ search.steps = 0 /\ search.outer = 0
  <2>1. search = SearchFrom(DUTY_CONFIRM)
    BY DEF LightInit, NoSearch
  <2> QED BY <2>1 DEF SearchFrom, SearchShape
<1>3. \A c \in CH : 0 <= Limit[c] /\ 0 <= PERIOD - 2
  BY <1>1, LimitIs, LightAssumption DEF PERIOD
<1>4. LampFits(dev)
  BY <1>1, <1>3 DEF LampFits
<1>5. {GAIN_START, 1} \subseteq 0..GAIN_MAX /\ {OFFSET_START, 0} \subseteq (1 - OFFSET_MAX)..OFFSET_MAX
  BY LightAssumption
<1>6. LightTypes
  BY <1>1, <1>2, <1>4, <1>5 DEF LightTypes, SetOk, DevOk, SearchOk, Stages, Gains, Offsets
<1> QED BY <1>1, <1>6 DEF LightInv, Pace, Rising, Ending

(* The window is opened. *)
LEMMA OpenKept == LightInv /\ OpenWindow => LightInv'
<1> SUFFICES ASSUME LightInv, OpenWindow PROVE LightInv'
  OBVIOUS
<1>1. /\ at' = "black" /\ job' = job /\ set' = set /\ search' = search
      /\ DevShape(dev') /\ dev'.lv = dev.lv /\ dev'.on = dev.on /\ dev'.gain = set.gain /\ dev'.off = set.off
      /\ dev'.acquiring /\ at = "window"
  BY DEF OpenWindow, Shown, DevShape, LightInv, LightTypes, DevOk
<1>2. LampFits(dev)'
  BY <1>1, FitsPrimed DEF LightInv, LightTypes, DevOk
<1>3. LightTypes'
  BY <1>1, <1>2 DEF LightInv, LightTypes, SetOk, DevOk, SearchOk, Stages, DevShape, SetShape, SearchShape, Gains, Offsets
<1> QED BY <1>1, <1>3 DEF LightInv, Pace, Rising, Ending

(* A round of the black level. *)
LEMMA BlackKept == LightInv /\ BlackRound => LightInv'
<1> SUFFICES ASSUME LightInv, BlackRound PROVE LightInv'
  OBVIOUS
<1> DEFINE m(c)  == job.dark[c] + dev.off[c]
           wrong == {c \in RGB : m(c) \notin -1..1}
           off   == [c \in RGB |-> IF c \in wrong THEN ClampOffset(set.off[c] - m(c)) ELSE set.off[c]]
<1>1. /\ at' = at /\ at = "black" /\ job' = job
      /\ set' = [set EXCEPT !.off = off] /\ dev' = [dev EXCEPT !.off = off]
      /\ search' = [search EXCEPT !.round = @ + 1]
  BY DEF BlackRound
<1>2. off \in Offsets
  <2>1. \A c \in RGB : job.dark[c] \in Int /\ dev.off[c] \in (1 - OFFSET_MAX)..OFFSET_MAX
                       /\ set.off[c] \in (1 - OFFSET_MAX)..OFFSET_MAX
    BY LimitIs DEF LightInv, LightTypes, DevOk, SetOk, Offsets
  <2>2. OFFSET_MAX \in Nat \ {0}
    BY LightAssumption
  <2>3. \A o \in Int : ClampOffset(o) \in (1 - OFFSET_MAX)..OFFSET_MAX
    BY <2>2 DEF ClampOffset
  <2>4. \A c \in RGB : set.off[c] - m(c) \in Int
    BY <2>1, <2>2
  <2> QED BY <2>1, <2>3, <2>4 DEF Offsets
<1> HIDE DEF off
<1>3. /\ SetShape(set') /\ set'.cur = set.cur /\ set'.d = set.d /\ set'.words = set.words /\ set'.gain = set.gain
      /\ set'.off = off
  BY <1>1 DEF LightInv, LightTypes, SetOk, SetShape
<1>4. /\ DevShape(dev') /\ dev'.lv = dev.lv /\ dev'.on = dev.on /\ dev'.gain = dev.gain /\ dev'.off = off
      /\ dev'.acquiring = dev.acquiring
  BY <1>1 DEF LightInv, LightTypes, DevOk, DevShape
<1>5. SearchShape(search') /\ search'.round = search.round + 1 /\ search'.steps = search.steps /\ search'.outer = search.outer
  BY <1>1 DEF LightInv, LightTypes, SearchOk, SearchShape
<1>6. LampFits(dev)'
  BY <1>1, <1>4, FitsPrimed DEF LightInv, LightTypes, DevOk
<1>7. SetOk'
  BY <1>2, <1>3 DEF LightInv, LightTypes, SetOk, SetShape, Gains, Offsets
<1>8. DevOk'
  BY <1>2, <1>4, <1>6 DEF LightInv, LightTypes, DevOk, DevShape, Gains, Offsets
<1>9. SearchOk'
  BY <1>5 DEF LightInv, LightTypes, SearchOk, SearchShape
<1>10. LightTypes'
  BY <1>1, <1>7, <1>8, <1>9 DEF LightInv, LightTypes, Stages
<1> QED BY <1>1, <1>3, <1>4, <1>10 DEF LightInv, Pace, Rising, Ending

(* The black level is found; the line has the channels of the run. *)
LEMMA DarkenedKept == LightInv /\ Darkened => LightInv'
<1> SUFFICES ASSUME LightInv, Darkened PROVE LightInv'
  OBVIOUS
<1>1. /\ at' = "light" /\ at = "black" /\ job' = job
      /\ set' = [set EXCEPT !.words = IF job.ir THEN 4 ELSE 3] /\ dev' = [dev EXCEPT !.ir = job.ir]
      /\ search' = NoSearch
  BY DEF Darkened
<1>3. /\ SetShape(set') /\ set'.cur = set.cur /\ set'.d = set.d /\ set'.gain = set.gain
      /\ set'.off = set.off /\ set'.words = IF job.ir THEN 4 ELSE 3
  BY <1>1 DEF LightInv, LightTypes, SetOk, SetShape
<1>4. /\ DevShape(dev') /\ dev'.lv = dev.lv /\ dev'.on = dev.on /\ dev'.gain = dev.gain /\ dev'.off = dev.off
      /\ dev'.acquiring = dev.acquiring /\ dev'.ir = job.ir
  BY <1>1 DEF LightInv, LightTypes, DevOk, DevShape
<1>5. SearchShape(search') /\ search'.round = 0 /\ search'.steps = 0 /\ search'.outer = 0
  <2>1. search' = SearchFrom(DUTY_CONFIRM)
    BY <1>1 DEF NoSearch
  <2> QED BY <2>1 DEF SearchFrom, SearchShape
<1>6. LampFits(dev)'
  BY <1>1, <1>4, FitsPrimed DEF LightInv, LightTypes, DevOk
<1>7. SetOk'
  BY <1>3 DEF LightInv, LightTypes, SetOk, SetShape, Gains, Offsets
<1>8. DevOk'
  BY <1>4, <1>6 DEF LightInv, LightTypes, DevOk, DevShape, Gains, Offsets
<1>9. SearchOk'
  BY <1>5 DEF LightInv, LightTypes, SearchOk, SearchShape
<1>10. LightTypes'
  BY <1>1, <1>7, <1>8, <1>9 DEF LightInv, LightTypes, Stages
<1> QED BY <1>1, <1>3, <1>4, <1>10 DEF LightInv, Pace, Rising, Ending

(* The current search begins at one. *)
LEMMA StartFullKept == LightInv /\ StartFull => LightInv'
<1> SUFFICES ASSUME LightInv, StartFull PROVE LightInv'
  OBVIOUS
<1> DEFINE cur == [c \in CH |-> 1]
           d == [c \in CH |-> MAXD]
<1>1. /\ at' = "currents" /\ at = "light" /\ job' = job
      /\ set' = [set EXCEPT !.cur = cur, !.d = d] /\ dev' = Lit(TRUE, cur, d)
      /\ search' = [NoSearch EXCEPT !.done = CH \ Channels]
  BY DEF StartFull
<1>2. cur \in [CH -> Nat] /\ d \in [CH -> Nat] /\ cur["Ir"] >= 1 /\ \A c \in CH : cur[c] = 1
  BY LightAssumption DEF CH
<1> HIDE DEF cur, d
<1>3. /\ SetShape(set') /\ set'.cur = cur /\ set'.d = d /\ set'.gain = set.gain
      /\ set'.off = set.off /\ set'.words = set.words
  BY <1>1 DEF LightInv, LightTypes, SetOk, SetShape
<1>4. PICK x : x = dev'
  OBVIOUS
<1>5. /\ DevShape(x) /\ LampFits(x)
      /\ x.vis = TRUE /\ x.ir = dev.ir /\ x.gain = dev.gain /\ x.off = dev.off /\ x.acquiring = dev.acquiring
      /\ \A c \in CH : cur[c] <= Limit[c] => x.lv[c] = cur[c]
  <2>1. PICK vis : vis = TRUE
    OBVIOUS
  <2>2. x = Lit(vis, cur, d) /\ LightTypes
    BY <1>1, <1>4, <2>1 DEF LightInv
  <2>3. /\ DevShape(x) /\ LampFits(x)
        /\ x.vis = vis /\ x.ir = dev.ir /\ x.gain = dev.gain /\ x.off = dev.off /\ x.acquiring = dev.acquiring
        /\ \A c \in CH : cur[c] <= Limit[c] => x.lv[c] = cur[c]
    BY <1>2, <2>2, LitIs
  <2> QED BY <2>1, <2>3
<1>6. LampFits(dev)'
  BY <1>1, <1>4, <1>5, FitsPrimed
<1>7. /\ SearchShape(search') /\ search'.round = 0 /\ search'.steps = 0 /\ search'.outer = 0
      /\ search'.done = CH \ Channels
  BY <1>1, NoSearchIs
<1>8. LightTypes'
  <2>1. SetOk'
    BY <1>2, <1>3 DEF LightInv, LightTypes, SetOk, SetShape, Gains, Offsets
  <2>2. DevOk'
    BY <1>4, <1>5, <1>6 DEF LightInv, LightTypes, DevOk, DevShape, Gains, Offsets
  <2>3. SearchOk'
    BY <1>7 DEF SearchOk, SearchShape
  <2> QED BY <1>1, <2>1, <2>2, <2>3 DEF LightInv, LightTypes, Stages
<1>9. /\ Channels' = Channels /\ Limit' = Limit /\ Channels \subseteq CH /\ RGB \subseteq Channels
      /\ \A c \in Channels : Limit[c] >= 1
  BY <1>1, SameJob, LimitIs DEF LightInv, LightTypes
<1>10. \A c \in Channels : x.lv[c] = cur[c] /\ cur[c] = 1 /\ cur[c] <= Limit[c]
  BY <1>2, <1>5, <1>9
<1>11. Pace'
  <2>1. dev'.acquiring /\ dev'.gain = set'.gain /\ dev'.off = set'.off
    BY <1>1, <1>3, <1>4, <1>5 DEF LightInv, Pace
  <2>2. set'.gain = [c \in RGB |-> GAIN_START] /\ dev'.ir = job'.ir /\ set'.words = IF job'.ir THEN 4 ELSE 3
    BY <1>1, <1>3, <1>4, <1>5 DEF LightInv, Pace
  <2>3. \A c \in CH : 1 <= set'.cur[c]
    BY <1>2, <1>3
  <2>4. \A c \in Channels' : set'.cur[c] <= Limit'[c]
    BY <1>2, <1>3, <1>9
  <2>5. dev'.vis /\ LampIsSet'
    BY <1>3, <1>4, <1>5, <1>9, <1>10 DEF LampIsSet
  <2> QED BY <1>1, <2>1, <2>2, <2>3, <2>4, <2>5 DEF Pace
<1>12. Rising'
  <2>1. /\ CH \ search'.done = Channels /\ search'.done \subseteq CH /\ "R" \in Channels
        /\ search'.done # CH
    BY <1>7, <1>9 DEF RGB
  <2> QED BY <1>1, <1>2, <1>3, <1>7, <1>9, <2>1, LightAssumption DEF Rising
<1> QED BY <1>1, <1>8, <1>11, <1>12 DEF LightInv, Ending

(* lamp_apply, as a step. *)
LEMMA LitSent ==
  ASSUME LightTypes, job' = job, NEW vis, NEW cur \in [CH -> Nat], NEW d \in [CH -> Nat], cur["Ir"] >= 1,
         dev' = Lit(vis, cur, d)
  PROVE  /\ DevOk'
         /\ dev'.vis = vis /\ dev'.ir = dev.ir /\ dev'.gain = dev.gain /\ dev'.off = dev.off
         /\ dev'.acquiring = dev.acquiring
         /\ \A c \in CH : cur[c] <= Limit[c] => dev'.lv[c] = cur[c]
<1>1. PICK x : x = dev'
  OBVIOUS
<1>2. /\ DevShape(x) /\ LampFits(x)
      /\ x.vis = vis /\ x.ir = dev.ir /\ x.gain = dev.gain /\ x.off = dev.off /\ x.acquiring = dev.acquiring
      /\ \A c \in CH : cur[c] <= Limit[c] => x.lv[c] = cur[c]
  BY <1>1, LitIs
<1>3. LampFits(dev)'
  BY <1>1, <1>2, FitsPrimed
<1>4. DevOk'
  BY <1>1, <1>2, <1>3 DEF LightTypes, DevOk, DevShape, Gains, Offsets
<1> QED BY <1>1, <1>2, <1>4

(* No more raises are left than the limits and gains allow. *)
LEMMA LeftIs == CurrentsFit => Bounded
<1> SUFFICES ASSUME LightTypes, \A c \in CH : 1 <= set.cur[c], \A c \in Channels : set.cur[c] <= Limit[c]
             PROVE  AllLeft \in Nat /\ AllLeft <= Most
  BY DEF CurrentsFit, Bounded
<1>1. ASSUME NEW c \in RGB PROVE Left(c) \in Nat /\ Left(c) <= Raises(Limit, c) /\ Raises(Limit, c) \in Nat
  <2>1. /\ set.cur[c] \in Nat /\ 1 <= set.cur[c] /\ set.cur[c] <= Limit[c] /\ Limit[c] \in Nat /\ c # "Ir"
        /\ set.gain[c] \in 0..GAIN_MAX
    BY LimitIs DEF LightTypes, SetOk, CH, RGB, Gains
  <2>2. GAIN_MAX \in Nat /\ GAIN_START \in Nat /\ GAIN_START <= GAIN_MAX /\ 1 <= GAIN_START
    BY LightAssumption
  <2>3. CASE set.cur[c] < Limit[c]
    BY <2>1, <2>2, <2>3 DEF Left, Raises, Greatest
  <2>4. CASE ~(set.cur[c] < Limit[c])
    BY <2>1, <2>2, <2>4 DEF Left, Raises, Greatest
  <2> QED BY <2>3, <2>4
<1>2. Left("Ir") \in Nat /\ Left("Ir") <= Greatest(1, Limit["Ir"]) - 1 /\ Greatest(1, Limit["Ir"]) \in Nat
  <2>1. /\ set.cur["Ir"] \in Nat /\ 1 <= set.cur["Ir"] /\ Limit["Ir"] \in Nat
        /\ job.ir => set.cur["Ir"] <= Limit["Ir"] /\ Limit = LIM_IR
    BY LimitIs DEF LightTypes, SetOk, CH, Limit
  <2>2. CASE job.ir
    BY <2>1, <2>2 DEF Left, Greatest
  <2>3. CASE ~job.ir
    BY <2>1, <2>3 DEF Left, Greatest
  <2> QED BY <2>2, <2>3
<1>4. "R" \in RGB /\ "G" \in RGB /\ "B" \in RGB
  BY DEF RGB
<1>5. /\ Left("R") \in Nat /\ Left("R") <= Raises(Limit, "R") /\ Raises(Limit, "R") \in Nat
      /\ Left("G") \in Nat /\ Left("G") <= Raises(Limit, "G") /\ Raises(Limit, "G") \in Nat
      /\ Left("B") \in Nat /\ Left("B") <= Raises(Limit, "B") /\ Raises(Limit, "B") \in Nat
  BY <1>1, <1>4
<1> QED BY <1>2, <1>5 DEF AllLeft, Most

(* A step of the current search. *)
LEMMA CurrentKept == LightInv /\ CurrentStep => LightInv'
<1> SUFFICES ASSUME LightInv, CurrentStep PROVE LightInv'
  OBVIOUS
<1> DEFINE stops == {c \in Channels : Reading(c) > HI \/ set.cur[c] >= Limit[c]}
           done  == search.done \cup stops
           cur   == [c \in CH |-> IF c \in done THEN set.cur[c] ELSE set.cur[c] + 1]
           d     == IF done = CH THEN [c \in CH |-> DutyForCurrent(cur[c])] ELSE set.d
           gain  == IF done = CH THEN [c \in RGB |-> GAIN_START] ELSE set.gain
<1>1. /\ at = "currents" /\ job' = job
      /\ set' = [set EXCEPT !.cur = cur, !.d = d, !.gain = gain]
      /\ dev' = Lit(TRUE, cur, d)
      /\ at' = IF done = CH THEN "duty" ELSE "currents"
      /\ search' = IF done = CH THEN [NoSearch EXCEPT !.done = CH \ Channels]
                    ELSE [search EXCEPT !.done = done, !.steps = @ + 1]
  BY DEF CurrentStep
<1>2. LightTypes /\ Pace /\ Rising
  BY DEF LightInv
<1>3. /\ \A c \in CH : set.cur[c] \in Nat /\ 1 <= set.cur[c] /\ Limit[c] \in 0..CURRENT_STEPS_MAX
      /\ \A c \in Channels : set.cur[c] <= Limit[c] /\ c \in CH
      /\ \A c \in CH \ search.done : c \in Channels /\ set.cur[c] = 1 + search.steps
      /\ search.steps \in Nat
  BY <1>1, <1>2, LimitIs DEF LightTypes, SetOk, SearchOk, Pace, Rising
<1>4. /\ cur \in [CH -> Nat] /\ \A c \in CH : 1 <= cur[c]
      /\ \A c \in Channels : cur[c] <= Limit[c]
  BY <1>3
<1>5. \A c \in CH \ done : c \in Channels /\ cur[c] = 2 + search.steps /\ cur[c] <= CURRENT_STEPS_MAX
  <2>1. CURRENT_STEPS_MAX \in Nat
    BY LightAssumption
  <2> QED BY <1>3, <1>4, <2>1
<1>6. d \in [CH -> Nat]
  BY <1>2, <1>4, DutyIs DEF LightTypes, SetOk
<1>7. gain = [c \in RGB |-> GAIN_START] /\ gain = set.gain
  BY <1>1, <1>2 DEF Pace
<1>g. cur["Ir"] >= 1
  BY <1>4 DEF CH
<1> HIDE DEF cur, d, gain, done
<1>8. /\ SetShape(set') /\ set'.cur = cur /\ set'.d = d /\ set'.gain = set.gain
      /\ set'.off = set.off /\ set'.words = set.words
  BY <1>1, <1>2, <1>7 DEF LightTypes, SetOk, SetShape
<1>9. /\ DevOk' /\ dev'.vis = TRUE /\ dev'.ir = dev.ir /\ dev'.gain = dev.gain /\ dev'.off = dev.off
      /\ dev'.acquiring = dev.acquiring
      /\ \A c \in CH : cur[c] <= Limit[c] => dev'.lv[c] = cur[c]
  <2>1. PICK vis : vis = TRUE
    OBVIOUS
  <2>2. dev' = Lit(vis, cur, d)
    BY <1>1, <2>1
  <2>3. /\ DevOk' /\ dev'.vis = vis /\ dev'.ir = dev.ir /\ dev'.gain = dev.gain /\ dev'.off = dev.off
        /\ dev'.acquiring = dev.acquiring
        /\ \A c \in CH : cur[c] <= Limit[c] => dev'.lv[c] = cur[c]
    <3>1. LightTypes /\ job' = job /\ cur \in [CH -> Nat] /\ d \in [CH -> Nat] /\ cur["Ir"] >= 1
      BY <1>1, <1>2, <1>4, <1>6, <1>g
    <3> QED BY <2>2, <3>1, LitSent
  <2> QED BY <2>1, <2>3
<1>10. /\ SearchShape(search') /\ search'.round \in Nat /\ search'.steps \in Nat /\ search'.outer \in Nat
       /\ done = CH => search'.round = 0 /\ search'.confirm = DUTY_CONFIRM /\ search'.outer = 0
       /\ done # CH => search'.done = done /\ search'.steps = search.steps + 1
  <2>1. CASE done = CH
    <3>1. search' = [NoSearch EXCEPT !.done = CH \ Channels]
      BY <1>1, <2>1
    <3>2. /\ SearchShape(search') /\ search'.round = 0 /\ search'.steps = 0 /\ search'.outer = 0
          /\ search'.confirm = DUTY_CONFIRM
      BY <3>1, NoSearchIs
    <3> QED BY <2>1, <3>2
  <2>2. CASE done # CH
    <3>1. search' = [search EXCEPT !.done = done, !.steps = @ + 1]
      BY <1>1, <2>2
    <3>2. /\ SearchShape(search') /\ search'.round = search.round /\ search'.steps = search.steps + 1
          /\ search'.outer = search.outer /\ search'.done = done
      BY <1>2, <3>1 DEF LightTypes, SearchOk, SearchShape
    <3> QED BY <1>2, <1>3, <2>2, <3>2 DEF LightTypes, SearchOk
  <2> QED BY <2>1, <2>2
<1>11. Channels' = Channels /\ Limit' = Limit /\ Most' = Most
  BY <1>1, SameJob
<1>12. LightTypes'
  <2>1. SetOk'
    BY <1>2, <1>4, <1>6, <1>8 DEF LightTypes, SetOk, SetShape, Gains, Offsets
  <2>2. SearchOk'
    BY <1>10 DEF SearchOk, SearchShape
  <2>3. at' \in Stages /\ job' \in JOBS
    BY <1>1, <1>2 DEF LightTypes, Stages
  <2> QED BY <1>9, <2>1, <2>2, <2>3 DEF LightTypes
<1>13. Pace'
  <2>1. dev'.acquiring /\ dev'.gain = set'.gain /\ dev'.off = set'.off
    BY <1>1, <1>2, <1>8, <1>9 DEF Pace
  <2>2. set'.gain = [c \in RGB |-> GAIN_START] /\ dev'.ir = job'.ir /\ set'.words = IF job'.ir THEN 4 ELSE 3
    BY <1>1, <1>2, <1>8, <1>9 DEF Pace
  <2>3. \A c \in CH : 1 <= set'.cur[c]
    BY <1>4, <1>8
  <2>4. \A c \in Channels' : set'.cur[c] <= Limit'[c]
    BY <1>4, <1>8, <1>11
  <2>5. dev'.vis /\ LampIsSet'
    BY <1>3, <1>4, <1>8, <1>9, <1>11 DEF LampIsSet
  <2>6. at' = "duty" \/ at' = "currents"
    BY <1>1
  <2>7. at' = "duty" => search'.round = 0 /\ search'.confirm = DUTY_CONFIRM
    BY <1>1, <1>10
  <2> QED BY <2>1, <2>2, <2>3, <2>4, <2>5, <2>6, <2>7 DEF Pace
<1>14. Rising'
  <2> SUFFICES ASSUME done # CH PROVE Rising'
    BY <1>1 DEF Rising
  <2>1. search'.done \subseteq CH /\ search'.done # CH
    BY <1>1, <1>2, <1>3, <1>10 DEF Rising, done
  <2>2. PICK c \in CH \ search'.done : TRUE
    BY <2>1
  <2>3. search'.steps < CURRENT_STEPS_MAX
    BY <1>3, <1>5, <1>10, <2>2, LightAssumption
  <2>4. \A e \in CH \ search'.done : e \in Channels' /\ set'.cur[e] = 1 + search'.steps
    BY <1>3, <1>5, <1>8, <1>10, <1>11
  <2> QED BY <2>1, <2>3, <2>4 DEF Rising
<1>15. Ending'
  <2> SUFFICES ASSUME at' = "duty" PROVE Ending'
    BY <1>1 DEF Ending
  <2>1. search'.outer = 0
    BY <1>1, <1>10
  <2>2. AllLeft' \in Nat /\ AllLeft' <= Most'
    <3>1. CurrentsFit'
      BY <1>1, <1>12, <1>13 DEF CurrentsFit, Pace
    <3>2. CurrentsFit' => Bounded'
      BY LeftIs, PTL
    <3> QED BY <3>1, <3>2 DEF Bounded
  <2> QED BY <2>1, <2>2 DEF Ending
<1> QED BY <1>12, <1>13, <1>14, <1>15 DEF LightInv

(* The stored settings are brought into their ranges. *)
LEMMA StoredKept == LightInv /\ StartStored => LightInv'
<1> SUFFICES ASSUME LightInv, StartStored PROVE LightInv'
  OBVIOUS
<1> DEFINE cur  == [c \in CH |-> StoredCurrent(c)]
           d    == [c \in CH |-> IF job.duty[c] > 0 THEN Least(job.duty[c], MAXD) ELSE MAXD \div 2]
           gain == [c \in RGB |-> StoredGain(c)]
<1>1. /\ at = "light" /\ at' = "duty" /\ job' = job
      /\ set' = [set EXCEPT !.cur = cur, !.d = d, !.gain = gain]
      /\ dev' = [Lit(TRUE, cur, d) EXCEPT !.gain = gain]
      /\ search' = [NoSearch EXCEPT !.done = CH \ Channels]
  BY DEF StartStored
<1>2. LightTypes /\ Pace
  BY DEF LightInv
<1>3. /\ job.cur \in [CH -> Nat] /\ job.duty \in [CH -> Nat] /\ \A c \in RGB : job.gain[c] \in Nat
      /\ \A c \in CH : Limit[c] \in Nat
      /\ \A c \in Channels : Limit[c] >= 1 /\ c \in CH
  BY <1>2, LimitIs DEF LightTypes
<1>4. /\ cur \in [CH -> Nat] /\ \A c \in CH : 1 <= cur[c]
      /\ \A c \in Channels : cur[c] <= Limit[c]
  <2>1. ASSUME NEW c \in CH PROVE /\ StoredCurrent(c) \in Nat /\ 1 <= StoredCurrent(c)
                                  /\ Limit[c] >= 1 => StoredCurrent(c) <= Limit[c]
    <3>1. job.cur[c] \in Nat /\ Limit[c] \in Nat
      BY <1>3
    <3> QED BY <3>1 DEF StoredCurrent, Greatest, Least
  <2> QED BY <1>3, <2>1
<1>5. d \in [CH -> Nat]
  <2>1. MAXD \in Nat /\ MAXD \div 2 \in Nat
    BY LightAssumption
  <2> QED BY <1>3, <2>1 DEF Least
<1>6. gain \in Gains
  <2>1. GAIN_MAX \in Nat
    BY LightAssumption
  <2> QED BY <1>3, <2>1 DEF StoredGain, Least, Gains
<1>g. cur["Ir"] >= 1
  BY <1>4 DEF CH
<1> HIDE DEF cur, d, gain
<1>8. /\ SetShape(set') /\ set'.cur = cur /\ set'.d = d /\ set'.gain = gain
      /\ set'.off = set.off /\ set'.words = set.words
  BY <1>1, <1>2 DEF LightTypes, SetOk, SetShape
<1>9. /\ DevOk' /\ dev'.vis = TRUE /\ dev'.ir = dev.ir /\ dev'.gain = gain /\ dev'.off = dev.off
      /\ dev'.acquiring = dev.acquiring
      /\ \A c \in CH : cur[c] <= Limit[c] => dev'.lv[c] = cur[c]
  <2>1. PICK vis : vis = TRUE
    OBVIOUS
  <2>2. PICK x : x = Lit(vis, cur, d)
    OBVIOUS
  <2>3. /\ DevShape(x) /\ LampFits(x)
        /\ x.vis = vis /\ x.ir = dev.ir /\ x.gain = dev.gain /\ x.off = dev.off /\ x.acquiring = dev.acquiring
        /\ \A c \in CH : cur[c] <= Limit[c] => x.lv[c] = cur[c]
    BY <1>2, <1>4, <1>5, <1>g, <2>2, LitIs
  <2>4. dev' = [x EXCEPT !.gain = gain]
    BY <1>1, <2>1, <2>2
  <2>5. /\ DevShape(dev') /\ dev'.lv = x.lv /\ dev'.on = x.on /\ dev'.gain = gain /\ dev'.off = x.off /\ dev'.vis = x.vis
        /\ dev'.ir = x.ir /\ dev'.acquiring = x.acquiring
    BY <2>3, <2>4 DEF DevShape
  <2>6. LampFits(dev)'
    BY <1>1, <2>3, <2>5, FitsPrimed
  <2>7. DevOk'
    BY <1>2, <1>6, <2>3, <2>5, <2>6 DEF LightTypes, DevOk, DevShape, Gains, Offsets
  <2> QED BY <2>1, <2>3, <2>5, <2>7
<1>10. /\ SearchShape(search') /\ search'.round = 0 /\ search'.steps = 0 /\ search'.outer = 0
       /\ search'.confirm = DUTY_CONFIRM
  BY <1>1, NoSearchIs
<1>11. Channels' = Channels /\ Limit' = Limit /\ Most' = Most
  BY <1>1, SameJob
<1>12. LightTypes'
  <2>1. SetOk'
    BY <1>2, <1>4, <1>5, <1>6, <1>8 DEF LightTypes, SetOk, SetShape, Gains, Offsets
  <2>2. SearchOk'
    BY <1>10 DEF SearchOk, SearchShape
  <2>3. at' \in Stages /\ job' \in JOBS
    BY <1>1, <1>2 DEF LightTypes, Stages
  <2> QED BY <1>9, <2>1, <2>2, <2>3 DEF LightTypes
<1>13. Pace'
  <2>1. dev'.acquiring /\ dev'.gain = set'.gain /\ dev'.off = set'.off
    BY <1>1, <1>2, <1>8, <1>9 DEF Pace
  <2>2. dev'.ir = job'.ir /\ set'.words = IF job'.ir THEN 4 ELSE 3
    BY <1>1, <1>2, <1>8, <1>9 DEF Pace
  <2>3. \A c \in CH : 1 <= set'.cur[c]
    BY <1>4, <1>8
  <2>4. \A c \in Channels' : set'.cur[c] <= Limit'[c]
    BY <1>4, <1>8, <1>11
  <2>5. dev'.vis
    BY <1>9
  <2>6. at' = "duty" /\ search'.round = 0 /\ search'.confirm = DUTY_CONFIRM /\ ~(search'.round > 0)
    BY <1>1, <1>10
  <2> QED BY <2>1, <2>2, <2>3, <2>4, <2>5, <2>6 DEF Pace
<1>15. Ending'
  <2>1. CurrentsFit'
    BY <1>1, <1>12, <1>13 DEF CurrentsFit, Pace
  <2>2. CurrentsFit' => Bounded'
    BY LeftIs, PTL
  <2> QED BY <1>1, <1>10, <2>1, <2>2 DEF Bounded, Ending
<1> QED BY <1>1, <1>12, <1>13, <1>15 DEF LightInv, Rising

(* The steps of a duty search: the duties and the lamp, nothing else. *)
LEMMA DutyKept ==
  LightInv /\ (DutyRound \/ DutyRoundsEnd) => LightInv'
<1> SUFFICES ASSUME LightInv, DutyRound \/ DutyRoundsEnd PROVE LightInv'
  OBVIOUS
<1>2. LightTypes /\ Pace /\ Ending
  BY DEF LightInv
<1>3. /\ at = "duty" /\ job' = job /\ set'.cur = set.cur /\ set'.gain = set.gain /\ set'.off = set.off
      /\ set'.words = set.words /\ SetShape(set') /\ set'.d \in [CH -> Nat]
      /\ SearchShape(search') /\ search'.round \in Nat /\ search'.steps = search.steps /\ search'.outer = search.outer
  <2>1. CASE DutyRound
    <3> DEFINE d == [c \in CH |-> IF c \in Channels THEN Least(NextDuty(c), MAXD + 1) ELSE set.d[c]]
               capped == [c \in CH |-> Least(d[c], MAXD)]
    <3>1. MAXD \in Nat /\ (\A c \in CH : NextDuty(c) \in Nat) /\ (\A c \in CH : set.d[c] \in Nat)
      BY <1>2, DutyIs, LightAssumption DEF LightTypes, SetOk
    <3>2. d \in [CH -> Nat] /\ capped \in [CH -> Nat]
      BY <3>1 DEF Least
    <3>3. /\ at = "duty" /\ job' = job
          /\ set' = [set EXCEPT !.d = capped] \/ set' = [set EXCEPT !.d = d]
      BY <2>1 DEF DutyRound
    <3> HIDE DEF d, capped
    <3>4. /\ set'.cur = set.cur /\ set'.gain = set.gain /\ set'.off = set.off
          /\ set'.words = set.words /\ SetShape(set') /\ set'.d \in [CH -> Nat]
      BY <1>2, <3>2, <3>3 DEF LightTypes, SetOk, SetShape
    <3>5. \E done, flags, confirm, last, last2 :
            search' = [search EXCEPT !.round = @ + 1, !.done = done, !.flags = flags, !.confirm = confirm,
                                     !.last = last, !.last2 = last2]
      BY <2>1, Zenon DEF DutyRound
    <3>6. PICK done, flags, confirm, last, last2 :
            search' = [search EXCEPT !.round = @ + 1, !.done = done, !.flags = flags, !.confirm = confirm,
                                     !.last = last, !.last2 = last2]
      BY <3>5
    <3>7. SearchShape(search') /\ search'.round = search.round + 1 /\ search'.steps = search.steps /\ search'.outer = search.outer
      BY <1>2, <3>6 DEF LightTypes, SearchOk, SearchShape
    <3> QED BY <1>2, <3>3, <3>4, <3>7 DEF LightTypes, SearchOk
  <2>2. CASE DutyRoundsEnd
    <3> DEFINE capped == [c \in CH |-> Least(set.d[c], MAXD)]
    <3>1. capped \in [CH -> Nat]
      BY <1>2, LightAssumption DEF LightTypes, SetOk, Least
    <3>2. set' = [set EXCEPT !.d = capped] /\ at = "duty" /\ job' = job /\ search' = search
      BY <2>2 DEF DutyRoundsEnd
    <3> HIDE DEF capped
    <3> QED BY <1>2, <3>1, <3>2 DEF LightTypes, SetOk, SetShape, SearchOk, SearchShape
  <2> QED BY <2>1, <2>2
<1>4. Channels' = Channels /\ Limit' = Limit /\ Most' = Most /\ Channels \subseteq CH
  BY <1>2, <1>3, SameJob, LimitIs DEF LightTypes
<1>5. /\ at' \in {"duty", "flat", "raise"} /\ DevOk' /\ dev'.vis /\ dev'.ir = dev.ir /\ dev'.gain = dev.gain
      /\ dev'.off = dev.off /\ dev'.acquiring
      /\ at' = "flat" \/ (at' = "duty" /\ search'.round > 0) => LampIsSet'
      /\ at' = "duty" => search'.round > 0
      /\ at' = "raise" => search'.flags # {} /\ search'.flags \subseteq Channels
  <2>1. /\ DevOk /\ dev.acquiring /\ dev.vis /\ search.round \in Nat
        /\ search.round > 0 => LampIsSet
        /\ search.round = 0 => search.confirm = DUTY_CONFIRM
        /\ \A c \in CH : set.cur[c] \in Nat /\ 1 <= set.cur[c]
        /\ \A c \in Channels : set.cur[c] <= Limit[c]
    BY <1>2, <1>3 DEF LightTypes, Pace, SetOk, SearchOk
  <2>2. dev' = dev => DevOk' /\ dev'.vis /\ dev'.acquiring
    <3>1. dev' = dev => LampFits(dev)'
      BY <1>3, <2>1, FitsPrimed DEF DevOk
    <3> QED BY <2>1, <3>1 DEF DevOk, DevShape
  <2>3. dev' = dev /\ LampIsSet => LampIsSet'
    BY <1>3, <1>4 DEF LampIsSet
  <2>4. CASE DutyRoundsEnd
    <3>1. at' = "flat" /\ dev' = dev /\ search.round > 0
      BY <2>4, LightAssumption DEF DutyRoundsEnd
    <3> QED BY <2>1, <2>2, <2>3, <3>1
  <2>5. CASE DutyRound
    <3> DEFINE d    == [c \in CH |-> IF c \in Channels THEN Least(NextDuty(c), MAXD + 1) ELSE set.d[c]]
               done == search.done \cup {c \in Channels : Settles(c) \/ d[c] > MAXD}
               flags == IF done # CH THEN {}
                        ELSE {c \in Channels : d[c] > MAXD /\ (c = "Ir" => Reading(c) < IR_FLAG_BELOW)}
               confirm == IF done = CH THEN search.confirm - 1 ELSE search.confirm
               settled == done = CH /\ flags = {} /\ confirm < 1
    <3>1. /\ IF flags # {} \/ settled
             THEN at' = (IF flags = {} THEN "flat" ELSE "raise") /\ dev' = dev
             ELSE set' = [set EXCEPT !.d = d] /\ dev' = Lit(TRUE, set.cur, d) /\ at' = at
          /\ search' = [search EXCEPT !.round = @ + 1, !.done = done, !.flags = flags, !.confirm = confirm,
                          !.last  = [c \in CH |-> IF c \in search.done THEN @[c] ELSE dev.on[c]],
                          !.last2 = [c \in CH |-> IF c \in search.done THEN @[c] ELSE search.last[c]]]
      BY <2>5 DEF DutyRound
    <3>2. flags \subseteq Channels /\ (search.round = 0 => ~(confirm < 1))
      BY <2>1, LightAssumption
    <3>3. d \in [CH -> Nat]
      <4>1. MAXD \in Nat /\ (\A c \in CH : NextDuty(c) \in Nat) /\ (\A c \in CH : set.d[c] \in Nat)
        BY <1>2, DutyIs, LightAssumption DEF LightTypes, SetOk
      <4> QED BY <4>1 DEF Least
    <3>s. settled => confirm < 1
      OBVIOUS
    <3> HIDE DEF d, flags, confirm, done, settled
    <3>4. search'.round = search.round + 1 /\ search'.flags = flags
      BY <1>2, <3>1 DEF LightTypes, SearchOk, SearchShape
    <3>5. CASE flags # {} \/ settled
      <4>1. at' = (IF flags = {} THEN "flat" ELSE "raise") /\ dev' = dev
        BY <3>1, <3>5
      <4>2. flags = {} => search.round > 0
        BY <2>1, <3>2, <3>5, <3>s
      <4> QED BY <2>1, <2>2, <2>3, <3>2, <3>4, <4>1, <4>2
    <3>6. CASE ~(flags # {} \/ settled)
      <4>1. dev' = Lit(TRUE, set.cur, d) /\ at' = "duty"
        BY <1>3, <3>1, <3>6
      <4>2. PICK vis : vis = TRUE
        OBVIOUS
      <4>3. LightTypes /\ job' = job /\ set.cur \in [CH -> Nat] /\ set.cur["Ir"] >= 1
        BY <1>2, <1>3, <2>1 DEF LightTypes, SetOk, CH
      <4>4. PICK cur : cur = set.cur
        OBVIOUS
      <4>5. dev' = Lit(vis, cur, d) /\ cur \in [CH -> Nat] /\ cur["Ir"] >= 1
        BY <4>1, <4>2, <4>3, <4>4
      <4>6. /\ DevOk' /\ dev'.vis = vis /\ dev'.ir = dev.ir /\ dev'.gain = dev.gain /\ dev'.off = dev.off
            /\ dev'.acquiring = dev.acquiring
            /\ \A c \in CH : cur[c] <= Limit[c] => dev'.lv[c] = cur[c]
        BY <3>3, <4>3, <4>5, LitSent
      <4>7. LampIsSet'
        BY <1>3, <1>4, <2>1, <4>4, <4>6 DEF LampIsSet
      <4>8. dev'.vis /\ dev'.acquiring
        BY <2>1, <4>2, <4>6
      <4>9. search'.round > 0
        BY <2>1, <3>4
      <4> QED BY <4>1, <4>6, <4>7, <4>8, <4>9
    <3> QED BY <3>5, <3>6
  <2> QED BY <2>4, <2>5
<1>12. LightTypes'
  <2>1. SetOk'
    BY <1>2, <1>3 DEF LightTypes, SetOk, SetShape, Gains, Offsets
  <2>2. SearchOk'
    BY <1>2, <1>3 DEF LightTypes, SearchOk, SearchShape
  <2>3. at' \in Stages /\ job' \in JOBS
    BY <1>2, <1>3, <1>5 DEF LightTypes, Stages
  <2> QED BY <1>5, <2>1, <2>2, <2>3 DEF LightTypes
<1>13. Pace'
  <2>1. dev'.acquiring /\ dev'.gain = set'.gain /\ dev'.off = set'.off
    BY <1>2, <1>3, <1>5 DEF Pace
  <2>2. dev'.ir = job'.ir /\ set'.words = IF job'.ir THEN 4 ELSE 3
    BY <1>2, <1>3, <1>5 DEF Pace
  <2>3. \A c \in CH : 1 <= set'.cur[c]
    BY <1>2, <1>3 DEF Pace
  <2>4. \A c \in Channels' : set'.cur[c] <= Limit'[c]
    BY <1>2, <1>3, <1>4 DEF Pace
  <2> QED BY <1>5, <2>1, <2>2, <2>3, <2>4 DEF Pace
<1>15. Ending'
  <2>1. AllLeft' = AllLeft
    BY <1>3, <1>4 DEF AllLeft, Left
  <2> QED BY <1>2, <1>3, <1>4, <1>5, <2>1 DEF Ending
<1> QED BY <1>5, <1>12, <1>13, <1>15 DEF LightInv, Rising

(* A raise: one raise fewer is left. *)
LEMMA RaiseKept == LightInv /\ Raise => LightInv'
<1> SUFFICES ASSUME LightInv, Raise PROVE LightInv'
  OBVIOUS
<1> DEFINE up  == {c \in search.flags : MayRise(c)}
           cur == [c \in CH |-> IF c \in up THEN set.cur[c] + 1 ELSE set.cur[c]]
           reseeded == (IF up \cap RGB # {} THEN RGB ELSE {}) \cup (up \cap {"Ir"})
           gain == [c \in RGB |-> IF c \in up THEN GAIN_START
                                  ELSE IF c \in search.flags THEN set.gain[c] + 1 ELSE set.gain[c]]
           d == [c \in CH |-> IF c \in reseeded THEN DutyForCurrent(cur[c]) ELSE set.d[c]]
<1>1. /\ at = "raise" /\ at' = "duty" /\ job' = job
      /\ \A c \in CH : ~CannotBeLit(c)
      /\ set' = [set EXCEPT !.cur = cur, !.gain = gain, !.d = d]
      /\ dev' = [dev EXCEPT !.gain = gain]
      /\ search' = [NoSearch EXCEPT !.done = CH \ Channels, !.outer = search.outer + 1]
  <2>1. /\ at = "raise" /\ at' = "duty" /\ job' = job
        /\ \A c \in CH : ~CannotBeLit(c)
        /\ set' = [set EXCEPT !.cur = cur, !.gain = gain,
                             !.d = [c \in CH |-> IF c \in reseeded THEN DutyForCurrent(cur[c]) ELSE @[c]]]
        /\ dev' = [dev EXCEPT !.gain = gain]
        /\ search' = [NoSearch EXCEPT !.done = CH \ Channels, !.outer = search.outer + 1]
    BY DEF Raise
  <2> QED BY <2>1
<1>2. LightTypes /\ Pace /\ Ending
  BY DEF LightInv
<1>3. /\ \A c \in CH : set.cur[c] \in Nat /\ 1 <= set.cur[c] /\ Limit[c] \in Nat /\ set.d[c] \in Nat
      /\ \A c \in Channels : set.cur[c] <= Limit[c] /\ c \in CH
      /\ search.flags # {} /\ search.flags \subseteq Channels /\ search.outer \in Nat
      /\ \A c \in RGB : set.gain[c] \in 0..GAIN_MAX /\ c \in CH /\ c # "Ir"
      /\ GAIN_START \in Nat /\ GAIN_START <= GAIN_MAX /\ GAIN_FAIL_ABOVE \in Nat /\ GAIN_MAX = GAIN_FAIL_ABOVE + 1
      /\ "Ir" \in CH
  BY <1>1, <1>2, LimitIs, LightAssumption DEF LightTypes, SetOk, SearchOk, Gains, Pace, Ending, CH, RGB
<1>4. /\ cur \in [CH -> Nat] /\ \A c \in CH : 1 <= cur[c]
      /\ \A c \in Channels : cur[c] <= Limit[c]
  BY <1>3 DEF MayRise
<1>5. gain \in Gains
  <2>1. ASSUME NEW c \in RGB, c \in search.flags, c \notin up PROVE set.gain[c] + 1 \in 0..GAIN_MAX
    BY <1>1, <1>3, <2>1 DEF CannotBeLit
  <2> QED BY <1>3, <2>1 DEF Gains
<1>6. d \in [CH -> Nat]
  BY <1>2, <1>3, <1>4, DutyIs
<1>7. /\ \A c \in CH : cur[c] = IF c \in up THEN set.cur[c] + 1 ELSE set.cur[c]
      /\ \A c \in RGB : gain[c] = IF c \in up THEN GAIN_START
                                  ELSE IF c \in search.flags THEN set.gain[c] + 1 ELSE set.gain[c]
      /\ \A c \in CH : c \in up <=> c \in search.flags /\ set.cur[c] < Limit[c]
      /\ "Ir" \in search.flags => "Ir" \in up
  BY <1>1, <1>3 DEF MayRise, CannotBeLit, RGB
<1> HIDE DEF up, cur, d, gain, reseeded
<1>8. /\ SetShape(set') /\ set'.cur = cur /\ set'.d = d /\ set'.gain = gain
      /\ set'.off = set.off /\ set'.words = set.words
  BY <1>1, <1>2 DEF LightTypes, SetOk, SetShape
<1>9. /\ DevShape(dev') /\ dev'.lv = dev.lv /\ dev'.on = dev.on /\ dev'.gain = gain /\ dev'.off = dev.off
      /\ dev'.acquiring = dev.acquiring /\ dev'.vis = dev.vis /\ dev'.ir = dev.ir
  BY <1>1, <1>2 DEF LightTypes, DevOk, DevShape
<1>10. /\ SearchShape(search') /\ search'.round = 0 /\ search'.steps = 0 /\ search'.outer = search.outer + 1
       /\ search'.confirm = DUTY_CONFIRM
  <2>1. PICK x : x = [NoSearch EXCEPT !.done = CH \ Channels]
    OBVIOUS
  <2>2. SearchShape(x) /\ x.round = 0 /\ x.confirm = DUTY_CONFIRM /\ x.steps = 0
    BY <2>1, NoSearchIs
  <2>3. search' = [x EXCEPT !.outer = search.outer + 1]
    BY <1>1, <2>1
  <2> QED BY <2>2, <2>3 DEF SearchShape
<1>11. Channels' = Channels /\ Limit' = Limit /\ Most' = Most
  BY <1>1, SameJob
<1>12. LightTypes'
  <2>1. SetOk'
    BY <1>2, <1>4, <1>5, <1>6, <1>8 DEF LightTypes, SetOk, SetShape, Gains, Offsets
  <2>2. SearchOk'
    BY <1>3, <1>10 DEF SearchOk, SearchShape
  <2>3. LampFits(dev)'
    BY <1>1, <1>2, <1>9, FitsPrimed DEF LightTypes, DevOk
  <2>4. DevOk'
    BY <1>2, <1>5, <1>9, <2>3 DEF LightTypes, DevOk, DevShape, Gains, Offsets
  <2>5. at' \in Stages /\ job' \in JOBS
    BY <1>1, <1>2 DEF LightTypes, Stages
  <2> QED BY <2>1, <2>2, <2>4, <2>5 DEF LightTypes
<1>13. Pace'
  <2>1. dev'.acquiring /\ dev'.gain = set'.gain /\ dev'.off = set'.off /\ dev'.vis
    BY <1>1, <1>2, <1>8, <1>9 DEF Pace
  <2>2. dev'.ir = job'.ir /\ set'.words = IF job'.ir THEN 4 ELSE 3
    BY <1>1, <1>2, <1>8, <1>9 DEF Pace
  <2>3. \A c \in CH : 1 <= set'.cur[c]
    BY <1>4, <1>8
  <2>4. \A c \in Channels' : set'.cur[c] <= Limit'[c]
    BY <1>4, <1>8, <1>11
  <2>5. at' = "duty" /\ search'.round = 0 /\ search'.confirm = DUTY_CONFIRM /\ ~(search'.round > 0)
    BY <1>1, <1>10
  <2> QED BY <2>1, <2>2, <2>3, <2>4, <2>5 DEF Pace
<1>14. /\ \A c \in CH : Left(c) \in Int /\ Left(c)' \in Int
       /\ \A c \in CH : Left(c)' = IF c \in search.flags THEN Left(c) - 1 ELSE Left(c)
  <2>1. ASSUME NEW c \in RGB
        PROVE  Left(c) \in Int /\ Left(c)' \in Int /\ Left(c)' = IF c \in search.flags THEN Left(c) - 1 ELSE Left(c)
    <3>1. /\ Left(c) = IF set.cur[c] < Limit[c] THEN Limit[c] - set.cur[c] + GAIN_MAX - GAIN_START ELSE GAIN_MAX - set.gain[c]
          /\ Left(c)' = IF cur[c] < Limit[c] THEN Limit[c] - cur[c] + GAIN_MAX - GAIN_START ELSE GAIN_MAX - gain[c]
      BY <1>3, <1>8, <1>11 DEF Left
    <3>2. /\ set.cur[c] \in Nat /\ set.cur[c] <= Limit[c] /\ Limit[c] \in Nat /\ set.gain[c] \in Nat /\ GAIN_MAX \in Nat
          /\ c \in CH /\ GAIN_START \in Nat
      BY <1>2, <1>3, LimitIs DEF LightTypes
    <3>3. /\ cur[c] = IF c \in up THEN set.cur[c] + 1 ELSE set.cur[c]
          /\ gain[c] = IF c \in up THEN GAIN_START ELSE IF c \in search.flags THEN set.gain[c] + 1 ELSE set.gain[c]
          /\ c \in up <=> c \in search.flags /\ set.cur[c] < Limit[c]
      BY <1>7, <3>2
    <3>4. CASE c \in up
      <4>1. CASE set.cur[c] + 1 < Limit[c]
        BY <3>1, <3>2, <3>3, <3>4, <4>1
      <4>2. CASE set.cur[c] + 1 = Limit[c]
        BY <3>1, <3>2, <3>3, <3>4, <4>2
      <4> QED BY <3>2, <3>3, <3>4, <4>1, <4>2
    <3>5. CASE c \notin up /\ c \in search.flags
      BY <3>1, <3>2, <3>3, <3>5
    <3>6. CASE c \notin search.flags
      BY <3>1, <3>2, <3>3, <3>6
    <3> QED BY <3>4, <3>5, <3>6
  <2>2. Left("Ir") \in Int /\ Left("Ir")' \in Int /\ Left("Ir")' = IF "Ir" \in search.flags THEN Left("Ir") - 1 ELSE Left("Ir")
    <3>1. /\ Left("Ir") = IF job.ir THEN LIM_IR["Ir"] - set.cur["Ir"] ELSE 0
          /\ Left("Ir")' = IF job.ir THEN LIM_IR["Ir"] - cur["Ir"] ELSE 0
      BY <1>1, <1>8 DEF Left
    <3>2. set.cur["Ir"] \in Nat /\ LIM_IR["Ir"] \in Nat /\ ("Ir" \in search.flags => job.ir)
      BY <1>2, <1>3, LimitIs, LightAssumption DEF LightTypes
    <3>3. cur["Ir"] = IF "Ir" \in search.flags THEN set.cur["Ir"] + 1 ELSE set.cur["Ir"]
      BY <1>3, <1>7
    <3> QED BY <3>1, <3>2, <3>3
  <2> QED BY <2>1, <2>2 DEF CH
<1>15. Ending'
  <2>1. AllLeft' <= AllLeft - 1
    <3>1. PICK c \in CH : c \in search.flags
      BY <1>3
    <3>2. c \in {"R", "G", "B", "Ir"}
      BY <3>1 DEF CH, RGB
    <3>3. /\ "R" \in CH /\ "G" \in CH /\ "B" \in CH /\ "Ir" \in CH
      BY DEF CH, RGB
    <3>4. /\ Left("R") \in Int /\ Left("R")' \in Int /\ Left("R")' <= Left("R")
          /\ Left("G") \in Int /\ Left("G")' \in Int /\ Left("G")' <= Left("G")
          /\ Left("B") \in Int /\ Left("B")' \in Int /\ Left("B")' <= Left("B")
          /\ Left("Ir") \in Int /\ Left("Ir")' \in Int /\ Left("Ir")' <= Left("Ir")
      BY <1>14, <3>3
    <3>5. \/ Left("R")' = Left("R") - 1 \/ Left("G")' = Left("G") - 1
          \/ Left("B")' = Left("B") - 1 \/ Left("Ir")' = Left("Ir") - 1
      BY <1>14, <3>1, <3>2, <3>3
    <3> QED BY <3>4, <3>5 DEF AllLeft
  <2>2. AllLeft \in Int /\ AllLeft' \in Int
    <3>1. /\ "R" \in CH /\ "G" \in CH /\ "B" \in CH /\ "Ir" \in CH
      BY DEF CH, RGB
    <3> QED BY <1>14, <3>1 DEF AllLeft
  <2>3. Most \in Int
    BY <1>2, LimitIs DEF LightTypes
  <2>4. search.outer + AllLeft <= Most
    BY <1>1, <1>2 DEF Ending
  <2>5. search'.outer + AllLeft' <= Most'
    BY <1>3, <1>10, <1>11, <2>1, <2>2, <2>3, <2>4
  <2> QED BY <1>1, <2>5 DEF Ending
<1> QED BY <1>1, <1>12, <1>13, <1>15 DEF LightInv, Rising

(* The end of the search, however it ends. *)
LEMMA EndKept ==
  LightInv /\ (Insufficient \/ Flat \/ Lag \/ LightAborts \/ UNCHANGED lightVars) => LightInv'
<1> SUFFICES ASSUME LightInv, Insufficient \/ Flat \/ Lag \/ LightAborts \/ UNCHANGED lightVars PROVE LightInv'
  OBVIOUS
<1>1. LightTypes /\ Pace /\ Rising /\ Ending
  BY DEF LightInv
<1>2. CASE UNCHANGED lightVars
  BY <1>2 DEF LightInv, LightTypes, SetOk, SetShape, DevOk, DevShape, LampFits, SearchOk, SearchShape, Limit, PERIOD,
              Pace, Channels, LampIsSet, Rising, Ending, AllLeft, Left, Most, Gains, Offsets, lightVars
<1>3. CASE ~UNCHANGED lightVars
  <2>1. /\ at' \in {"over", "lag"} /\ job' = job /\ set' = set
        /\ at' = "lag" => at = "flat" /\ job.ir /\ dev' = Lit(FALSE, set.cur, set.d)
    BY <1>2, <1>3 DEF Insufficient, Flat, Lag, LightAborts, LightFails
  <2>2. SearchShape(search') /\ search'.round = search.round /\ search'.steps = search.steps /\ search'.outer = search.outer
    <3>1. search' = search \/ \E why : search' = [search EXCEPT !.failed = why]
      BY <1>3 DEF Insufficient, Flat, Lag, LightAborts, LightFails
    <3> QED BY <1>1, <3>1 DEF LightTypes, SearchOk, SearchShape
  <2>3. DevOk' /\ (at' = "lag" => dev'.gain = dev.gain /\ dev'.off = dev.off /\ (dev'.acquiring <=> dev.acquiring))
    <3>1. CASE dev' = dev
      <4>1. LampFits(dev)'
        BY <1>1, <2>1, <3>1, FitsPrimed DEF LightTypes, DevOk
      <4> QED BY <1>1, <3>1, <4>1 DEF LightTypes, DevOk, DevShape
    <3>2. CASE dev' = [dev EXCEPT !.acquiring = FALSE] /\ at' # "lag"
      <4>1. /\ DevShape(dev') /\ dev'.lv = dev.lv /\ dev'.on = dev.on /\ dev'.gain = dev.gain /\ dev'.off = dev.off
        BY <1>1, <3>2 DEF LightTypes, DevOk, DevShape
      <4>2. LampFits(dev)'
        BY <1>1, <2>1, <4>1, FitsPrimed DEF LightTypes, DevOk
      <4> QED BY <1>1, <3>2, <4>1, <4>2 DEF LightTypes, DevOk, DevShape
    <3>3. CASE dev' = Lit(FALSE, set.cur, set.d) /\ at = "flat"
      <4>1. PICK vis, cur, d : vis = FALSE /\ cur = set.cur /\ d = set.d
        OBVIOUS
      <4>2. LightTypes /\ job' = job /\ cur \in [CH -> Nat] /\ d \in [CH -> Nat] /\ cur["Ir"] >= 1
        BY <1>1, <2>1, <3>3, <4>1 DEF LightTypes, SetOk, CH, Pace
      <4>3. dev' = Lit(vis, cur, d)
        BY <3>3, <4>1
      <4>4. DevOk' /\ dev'.gain = dev.gain /\ dev'.off = dev.off /\ dev'.acquiring = dev.acquiring
        BY <4>2, <4>3, LitSent
      <4> QED BY <4>4
    <3>4. CASE Insufficient
      BY <3>1, <3>4 DEF Insufficient
    <3>5. CASE Lag \/ LightAborts
      BY <3>2, <3>5 DEF Lag, LightAborts, LightFails
    <3>6. CASE Flat /\ job.ir
      BY <3>3, <3>6 DEF Flat
    <3>7. CASE Flat /\ ~job.ir
      BY <3>2, <3>7 DEF Flat
    <3> QED BY <1>3, <3>4, <3>5, <3>6, <3>7
  <2>4. LightTypes'
    <3>1. SetOk'
      BY <1>1, <2>1 DEF LightTypes, SetOk, SetShape, Gains, Offsets
    <3>2. SearchOk'
      BY <1>1, <2>2 DEF LightTypes, SearchOk, SearchShape
    <3>3. at' \in Stages /\ job' \in JOBS
      BY <1>1, <2>1 DEF LightTypes, Stages
    <3> QED BY <2>3, <3>1, <3>2, <3>3 DEF LightTypes
  <2>5. Channels' = Channels /\ Limit' = Limit
    BY <2>1, SameJob
  <2>6. Pace'
    <3>1. at' = "lag" => /\ dev'.acquiring /\ dev'.gain = set'.gain /\ dev'.off = set'.off
                         /\ \A c \in CH : 1 <= set'.cur[c]
                         /\ \A c \in Channels' : set'.cur[c] <= Limit'[c]
      BY <1>1, <2>1, <2>3, <2>5 DEF Pace
    <3> QED BY <2>1, <3>1 DEF Pace
  <2> QED BY <2>1, <2>4, <2>6 DEF LightInv, Rising, Ending
<1> QED BY <1>2, <1>3

(* Every step keeps the invariant. *)
LEMMA LightKept == LightInv /\ [LightNext]_lightVars => LightInv'
BY OpenKept, BlackKept, DarkenedKept, StartFullKept, CurrentKept, StoredKept, DutyKept, RaiseKept, EndKept DEF LightNext

(* It implies what the run checks. *)
LEMMA SoundLight == LightInv => LightIsSound
<1> SUFFICES ASSUME LightInv PROVE LightIsSound
  OBVIOUS
<1>1. LightTypes /\ Pace /\ Rising /\ Ending
  BY DEF LightInv
<1>2. SettingsFit
  <2>1. /\ \A c \in CH : dev.lv[c] \in Nat /\ dev.lv[c] <= Limit[c] /\ dev.on[c] <= PERIOD - 2
        /\ (\A c \in CH : dev.lv[c] = 0) \/ (job.ir => dev.lv["Ir"] > 0)
        /\ "Ir" \in CH
    BY <1>1 DEF LightTypes, DevOk, LampFits, CH
  <2>2. \A c \in CH : dev.lv[c] <= LevelMax[c]
    <3>1. CASE dev.lv["Ir"] > 0
      <4>1. job.ir
        BY <2>1, <3>1, LightAssumption DEF Limit
      <4> QED BY <2>1, <3>1, <4>1 DEF Limit, LevelMax
    <3>2. CASE ~(dev.lv["Ir"] > 0)
      <4>1. \A c \in CH : LIM_RGB[c] \in Nat
        BY LightAssumption
      <4> QED BY <2>1, <3>2, <4>1 DEF Limit, LevelMax
    <3> QED BY <3>1, <3>2
  <2>3. \A c \in RGB : dev.gain[c] <= GAIN_MAX /\ dev.off[c] \in (1 - OFFSET_MAX)..OFFSET_MAX
    BY <1>1 DEF LightTypes, DevOk, Gains, Offsets
  <2> QED BY <2>1, <2>2, <2>3 DEF SettingsFit
<1>3. TablesAreOfTheLight
  <2> SUFFICES ASSUME at = "flat" PROVE TablesAreOfTheLight
    BY DEF TablesAreOfTheLight
  <2>1. /\ LampIsSet /\ dev.gain = set.gain /\ dev.off = set.off /\ dev.vis /\ dev.acquiring /\ dev.ir = job.ir
        /\ set.words = IF job.ir THEN 4 ELSE 3
    BY <1>1 DEF Pace
  <2>2. set.words = Cardinality(Channels)
    <3>1. IsFiniteSet({}) /\ Cardinality({}) = 0
      BY FS_EmptySet
    <3>2. IsFiniteSet({"R"}) /\ Cardinality({"R"}) = 1
      BY FS_Singleton
    <3>3. IsFiniteSet({"R"} \cup {"G"}) /\ Cardinality({"R"} \cup {"G"}) = 2
      BY <3>2, FS_AddElement
    <3>4. IsFiniteSet(({"R"} \cup {"G"}) \cup {"B"}) /\ Cardinality(({"R"} \cup {"G"}) \cup {"B"}) = 3
      BY <3>3, FS_AddElement
    <3>5. RGB = ({"R"} \cup {"G"}) \cup {"B"}
      BY DEF RGB
    <3>6. Cardinality(RGB) = 3 /\ Cardinality(CH) = 4
      BY <3>4, <3>5, FS_AddElement DEF CH
    <3> QED BY <2>1, <3>6 DEF Channels
  <2> QED BY <2>1, <2>2 DEF TablesAreOfTheLight, LampIsSet
<1>4. BoundsSuffice
  <2>1. at = "raise" => search.outer + 1 < OUTER_MAX
    <3> SUFFICES ASSUME at = "raise" PROVE search.outer + 1 < OUTER_MAX
      OBVIOUS
    <3>1. Bounded
      <4>1. CurrentsFit
        BY <1>1 DEF CurrentsFit, Pace
      <4> QED BY <4>1, LeftIs
    <3>2. search.outer \in Nat /\ search.outer + AllLeft <= Most /\ Most \in Nat /\ Most + 1 < OUTER_MAX
      BY <1>1, LimitIs DEF Ending, LightTypes, SearchOk
    <3>3. OUTER_MAX \in Nat
      BY LightAssumption
    <3> QED BY <3>1, <3>2, <3>3 DEF Bounded
  <2> QED BY <1>1, <2>1 DEF BoundsSuffice, Rising
<1> QED BY <1>2, <1>3, <1>4 DEF LightIsSound

(* LightIsSound: every setting sent is one the boards let through, the flat frame is taken under the settings that    *)
(* are stored, and neither of the two bounds of the port ends a search: for all readings, stored settings and limits. *)
THEOREM LightStaysSound == LightSpec => []LightIsSound
<1>1. LightSpec => []LightInv
  <2> HIDE DEF LightInit, LightNext, LightInv, lightVars
  <2> QED BY LightOpens, LightKept, PTL DEF LightSpec
<1> QED BY <1>1, SoundLight, PTL

-----------------------------------------------------------------------------
(* VendorStore: what imports make of a store                               *)

(* The places of an import: over a store it found, and for one of its own. *)
Completing == {"check", "add", "write", "rename"}
Founding == {"build", "move"}

(* Types of store and imports.                                             *)
VendorTypes ==
  /\ made \in BOOLEAN /\ spoiled \in BOOLEAN /\ robbed \in BOOLEAN /\ item \in [ITEMS -> Files]
  /\ imp \in [PIDS -> [at : {"idle"} \union Completing \union Founding, has : SUBSET ITEMS, lacks : SUBSET ITEMS,
                       row : Nat, lone : BOOLEAN]]

(* Import m has looked at row i of the store.                              *)
Looked(m, i) == m.at = "check" => i < m.row
(* What an import knows: its source has all that is required; a store that *)
(* it found is there, with no bad file among the rows it has looked at and *)
(* none lacking that it does not know of.                                  *)
Knows(m) ==
  /\ m.at # "idle" => REQUIRED \subseteq m.has
  /\ m.at \in {"check", "write", "rename"} => m.row \in ITEMS
  /\ m.at \in Completing =>
       made /\ \A i \in ITEMS : Looked(m, i) => item[i] # "bad" /\ (item[i] = "absent" => i \in m.lacks)

(* A lone import: nobody else puts a file there, nor a store.              *)
IsAlone(p) ==
  imp[p].lone =>
    /\ \A q \in PIDS : q # p => imp[q].at = "idle"
    /\ imp[p].at \in Founding => ~made
    /\ \A i \in imp[p].lacks : item[i] = "absent"

(* No store, no files.                                                     *)
NoStoreNoFiles == ~made => \A i \in ITEMS : item[i] = "absent"

(* The inductive invariant of the vendor store.                            *)
VendorInv ==
  /\ VendorTypes /\ NoStoreNoFiles
  /\ \A p \in PIDS : Knows(imp[p]) /\ IsAlone(p)
  /\ StoreIsWhole /\ OkMeansOpens /\ NeverTorn /\ ImportHeals


(* The first of a set of rows, and the last row of all.                    *)
LEMMA FirstRow ==
  ASSUME NEW S \in SUBSET ITEMS, S # {}
  PROVE  Min(S) \in S
<1>1. ITEMS \subseteq Nat
  <2>1. ITEMS = 1..Cardinality(ITEMS) /\ Cardinality(ITEMS) \in Nat
    BY VendorAssumption, FS_CardinalityType
  <2> QED BY <2>1
<1>2. \E x \in S : \A y \in S : ~ (<<y, x>> \in OpToRel(<, Nat))
  BY <1>1, NatLessThanWellFounded, WFMin
<1>3. PICK x \in S : \A y \in S : ~ (<<y, x>> \in OpToRel(<, Nat))
  BY <1>2
<1>4. \A y \in S : ~ (y < x)
  BY <1>1, <1>3 DEF OpToRel
<1>5. x \in S /\ \A y \in S : x =< y
  BY <1>1, <1>4
<1> QED BY <1>5 DEF Min

(* The rows are 1 to Max(ITEMS).                                           *)
LEMMA Rows ==
  /\ Max(ITEMS) \in Nat \ {0} /\ ITEMS = 1..Max(ITEMS) /\ Min(ITEMS) = 1
<1> DEFINE n == Cardinality(ITEMS)
<1>1. n \in Nat /\ ITEMS = 1..n /\ ITEMS # {}
  BY VendorAssumption, FS_CardinalityType
<1> HIDE DEF n
<1>2. n \in Nat \ {0} /\ n \in 1..n /\ 1 \in 1..n
  BY <1>1
<1>3. Max(1..n) = n
  <2>1. \E x \in 1..n : \A y \in 1..n : x >= y
    BY <1>2
  <2>2. Max(1..n) \in 1..n /\ Max(1..n) >= n
    BY <1>2, <2>1 DEF Max
  <2> QED BY <1>2, <2>2
<1>4. Min(1..n) = 1
  <2>1. \E x \in 1..n : \A y \in 1..n : x =< y
    BY <1>2
  <2>2. Min(1..n) \in 1..n /\ Min(1..n) <= 1
    BY <1>2, <2>1 DEF Min
  <2> QED BY <1>2, <2>2
<1> QED BY <1>1, <1>2, <1>3, <1>4

(* An import as one record.                                                *)
Imports == [at : {"idle"} \union Completing \union Founding, has : SUBSET ITEMS, lacks : SUBSET ITEMS,
            row : Nat, lone : BOOLEAN]

(* A step of one import leaves the others as they are.                     *)
LEMMA OneMoves ==
  ASSUME VendorTypes, NEW p \in PIDS, NEW m \in Imports, imp' = [imp EXCEPT ![p] = m]
  PROVE  /\ imp' \in [PIDS -> Imports] /\ imp'[p] = m /\ \A q \in PIDS : q # p => imp'[q] = imp[q]
BY DEF VendorTypes, Imports

(* An import that goes on elsewhere.                                       *)
LEMMA MovesIs ==
  ASSUME VendorTypes, NEW p \in PIDS, NEW to \in {"idle"} \union Completing \union Founding, MovesOn(p, to)
  PROVE  /\ imp'[p] = [at |-> to, has |-> imp[p].has, lacks |-> imp[p].lacks, row |-> imp[p].row, lone |-> imp[p].lone]
         /\ imp' \in [PIDS -> Imports] /\ \A q \in PIDS : q # p => imp'[q] = imp[q]
         /\ imp' = [imp EXCEPT ![p] = [at |-> to, has |-> imp[p].has, lacks |-> imp[p].lacks, row |-> imp[p].row, lone |-> imp[p].lone]]
<1>1. imp[p] \in Imports
  BY DEF VendorTypes, Imports
<1>2. [imp[p] EXCEPT !.at = to] =
        [at |-> to, has |-> imp[p].has, lacks |-> imp[p].lacks, row |-> imp[p].row, lone |-> imp[p].lone]
  BY <1>1 DEF Imports
<1>3. [at |-> to, has |-> imp[p].has, lacks |-> imp[p].lacks, row |-> imp[p].row, lone |-> imp[p].lone] \in Imports
  BY <1>1 DEF Imports
<1>4. imp' = [imp EXCEPT ![p] = [at |-> to, has |-> imp[p].has, lacks |-> imp[p].lacks, row |-> imp[p].row, lone |-> imp[p].lone]]
  BY <1>2 DEF MovesOn
<1> QED BY <1>3, <1>4, OneMoves

(* Nothing is imported.                                                    *)
LEMMA RestIs == AtRest \in Imports /\ AtRest.at = "idle" /\ AtRest.lone = FALSE /\ AtRest.lacks = {}
BY DEF AtRest, Imports

(* The store is empty at first.                                            *)
LEMMA VendorInvInit == VendorInit => VendorInv
<1> SUFFICES ASSUME VendorInit PROVE VendorInv
  OBVIOUS
<1>1. \A p \in PIDS : imp[p] = AtRest
  BY DEF VendorInit
<1>2. \A i \in ITEMS : item[i] = "absent"
  BY DEF VendorInit
<1>3. VendorTypes
  BY RestIs DEF VendorInit, VendorTypes, Imports, Files
<1>4. \A p \in PIDS : Knows(imp[p]) /\ IsAlone(p)
  BY <1>1, RestIs DEF Knows, IsAlone, Completing
<1>5. NoStoreNoFiles /\ StoreIsWhole /\ OkMeansOpens /\ NeverTorn /\ ImportHeals
  BY <1>2 DEF VendorInit, NoStoreNoFiles, StoreIsWhole, OkMeansOpens, NeverTorn, ImportHeals, NoOutcome
<1> QED BY <1>3, <1>4, <1>5 DEF VendorInv

(* What the steps of an import keep that touch no file: if the import      *)
(* itself still knows its store, and is alone or not as before.            *)
LEMMA ImportGoesOn ==
  ASSUME VendorInv, NEW p \in PIDS, NEW m \in Imports, imp' = [imp EXCEPT ![p] = m],
         UNCHANGED made, UNCHANGED item, UNCHANGED spoiled, UNCHANGED robbed,
         Knows(m), imp[p].at # "idle",
         m.lone => imp[p].lone, m.lone => m.at # "idle", m.lone => (m.at \in Founding => ~made),
         m.lone => \A i \in m.lacks : item[i] = "absent",
         OkMeansOpens', ImportHeals'
  PROVE  VendorInv'
<1>1. imp' \in [PIDS -> Imports] /\ imp'[p] = m /\ \A q \in PIDS : q # p => imp'[q] = imp[q]
  BY OneMoves DEF VendorInv
<1>2. VendorTypes' /\ NoStoreNoFiles' /\ StoreIsWhole' /\ NeverTorn'
  BY <1>1 DEF VendorInv, VendorTypes, NoStoreNoFiles, StoreIsWhole, NeverTorn, Imports
<1>3. \A q \in PIDS : Knows(imp[q])'
  BY <1>1 DEF VendorInv, Knows, Looked
<1>4. \A q \in PIDS : IsAlone(q)'
  <2> TAKE q \in PIDS
  <2>1. CASE q = p
    BY <1>1, <2>1 DEF VendorInv, IsAlone
  <2>2. CASE q # p /\ imp[q].lone
    BY <2>2 DEF VendorInv, IsAlone
  <2>3. CASE q # p /\ ~imp[q].lone
    BY <1>1, <2>3 DEF IsAlone
  <2> QED BY <2>1, <2>2, <2>3
<1> QED BY <1>2, <1>3, <1>4 DEF VendorInv

(* What the last import returned stays true as long as store and files do. *)
LEMMA SameOutcome ==
  ASSUME VendorInv, UNCHANGED <<item, leftover, outcome>>
  PROVE  OkMeansOpens' /\ ImportHeals'
BY DEF VendorInv, OkMeansOpens, ImportHeals, StoreAccepts

(* An import that returns rests.                                           *)
LEMMA ReturnIs ==
  ASSUME VendorInv, NEW p \in PIDS, NEW ok \in BOOLEAN, Returns(p, ok), imp[p].at # "idle",
         UNCHANGED store, ok => StoreAccepts(item),
         ~ok /\ imp[p].lone /\ ~spoiled => \E i \in ITEMS : <<i, p>> \in leftover
  PROVE  VendorInv'
<1>1. imp' = [imp EXCEPT ![p] = AtRest] /\ AtRest \in Imports /\ AtRest.at = "idle" /\ AtRest.lone = FALSE
  BY RestIs DEF Returns
<1>2. outcome'.ok = ok /\ outcome'.owed = (imp[p].lone /\ ~spoiled) /\ outcome'.by = p
  BY DEF Returns
<1>3. UNCHANGED <<made, item, leftover, spoiled, robbed>>
  BY DEF Returns, store
<1>4. Knows(AtRest)
  BY <1>1 DEF Knows, Completing
<1>5. OkMeansOpens' /\ ImportHeals'
  BY <1>2, <1>3 DEF OkMeansOpens, ImportHeals, StoreAccepts
<1> QED BY <1>1, <1>3, <1>4, <1>5, ImportGoesOn

(* What is known of an import.                                             *)
LEMMA ImportIs ==
  ASSUME VendorInv, NEW p \in PIDS
  PROVE  /\ imp[p] \in Imports /\ Knows(imp[p]) /\ IsAlone(p)
         /\ imp[p] = [at |-> imp[p].at, has |-> imp[p].has, lacks |-> imp[p].lacks, row |-> imp[p].row, lone |-> imp[p].lone]
         /\ imp[p].has \subseteq ITEMS /\ imp[p].lacks \subseteq ITEMS /\ imp[p].row \in Nat /\ imp[p].lone \in BOOLEAN
BY DEF VendorInv, VendorTypes, Imports

(* An import that is at another place, with other rows.                    *)
LEMMA NextIs ==
  ASSUME VendorInv, NEW p \in PIDS, NEW to \in {"idle"} \union Completing \union Founding,
         NEW row \in Nat, NEW lacks \in SUBSET ITEMS
  PROVE  [at |-> to, has |-> imp[p].has, lacks |-> lacks, row |-> row, lone |-> imp[p].lone] \in Imports
<1>1. imp[p].has \in SUBSET ITEMS /\ imp[p].lone \in BOOLEAN
  BY ImportIs
<1> QED BY <1>1 DEF Imports

(* A row looked at: good so far.                                           *)
LEMMA CheckKeeps == ASSUME VendorInv, NEW p \in PIDS, Check(p) PROVE VendorInv'
<1> DEFINE i == imp[p].row
           last == i = Max(ITEMS)
           m == [at |-> IF last THEN "add" ELSE "check", has |-> imp[p].has,
                 lacks |-> IF item[i] = "absent" THEN imp[p].lacks \union {i} ELSE imp[p].lacks,
                 row |-> IF last THEN 0 ELSE i + 1, lone |-> imp[p].lone]
<1>1. imp[p].at = "check" /\ item[i] # "bad" /\ i \in ITEMS /\ i \in 1..Max(ITEMS) /\ Max(ITEMS) \in Nat
  BY ImportIs, Rows DEF Check, Refuses, Knows
<1>2. m \in Imports
  <2>1. (IF last THEN "add" ELSE "check") \in Completing /\ (IF last THEN 0 ELSE i + 1) \in Nat
    BY <1>1, Rows DEF Completing
  <2>2. (IF item[i] = "absent" THEN imp[p].lacks \union {i} ELSE imp[p].lacks) \in SUBSET ITEMS
    BY <1>1, ImportIs
  <2> QED BY <2>1, <2>2, NextIs
<1>3. imp' = [imp EXCEPT ![p] = m]
  <2>1. imp \in [PIDS -> Imports]
    BY DEF VendorInv, VendorTypes, Imports
  <2>2. imp' = [imp EXCEPT ![p].lacks = IF item[i] = "absent" THEN @ \union {i} ELSE @,
                           ![p].at = IF last THEN "add" ELSE @, ![p].row = IF last THEN 0 ELSE @ + 1]
    BY DEF Check
  <2> QED BY <1>1, <2>1, <2>2, ImportIs DEF Imports
<1>4. Knows(m)
  <2>1. REQUIRED \subseteq imp[p].has /\ made
        /\ \A j \in ITEMS : j < i => item[j] # "bad" /\ (item[j] = "absent" => j \in imp[p].lacks)
    BY <1>1, ImportIs DEF Knows, Looked, Completing
  <2>2. m.at \in {"check", "add"} /\ (m.at = "check" => ~last /\ m.row = i + 1) /\ m.has = imp[p].has
    OBVIOUS
  <2>3. ~last => i + 1 \in ITEMS
    BY <1>1, Rows
  <2>4. \A j \in ITEMS : Looked(m, j) => j < i \/ j = i
    BY <1>1, Rows, <2>2 DEF Looked
  <2>5. imp[p].lacks \subseteq m.lacks /\ (item[i] = "absent" => i \in m.lacks)
    OBVIOUS
  <2> HIDE DEF m, last
  <2> QED BY <1>1, <2>1, <2>2, <2>3, <2>4, <2>5 DEF Knows, Completing
<1>5. m.lone => \A j \in m.lacks : item[j] = "absent"
  BY ImportIs DEF IsAlone
<1>6. m.at \notin Founding /\ m.at # "idle" /\ (m.lone <=> imp[p].lone)
  BY DEF Founding
<1>7. UNCHANGED <<made, item, leftover, spoiled, robbed, outcome>>
  BY DEF Check, store, Quiet
<1>8. OkMeansOpens' /\ ImportHeals'
  BY <1>7, SameOutcome
<1> HIDE DEF m
<1> QED BY <1>1, <1>2, <1>3, <1>4, <1>5, <1>6, <1>7, <1>8, ImportGoesOn

(* A bad file of the store ends the import.                                *)
LEMMA CheckRefusesKeeps == ASSUME VendorInv, NEW p \in PIDS, CheckRefuses(p) PROVE VendorInv'
<1>1. imp[p].at = "check" /\ item[imp[p].row] = "bad" /\ imp[p].row \in ITEMS
  BY ImportIs DEF CheckRefuses, Refuses, Knows
<1>2. spoiled
  BY <1>1 DEF VendorInv, NeverTorn
<1> QED BY <1>1, <1>2, ReturnIs DEF CheckRefuses

(* A lacking item is looked for once more; a lone import finds none there. *)
LEMMA AddLooksKeeps == ASSUME VendorInv, NEW p \in PIDS, AddLooks(p) PROVE VendorInv'
<1> DEFINE i == Min(Wanted(p))
<1>1. imp[p].at = "add" /\ Wanted(p) # {} /\ Wanted(p) \subseteq ITEMS /\ Wanted(p) \subseteq imp[p].lacks /\ UNCHANGED store
  BY ImportIs DEF AddLooks, Wanted
<1>2. i \in ITEMS /\ i \in imp[p].lacks /\ i \in Nat
  BY <1>1, FirstRow, Rows
<1>3. CASE item[i] = "absent"
  <2> DEFINE m == [at |-> "write", has |-> imp[p].has, lacks |-> imp[p].lacks, row |-> i, lone |-> imp[p].lone]
  <2>1. imp' = [imp EXCEPT ![p].at = "write", ![p].row = i] /\ Quiet
    BY <1>3 DEF AddLooks
  <2>2. imp' = [imp EXCEPT ![p] = m] /\ m \in Imports
    <3>1. imp \in [PIDS -> Imports]
      BY DEF VendorInv, VendorTypes, Imports
    <3>2. "write" \in Completing /\ imp[p].lacks \in SUBSET ITEMS
      BY ImportIs DEF Completing
    <3>3. m \in Imports
      BY <1>2, <3>2, NextIs
    <3>4. imp[p] \in Imports
      BY <3>1
    <3>5. [imp[p] EXCEPT !.at = "write", !.row = i] = m
      <4>1. [imp[p] EXCEPT !.at = "write"] =
               [at |-> "write", has |-> imp[p].has, lacks |-> imp[p].lacks, row |-> imp[p].row, lone |-> imp[p].lone]
        BY <3>4 DEF Imports
      <4>2. [imp[p] EXCEPT !.at = "write", !.row = i] =
               [[at |-> "write", has |-> imp[p].has, lacks |-> imp[p].lacks, row |-> imp[p].row, lone |-> imp[p].lone]
                  EXCEPT !.row = i]
        BY <4>1
      <4>3. [[at |-> "write", has |-> imp[p].has, lacks |-> imp[p].lacks, row |-> imp[p].row, lone |-> imp[p].lone]
                 EXCEPT !.row = i] = m
        OBVIOUS
      <4> QED BY <4>2, <4>3
    <3>6. imp' = [imp EXCEPT ![p] = [imp[p] EXCEPT !.at = "write", !.row = i]]
      BY <2>1, <3>1
    <3> QED BY <3>3, <3>5, <3>6
  <2>3. Knows(m)
    BY <1>1, <1>2, ImportIs DEF Knows, Looked, Completing
  <2>4. m.lone => \A j \in m.lacks : item[j] = "absent"
    BY ImportIs DEF IsAlone
  <2>5. UNCHANGED <<made, item, leftover, spoiled, robbed, outcome>>
    BY <1>1, <2>1 DEF store, Quiet
  <2>6. m.at = "write" /\ (m.lone <=> imp[p].lone) /\ "write" \notin Founding
    BY DEF Founding
  <2>7. OkMeansOpens' /\ ImportHeals'
    BY <2>5, SameOutcome
  <2> HIDE DEF m
  <2> QED BY <1>1, <2>2, <2>3, <2>4, <2>5, <2>6, <2>7, ImportGoesOn
<1>4. CASE item[i] # "absent"
  <2>1. Returns(p, FALSE)
    BY <1>4 DEF AddLooks
  <2>2. ~imp[p].lone
    BY <1>2, <1>4, ImportIs DEF IsAlone
  <2> QED BY <1>1, <2>1, <2>2, ReturnIs
<1> QED BY <1>3, <1>4

(* The temporary file: only one of this very pid is in the way.            *)
LEMMA AddWritesKeeps == ASSUME VendorInv, NEW p \in PIDS, AddWrites(p) PROVE VendorInv'
<1>1. imp[p].at = "write" /\ imp[p].row \in ITEMS /\ UNCHANGED store
  BY ImportIs DEF AddWrites, Knows
<1>2. CASE <<imp[p].row, TmpName(p)>> \in leftover
  BY <1>1, <1>2, ReturnIs DEF AddWrites, TmpName
<1>3. CASE <<imp[p].row, TmpName(p)>> \notin leftover
  <2> DEFINE m == [at |-> "rename", has |-> imp[p].has, lacks |-> imp[p].lacks, row |-> imp[p].row, lone |-> imp[p].lone]
  <2>1. MovesOn(p, "rename") /\ Quiet
    BY <1>3 DEF AddWrites
  <2>2. imp' = [imp EXCEPT ![p] = m] /\ m \in Imports
    <3>1. imp \in [PIDS -> Imports]
      BY DEF VendorInv, VendorTypes, Imports
    <3>2. "rename" \in Completing /\ imp[p].lacks \in SUBSET ITEMS /\ imp[p].row \in Nat
      BY ImportIs DEF Completing
    <3>3. m \in Imports
      BY <3>2, NextIs
    <3>5. imp' = [imp EXCEPT ![p] = m]
      BY <2>1, <3>2, MovesIs DEF VendorInv
    <3> QED BY <3>3, <3>5
  <2>3. Knows(m)
    BY <1>1, ImportIs DEF Knows, Looked, Completing
  <2>4. m.lone => \A j \in m.lacks : item[j] = "absent"
    BY ImportIs DEF IsAlone
  <2>5. UNCHANGED <<made, item, leftover, spoiled, robbed, outcome>>
    BY <1>1, <2>1 DEF store, Quiet
  <2>6. m.at = "rename" /\ (m.lone <=> imp[p].lone) /\ "rename" \notin Founding
    BY DEF Founding
  <2>7. OkMeansOpens' /\ ImportHeals'
    BY <2>5, SameOutcome
  <2> HIDE DEF m
  <2> QED BY <1>1, <2>2, <2>3, <2>4, <2>5, <2>6, <2>7, ImportGoesOn
<1> QED BY <1>2, <1>3

(* Nothing that is required is lacking any more: the store opens.          *)
LEMMA AddDoneKeeps == ASSUME VendorInv, NEW p \in PIDS, AddDone(p) PROVE VendorInv'
<1>1. imp[p].at = "add" /\ imp[p].lacks \intersect imp[p].has = {} /\ Returns(p, TRUE) /\ UNCHANGED store
  BY DEF AddDone, Wanted
<1>2. /\ REQUIRED \subseteq imp[p].has /\ REQUIRED \subseteq ITEMS
      /\ \A i \in ITEMS : item[i] # "bad" /\ (item[i] = "absent" => i \in imp[p].lacks) /\ item[i] \in Files
  BY <1>1, ImportIs, VendorAssumption DEF Knows, Looked, Completing, VendorInv, VendorTypes
<1>3. StoreAccepts(item)
  BY <1>1, <1>2 DEF StoreAccepts, Files
<1> QED BY <1>1, <1>3, ReturnIs

(* A store of its own is filled, out of sight.                             *)
LEMMA BuildKeeps == ASSUME VendorInv, NEW p \in PIDS, Build(p) PROVE VendorInv'
<1> DEFINE m == [at |-> "move", has |-> imp[p].has, lacks |-> imp[p].lacks, row |-> imp[p].row, lone |-> imp[p].lone]
<1>1. imp[p].at = "build" /\ MovesOn(p, "move") /\ UNCHANGED store /\ Quiet
  BY DEF Build, InPlace
<1>2. imp' = [imp EXCEPT ![p] = m] /\ m \in Imports
  <2>1. imp \in [PIDS -> Imports]
    BY DEF VendorInv, VendorTypes, Imports
  <2>2. "move" \in Founding /\ imp[p].lacks \in SUBSET ITEMS /\ imp[p].row \in Nat
    BY ImportIs DEF Founding
  <2>3. m \in Imports
    BY <2>2, NextIs
  <2>5. imp' = [imp EXCEPT ![p] = m]
    BY <1>1, <2>2, MovesIs DEF VendorInv
  <2> QED BY <2>3, <2>5
<1>3. Knows(m)
  BY <1>1, ImportIs DEF Knows, Completing
<1>4. m.lone => (\A j \in m.lacks : item[j] = "absent") /\ ~made
  BY <1>1, ImportIs DEF IsAlone, Founding
<1>5. UNCHANGED <<made, item, leftover, spoiled, robbed, outcome>>
  BY <1>1 DEF store, Quiet
<1>6. m.at = "move" /\ (m.lone <=> imp[p].lone)
  OBVIOUS
<1>7. OkMeansOpens' /\ ImportHeals'
  BY <1>5, SameOutcome
<1> HIDE DEF m
<1> QED BY <1>1, <1>2, <1>3, <1>4, <1>5, <1>6, <1>7, ImportGoesOn

(* Another import's store is in the way: so the import is not alone.       *)
LEMMA MoveLosesKeeps == ASSUME VendorInv, NEW p \in PIDS, MoveLoses(p) PROVE VendorInv'
<1>1. imp[p].at = "move" /\ (\E i \in ITEMS : item[i] # "absent") /\ Returns(p, FALSE) /\ UNCHANGED store
  BY DEF MoveLoses
<1>2. ~imp[p].lone
  BY <1>1, ImportIs DEF IsAlone, Founding, VendorInv, NoStoreNoFiles
<1> QED BY <1>1, <1>2, ReturnIs

(* An I/O error ends an import anywhere, a crash leaves its temporary file.*)
LEMMA EndsKeep == ASSUME VendorInv, NEW p \in PIDS, Fails(p) \/ Crash(p) PROVE VendorInv'
<1>1. Knows(AtRest) /\ AtRest \in Imports /\ ~AtRest.lone
  BY RestIs DEF Knows, AtRest, Completing
<1>2. imp' = [imp EXCEPT ![p] = AtRest] /\ outcome' = NoOutcome /\ imp[p].at # "idle"
  BY DEF Fails, Crash
<1>3. UNCHANGED made /\ UNCHANGED item /\ UNCHANGED spoiled /\ UNCHANGED robbed
  BY DEF Fails, Crash, store
<1>4. OkMeansOpens' /\ ImportHeals'
  BY <1>2 DEF OkMeansOpens, ImportHeals, NoOutcome
<1> QED BY <1>1, <1>2, <1>3, <1>4, ImportGoesOn

(* A new import, of a source that has all that is required.                *)
LEMMA BeginKeeps == ASSUME VendorInv, NEW p \in PIDS, Begin(p) PROVE VendorInv'
<1>1. PICK source \in [ITEMS -> Files] :
        /\ StoreAccepts(source)
        /\ LET alone == \A q \in PIDS : imp[q].at = "idle"
               sure == alone /\ \A i \in ITEMS : source[i] = "good"
               this == [at |-> IF made THEN "check" ELSE "build", row |-> Min(ITEMS), lacks |-> {},
                        has |-> {i \in ITEMS : source[i] = "good"}, lone |-> sure]
           IN  imp' = [q \in PIDS |-> IF q = p THEN this ELSE [imp[q] EXCEPT !.lone = FALSE]]
  BY DEF Begin
<1> DEFINE alone == \A q \in PIDS : imp[q].at = "idle"
           sure == alone /\ \A i \in ITEMS : source[i] = "good"
           has == {i \in ITEMS : source[i] = "good"}
           this == [at |-> IF made THEN "check" ELSE "build", row |-> Min(ITEMS), lacks |-> {}, has |-> has, lone |-> sure]
<1>2. this \in Imports /\ this.at # "idle" /\ this.row = 1 /\ this.lacks = {} /\ REQUIRED \subseteq this.has
  <2>1. (IF made THEN "check" ELSE "build") \in Completing \union Founding /\ (IF made THEN "check" ELSE "build") # "idle"
    BY DEF Completing, Founding
  <2>2. sure \in BOOLEAN /\ has \in SUBSET ITEMS /\ REQUIRED \subseteq has
    BY <1>1, VendorAssumption DEF StoreAccepts
  <2>3. Min(ITEMS) = 1 /\ 1 \in Nat
    BY Rows
  <2> HIDE DEF sure, has
  <2> QED BY <2>1, <2>2, <2>3 DEF Imports
<1>3. made \in BOOLEAN /\ (this.at = IF made THEN "check" ELSE "build") /\ (this.lone => alone)
  BY DEF VendorInv, VendorTypes
<1>4. imp'[p] = this /\ \A q \in PIDS : q # p => imp'[q] = [imp[q] EXCEPT !.lone = FALSE]
  BY <1>1
<1> HIDE DEF this
<1>5. ASSUME NEW q \in PIDS, q # p
      PROVE  /\ imp'[q] \in Imports /\ imp'[q].at = imp[q].at /\ imp'[q].has = imp[q].has /\ imp'[q].lacks = imp[q].lacks
             /\ imp'[q].row = imp[q].row /\ imp'[q].lone = FALSE
  <2>1. PICK m \in Imports : m = imp[q]
    BY ImportIs
  <2>2. PICK u : u = [m EXCEPT !.lone = FALSE]
    OBVIOUS
  <2>3. u \in Imports /\ u.at = m.at /\ u.has = m.has /\ u.lacks = m.lacks /\ u.row = m.row /\ u.lone = FALSE
    BY <2>2 DEF Imports
  <2>4. imp'[q] = u
    BY <1>4, <1>5, <2>1, <2>2
  <2> QED BY <2>1, <2>3, <2>4
<1>6. imp' \in [PIDS -> Imports]
  <2>1. \A q \in PIDS : imp'[q] \in Imports
    BY <1>2, <1>4, <1>5
  <2>2. imp' = [q \in PIDS |-> imp'[q]]
    BY <1>1
  <2> QED BY <2>1, <2>2
<1>7. UNCHANGED <<made, item, waiting, leftover, outcome, opened, spoiled, robbed>>
  BY DEF Begin, store, Quiet
<1>8. VendorTypes' /\ NoStoreNoFiles' /\ StoreIsWhole' /\ NeverTorn'
  BY <1>6, <1>7 DEF VendorInv, VendorTypes, NoStoreNoFiles, StoreIsWhole, NeverTorn, Imports
<1>9. OkMeansOpens' /\ ImportHeals'
  BY <1>7, SameOutcome
<1>10. Knows(imp[p])'
  <2>1. this.at \in {"check", "build"} /\ (this.at = "check" => made) /\ 1 \in ITEMS /\ \A i \in ITEMS : ~ (i < 1)
    BY <1>3, Rows
  <2> QED BY <1>2, <1>4, <1>7, <2>1 DEF Knows, Looked, Completing
<1>11. \A q \in PIDS : Knows(imp[q])'
  <2>1. ASSUME NEW q \in PIDS, q # p PROVE Knows(imp[q])'
    BY <1>5, <1>7, <2>1, ImportIs DEF Knows, Looked
  <2> QED BY <1>10, <2>1
<1>12. \A q \in PIDS : IsAlone(q)'
  <2>1. ASSUME NEW q \in PIDS, q # p PROVE IsAlone(q)'
    BY <1>5, <2>1 DEF IsAlone
  <2>2. this.lone => \A q \in PIDS : q # p => imp'[q].at = "idle"
    BY <1>3, <1>5
  <2>3. IsAlone(p)'
    BY <1>2, <1>3, <1>4, <1>7, <2>2 DEF IsAlone, Founding
  <2> QED BY <2>1, <2>3
<1> QED BY <1>8, <1>9, <1>11, <1>12 DEF VendorInv

(* A file is put where an import looked: nobody's knowledge becomes wrong. *)
LEMMA AddRenamesKeeps == ASSUME VendorInv, NEW p \in PIDS, AddRenames(p) PROVE VendorInv'
<1> DEFINE i == imp[p].row
           m == [at |-> "add", has |-> imp[p].has, lacks |-> imp[p].lacks \ {i}, row |-> i, lone |-> imp[p].lone]
<1>1. imp[p].at = "rename" /\ i \in ITEMS /\ made
  BY ImportIs DEF AddRenames, Knows, Completing
<1>2. item' = [item EXCEPT ![i] = "good"] /\ UNCHANGED <<made, leftover, outcome, opened, spoiled, robbed>>
  BY DEF AddRenames, Quiet
<1>3. m \in Imports
  BY ImportIs, NextIs DEF Completing
<1>4. imp' = [imp EXCEPT ![p] = m]
  <2>1. imp \in [PIDS -> Imports]
    BY DEF VendorInv, VendorTypes, Imports
  <2>2. imp' = [imp EXCEPT ![p].at = "add", ![p].lacks = @ \ {i}]
    BY DEF AddRenames
  <2>3. imp[p] \in Imports
    BY <2>1
  <2>4. [imp[p] EXCEPT !.at = "add", !.lacks = @ \ {i}] = m
    <3>1. [imp[p] EXCEPT !.at = "add"] =
               [at |-> "add", has |-> imp[p].has, lacks |-> imp[p].lacks, row |-> imp[p].row, lone |-> imp[p].lone]
      BY <2>3 DEF Imports
    <3>2. [imp[p] EXCEPT !.at = "add", !.lacks = @ \ {i}] =
             [[at |-> "add", has |-> imp[p].has, lacks |-> imp[p].lacks, row |-> imp[p].row, lone |-> imp[p].lone]
                EXCEPT !.lacks = @ \ {i}]
      BY <3>1
    <3>3. [[at |-> "add", has |-> imp[p].has, lacks |-> imp[p].lacks, row |-> imp[p].row, lone |-> imp[p].lone]
               EXCEPT !.lacks = @ \ {i}] = m
      OBVIOUS
    <3> QED BY <3>2, <3>3
  <2>5. imp' = [imp EXCEPT ![p] = [imp[p] EXCEPT !.at = "add", !.lacks = @ \ {i}]]
    BY <2>1, <2>2
  <2> QED BY <2>4, <2>5
<1>5. imp' \in [PIDS -> Imports] /\ imp'[p] = m /\ \A q \in PIDS : q # p => imp'[q] = imp[q]
  BY <1>3, <1>4, OneMoves DEF VendorInv
<1>6. item' \in [ITEMS -> Files] /\ item'[i] = "good" /\ \A j \in ITEMS : j # i => item'[j] = item[j]
  BY <1>1, <1>2 DEF VendorInv, VendorTypes, Files
<1>7. VendorTypes' /\ NoStoreNoFiles' /\ StoreIsWhole' /\ NeverTorn'
  BY <1>1, <1>2, <1>5, <1>6, VendorAssumption DEF VendorInv, VendorTypes, NoStoreNoFiles, StoreIsWhole, NeverTorn, Imports
<1>8. OkMeansOpens' /\ ImportHeals'
  BY <1>2, <1>6, VendorAssumption DEF VendorInv, OkMeansOpens, ImportHeals, StoreAccepts
<1>9. ASSUME NEW q \in PIDS PROVE Knows(imp[q])'
  <2>1. CASE q = p
    <3>1. m.at = "add" /\ m.has = imp[p].has /\ m.lacks = imp[p].lacks \ {i}
      OBVIOUS
    <3> HIDE DEF m
    <3>2. /\ REQUIRED \subseteq imp[p].has
          /\ \A j \in ITEMS : item[j] # "bad" /\ (item[j] = "absent" => j \in imp[p].lacks)
      BY <1>1, ImportIs DEF Knows, Looked, Completing
    <3> QED BY <1>1, <1>2, <1>5, <1>6, <2>1, <3>1, <3>2 DEF Knows, Looked, Completing
  <2>2. CASE q # p
    <3>1. imp'[q] = imp[q] /\ Knows(imp[q])
      BY <1>5, <2>2, ImportIs
    <3>2. \A j \in ITEMS : item'[j] = "good" \/ item'[j] = item[j]
      BY <1>6
    <3> QED BY <1>2, <3>1, <3>2 DEF Knows, Looked
  <2> QED BY <2>1, <2>2
<1>10. ASSUME NEW q \in PIDS PROVE IsAlone(q)'
  <2>1. CASE q = p
    <3>1. m.at = "add" /\ m.lacks = imp[p].lacks \ {i} /\ (m.lone <=> imp[p].lone) /\ "add" \notin Founding
      BY DEF Founding
    <3>2. IsAlone(p) /\ m.lacks \subseteq ITEMS
      BY <3>1, ImportIs
    <3> HIDE DEF m
    <3> QED BY <1>5, <1>6, <2>1, <3>1, <3>2 DEF IsAlone
  <2>2. CASE q # p
    <3>1. ~imp[q].lone
      BY <1>1, <2>2, ImportIs DEF IsAlone
    <3> QED BY <1>5, <2>2, <3>1 DEF IsAlone
  <2> QED BY <2>1, <2>2
<1> QED BY <1>7, <1>8, <1>9, <1>10 DEF VendorInv

(* A store of its own is renamed into place: it has all that is required.  *)
LEMMA MoveKeeps == ASSUME VendorInv, NEW p \in PIDS, Move(p) PROVE VendorInv'
<1>1. /\ imp[p].at = "move" /\ (\A i \in ITEMS : item[i] = "absent") /\ made'
      /\ item' = [i \in ITEMS |-> IF i \in imp[p].has THEN "good" ELSE "absent"]
      /\ Returns(p, TRUE) /\ UNCHANGED leftover
  BY DEF Move
<1>2. imp' = [imp EXCEPT ![p] = AtRest] /\ UNCHANGED <<spoiled, robbed>> /\ outcome'.ok = TRUE
  BY <1>1 DEF Returns
<1>3. imp' \in [PIDS -> Imports] /\ imp'[p] = AtRest /\ \A q \in PIDS : q # p => imp'[q] = imp[q]
  BY <1>2, RestIs, OneMoves DEF VendorInv
<1>4. REQUIRED \subseteq imp[p].has /\ REQUIRED \subseteq ITEMS
  BY <1>1, ImportIs, VendorAssumption DEF Knows
<1>5. \A i \in ITEMS : item'[i] \in {"good", "absent"} /\ (i \in REQUIRED => item'[i] = "good")
  BY <1>1, <1>4
<1>6. VendorTypes' /\ NoStoreNoFiles' /\ StoreIsWhole' /\ NeverTorn'
  BY <1>1, <1>2, <1>3, <1>4, <1>5 DEF VendorInv, VendorTypes, NoStoreNoFiles, StoreIsWhole, NeverTorn, Imports, Files
<1>7. OkMeansOpens' /\ ImportHeals'
  BY <1>2, <1>4, <1>5 DEF OkMeansOpens, ImportHeals, StoreAccepts
<1>8. ASSUME NEW q \in PIDS PROVE Knows(imp[q])' /\ IsAlone(q)'
  <2>1. CASE q = p
    BY <1>3, <2>1, RestIs DEF Knows, IsAlone, Completing
  <2>2. CASE q # p
    <3>1. imp'[q] = imp[q] /\ Knows(imp[q]) /\ ~imp[q].lone
      BY <1>1, <1>3, <2>2, ImportIs DEF IsAlone
    <3> QED BY <1>1, <1>5, <3>1 DEF Knows, Looked, IsAlone
  <2> QED BY <2>1, <2>2
<1> QED BY <1>6, <1>7, <1>8 DEF VendorInv

(* Steps of the world while no import runs, or that end all of them.       *)
LEMMA AllRest ==
  ASSUME VendorInv, imp' \in [PIDS -> Imports], \A q \in PIDS : imp'[q].at = "idle" /\ imp'[q].lone = FALSE
  PROVE  \A q \in PIDS : Knows(imp[q])' /\ IsAlone(q)'
BY DEF Knows, IsAlone, Completing

(* A power loss takes whole files, or the whole store with them.           *)
LEMMA PowerLossKeeps == ASSUME VendorInv, PowerLoss PROVE VendorInv'
<1>1. PICK left \in [ITEMS -> Files], stays \in {TRUE, 0 \notin waiting} :
        /\ \A i \in ITEMS : left[i] # item[i] => i \in waiting /\ item[i] = "good" /\ left[i] \in Synced
        /\ made' = (made /\ stays)
        /\ item' = [i \in ITEMS |-> IF stays THEN left[i] ELSE "absent"]
        /\ robbed' = (robbed \/ item' # item)
  BY DEF PowerLoss
<1>2. imp' = [p \in PIDS |-> AtRest] /\ outcome' = NoOutcome /\ UNCHANGED spoiled
  BY DEF PowerLoss
<1>3. imp' \in [PIDS -> Imports] /\ \A q \in PIDS : imp'[q].at = "idle" /\ imp'[q].lone = FALSE
  BY <1>2, RestIs
<1>4. item' \in [ITEMS -> Files] /\ \A i \in ITEMS : item'[i] = item[i] \/ item'[i] \in {"good", "absent"}
  BY <1>1 DEF Synced, Files
<1>5. VendorTypes'
  BY <1>1, <1>2, <1>3, <1>4 DEF VendorInv, VendorTypes, Imports
<1>6. NoStoreNoFiles'
  <2>1. CASE stays
    <3>1. ~made => \A i \in ITEMS : item[i] = "absent"
      BY DEF VendorInv, NoStoreNoFiles
    <3> QED BY <1>1, <2>1, <3>1 DEF NoStoreNoFiles
  <2>2. CASE ~stays
    BY <1>1, <2>2 DEF NoStoreNoFiles
  <2> QED BY <2>1, <2>2
<1>7. StoreIsWhole'
  <2>1. robbed' \/ item' = item
    BY <1>1
  <2> QED BY <1>1, <1>2, <2>1 DEF VendorInv, VendorTypes, StoreIsWhole
<1>8. NeverTorn' /\ OkMeansOpens' /\ ImportHeals'
  BY <1>2, <1>4 DEF VendorInv, NeverTorn, OkMeansOpens, ImportHeals, NoOutcome
<1> QED BY <1>3, <1>5, <1>6, <1>7, <1>8, AllRest DEF VendorInv

(* The disk makes a file bad.                                              *)
LEMMA DamageKeeps == ASSUME VendorInv, Damage PROVE VendorInv'
<1>1. PICK i \in ITEMS : item[i] = "good" /\ item' = [item EXCEPT ![i] = "bad"]
  BY DEF Damage
<1>2. spoiled' = TRUE /\ outcome' = NoOutcome /\ UNCHANGED <<made, imp, robbed>> /\ \A p \in PIDS : imp[p].at = "idle"
  BY DEF Damage
<1>3. item' \in [ITEMS -> Files] /\ item'[i] = "bad" /\ \A j \in ITEMS : j # i => item'[j] = item[j]
  BY <1>1 DEF VendorInv, VendorTypes, Files
<1>4. VendorTypes' /\ NoStoreNoFiles' /\ StoreIsWhole' /\ NeverTorn' /\ OkMeansOpens' /\ ImportHeals'
  BY <1>1, <1>2, <1>3
     DEF VendorInv, VendorTypes, NoStoreNoFiles, StoreIsWhole, NeverTorn, OkMeansOpens, ImportHeals, NoOutcome
<1>5. ASSUME NEW q \in PIDS PROVE Knows(imp[q])' /\ IsAlone(q)'
  <2>1. Knows(imp[q])'
    BY <1>2 DEF Knows, Completing
  <2>2. IsAlone(q)'
    <3>1. IsAlone(q) /\ imp[q].lacks \subseteq ITEMS
      BY ImportIs
    <3>2. i \notin imp[q].lacks \/ ~imp[q].lone
      BY <1>1, <3>1 DEF IsAlone
    <3> QED BY <1>2, <1>3, <3>1, <3>2 DEF IsAlone
  <2> QED BY <2>1, <2>2
<1> QED BY <1>4, <1>5 DEF VendorInv

(* The owner removes a damaged store.                                      *)
LEMMA OwnerRemovesKeeps == ASSUME VendorInv, OwnerRemoves PROVE VendorInv'
<1>1. /\ made' = FALSE /\ item' = [i \in ITEMS |-> "absent"] /\ spoiled' = FALSE /\ robbed' = FALSE
      /\ outcome' = NoOutcome /\ UNCHANGED imp /\ \A p \in PIDS : imp[p].at = "idle"
  BY DEF OwnerRemoves
<1>2. VendorTypes' /\ NoStoreNoFiles' /\ StoreIsWhole' /\ NeverTorn' /\ OkMeansOpens' /\ ImportHeals'
  BY <1>1 DEF VendorInv, VendorTypes, NoStoreNoFiles, StoreIsWhole, NeverTorn, OkMeansOpens, ImportHeals, NoOutcome, Files
<1>3. ASSUME NEW q \in PIDS PROVE Knows(imp[q])' /\ IsAlone(q)'
  <2>1. Knows(imp[q])'
    BY <1>1 DEF Knows, Completing
  <2>2. IsAlone(q)'
    <3>1. IsAlone(q) /\ imp[q].lacks \subseteq ITEMS
      BY ImportIs
    <3> QED BY <1>1, <3>1 DEF IsAlone
  <2> QED BY <2>1, <2>2
<1> QED BY <1>2, <1>3 DEF VendorInv

(* What changes neither the store nor an import.                           *)
LEMMA VendorStutter ==
  ASSUME VendorInv, UNCHANGED <<made, item, leftover, imp, outcome, spoiled, robbed>>
  PROVE  VendorInv'
BY DEF VendorInv, VendorTypes, NoStoreNoFiles, Knows, Looked, IsAlone, StoreIsWhole, OkMeansOpens, StoreAccepts, NeverTorn, ImportHeals

(* Every step keeps the invariant.                                         *)
LEMMA VendorInvNext == VendorInv /\ [VendorNext]_vendorVars => VendorInv'
<1> SUFFICES ASSUME VendorInv, [VendorNext]_vendorVars PROVE VendorInv'
  OBVIOUS
<1>1. ASSUME NEW p \in PIDS, Import(p) PROVE VendorInv'
  BY <1>1, BeginKeeps, CheckKeeps, CheckRefusesKeeps, AddLooksKeeps, AddWritesKeeps, AddRenamesKeeps, AddDoneKeeps,
     BuildKeeps, MoveKeeps, MoveLosesKeeps, EndsKeep DEF Import
<1>2. CASE Open \/ WrittenOut \/ UNCHANGED vendorVars
  BY <1>2, VendorStutter DEF Open, WrittenOut, vendorVars, store
<1> QED BY <1>1, <1>2, PowerLossKeeps, DamageKeeps, OwnerRemovesKeeps DEF VendorNext

(* Whatever importers do at once, wherever they crash and whatever a power *)
(* loss takes: a store that is there holds what is required, a successful  *)
(* import leaves one that opens, and a lone import does not fail by itself.*)
THEOREM ImportsStaySound == VendorSpec => []ImportsAreSound
<1>1. VendorInv => ImportsAreSound
  BY DEF VendorInv, ImportsAreSound
<1> QED BY <1>1, VendorInvInit, VendorInvNext, PTL DEF VendorSpec

-----------------------------------------------------------------------------
(* ChipRead: who reads a chip, and whose image is adopted                  *)

(* The units that can be named.                                            *)
Units == Keys \union {NONE}

(* Types: an image that a reader has to put is of a scanner.               *)
Pictures == [of : Units, how : {"none", "damaged", "true", "odd", "broken"}]
Commands == [at : {"idle", "open", "read", "put", "remember"}, asked : BOOLEAN, unit : Units, had : BOOLEAN, image : Pictures]
Readers == [at : {"idle", "read", "put"}, reread : BOOLEAN, unit : Units, had : BOOLEAN, image : Pictures]
ChipTypes ==
  /\ attached \in SCANNERS /\ log \in [Keys -> BOOLEAN] /\ unitfile \in Units /\ current \in [Keys -> Pictures]
  /\ cli \in Commands /\ app \in Readers
  /\ cli.at \in {"put", "remember"} => cli.image.of \in SCANNERS
  /\ app.at = "put" => app.image.of \in SCANNERS

(* A unit's current image is its own, unless one was forced on it.         *)
OwnCurrent ==
  ~forced => \A k \in SCANNERS : current[k] \notin {Nothing, Damaged} => current[k].of = k

(* Without a second program beside it, who is let read a chip without      *)
(* having asked found no log: nothing has been stored.                     *)
ReadsFirst ==
  /\ cli.at = "idle" \/ app.at = "idle"
  /\ stored # {} => Logged # {}
  /\ cli.at \in {"open", "read"} /\ ~cli.asked => Logged = {}
  /\ app.at = "read" /\ ~app.reread => Logged = {}
  /\ ReadOnce
ChipInv == ChipTypes /\ OwnCurrent /\ OwnImage /\ SavedIsNotForeign

(* The one unit of a set, if there is just one.                            *)
LEMMA OnlyIs == ASSUME NEW S \in SUBSET Keys PROVE Only(S) \in Units
<1>1. CASE Cardinality(S) = 1
  <2>1. S # {}
    BY <1>1, FS_EmptySet
  <2> QED BY <1>1, <2>1 DEF Only, Units
<1>2. CASE Cardinality(S) # 1
  BY <1>2 DEF Only, Units
<1> QED BY <1>1, <1>2

(* So is the unit a command remembers.                                     *)
LEMMA UnitsAreUnits ==
  ASSUME ChipTypes
  PROVE  /\ \A arg \in SCANNERS \union {NONE} : Remembered(arg) \in Units
         /\ \A arg \in SCANNERS \union {NONE} : \A model : AppUnit(arg, model) \in Units
         /\ \A i : i.of \in SCANNERS => KeyOf(i) \in Keys
<1>1. Logged \in SUBSET Keys
  BY DEF Logged
<1>2. \A model : Only({k \in Logged : Prefix(k) = model}) \in Units
  BY <1>1, OnlyIs
<1>3. SCANNERS \subseteq Keys /\ UNIDENTIFIED \in Keys /\ Keys \subseteq Units /\ NONE \in Units
  BY DEF Keys, Units
<1> QED BY <1>1, <1>2, <1>3, OnlyIs DEF Remembered, AppUnit, KeyOf, ChipTypes

(* Scanners are units, and what stands for no image is a picture too.      *)
LEMMA PicturesAre ==
  /\ SCANNERS \subseteq Keys /\ Keys \subseteq Units /\ UNIDENTIFIED \in Keys /\ NONE \in Units
  /\ Nothing \in Pictures /\ Damaged \in Pictures
  /\ \A s \in SCANNERS, how \in {"true", "odd", "broken"} :
       Image(s, how) \in Pictures /\ Image(s, how).of = s /\ Image(s, how).how = how
  /\ IdleCli \in Commands /\ IdleCli.at = "idle" /\ IdleApp \in Readers /\ IdleApp.at = "idle"
  /\ NotAsked.is = NONE /\ NONE \notin {"adopted", "foreign"}
<1>1. SCANNERS \subseteq Keys /\ Keys \subseteq Units /\ UNIDENTIFIED \in Keys /\ NONE \in Units
  BY DEF Keys, Units
<1>2. Nothing \in Pictures /\ Damaged \in Pictures
  BY <1>1 DEF Nothing, Damaged, Image, Pictures
<1>3. \A s \in SCANNERS, how \in {"true", "odd", "broken"} :
        Image(s, how) \in Pictures /\ Image(s, how).of = s /\ Image(s, how).how = how
  BY <1>1 DEF Image, Pictures
<1>4. IdleCli \in Commands /\ IdleCli.at = "idle" /\ IdleApp \in Readers /\ IdleApp.at = "idle"
  BY <1>1, <1>2 DEF IdleCli, IdleApp, Commands, Readers
<1> QED BY <1>1, <1>2, <1>3, <1>4 DEF NotAsked, NONE

(* At first nothing has been read.                                         *)
LEMMA ChipInvInit == ChipInit => ChipInv /\ ReadsFirst
<1> SUFFICES ASSUME ChipInit PROVE ChipInv /\ ReadsFirst
  OBVIOUS
<1>1. ChipTypes
  BY PicturesAre DEF ChipInit, ChipTypes
<1>2. OwnCurrent
  BY PicturesAre DEF ChipInit, OwnCurrent
<1>3. OwnImage /\ SavedIsNotForeign
  BY PicturesAre DEF ChipInit, OwnImage, SavedIsNotForeign
<1>4. ReadsFirst
  BY PicturesAre DEF ChipInit, ReadsFirst, ReadOnce
<1> QED BY <1>1, <1>2, <1>3, <1>4 DEF ChipInv

(* The verdict stays true as long as what it was about does.               *)
LEMMA SameVerdict ==
  ASSUME ChipInv, UNCHANGED <<attached, current, adopted>>, forced => forced'
  PROVE  OwnImage' /\ SavedIsNotForeign'
BY DEF ChipInv, OwnImage, SavedIsNotForeign

(* And there is none once the image or the scanner has changed.             *)
LEMMA NoVerdict ==
  ASSUME adopted' = NotAsked
  PROVE  OwnImage' /\ SavedIsNotForeign'
BY PicturesAre DEF OwnImage, SavedIsNotForeign

(* The image put under a key.                                              *)
LEMMA PutIs ==
  ASSUME ChipTypes, NEW k \in Keys, NEW i \in Pictures, NEW equal, Put(k, i, equal)
  PROVE  /\ log' \in [Keys -> BOOLEAN] /\ Logged' # {} /\ current' \in [Keys -> Pictures] /\ adopted' = NotAsked
         /\ \A j \in Keys : current'[j] # current[j] => j = k /\ current'[j] = i /\ i.how # "broken"
<1>1. log \in [Keys -> BOOLEAN] /\ current \in [Keys -> Pictures]
  BY DEF ChipTypes
<1>2. log' \in [Keys -> BOOLEAN] /\ log'[k]
  BY <1>1 DEF Put
<1>3. k \in Logged'
  BY <1>2 DEF Logged
<1>4. CASE BecomesCurrent(k, i, equal)
  <2>1. current' = [current EXCEPT ![k] = i] /\ i.how # "broken"
    BY <1>4 DEF Put, BecomesCurrent
  <2> QED BY <1>1, <1>2, <1>3, <2>1 DEF Put
<1>5. CASE ~BecomesCurrent(k, i, equal)
  BY <1>1, <1>2, <1>3, <1>5 DEF Put
<1> QED BY <1>4, <1>5

(* A put that fails leaves what is current, and may begin a log.           *)
LEMMA PutFailsIs ==
  ASSUME ChipTypes, NEW k \in Keys, PutFails(k)
  PROVE  log' \in [Keys -> BOOLEAN] /\ Logged \subseteq Logged' /\ UNCHANGED <<current, stored, adopted>>
BY DEF PutFails, ChipTypes, Logged

(* What the reader of an image without a fault makes of its key.           *)
LEMMA KeysAre ==
  ASSUME ChipTypes
  PROVE  /\ cli.at \in {"put", "remember"} => UseUnit \in Keys
         /\ app.at = "put" /\ MayPut => AppKey \in Keys /\ AppKey = app.image.of /\ app.image.how # "broken"
<1>1. cli.unit \in Units /\ app.unit \in Units
  BY DEF ChipTypes, Commands, Readers
<1>2. cli.at \in {"put", "remember"} => KeyOf(cli.image) \in Keys
  BY UnitsAreUnits DEF ChipTypes
<1>3. app.at = "put" => app.image.of \in SCANNERS /\ app.image.of \in Keys
  BY PicturesAre DEF ChipTypes
<1> QED BY <1>1, <1>2, <1>3 DEF UseUnit, MayPut, AppKey, IsThisUnits, KeyOf, Units

(* The command: it begins, goes on, reads.                                 *)
LEMMA CliBeginsKeeps == ASSUME ChipInv, CliBegins PROVE ChipInv'
<1>1. PICK confirm \in BOOLEAN, arg \in SCANNERS \union {NONE} :
        cli' = [at |-> "open", asked |-> confirm, unit |-> Remembered(arg),
                had |-> Remembered(arg) # NONE /\ current[Remembered(arg)] # Nothing, image |-> Nothing]
  BY DEF CliBegins
<1>2. UNCHANGED <<attached, log, current, unitfile, app, adopted, forced>>
  BY DEF CliBegins, chipStore, notes
<1>3. Remembered(arg) \in Units /\ Nothing \in Pictures
  BY UnitsAreUnits, PicturesAre DEF ChipInv
<1>4. cli' \in Commands /\ cli'.at = "open"
  BY <1>1, <1>3 DEF Commands
<1>5. ChipTypes' /\ OwnCurrent'
  BY <1>2, <1>4 DEF ChipInv, ChipTypes, OwnCurrent
<1> QED BY <1>2, <1>5, SameVerdict DEF ChipInv

(* It opens the scanner.                                                    *)
LEMMA CliOpensKeeps == ASSUME ChipInv, CliOpens PROVE ChipInv'
<1>1. cli' = [cli EXCEPT !.at = "read"] /\ cli \in Commands
  BY DEF CliOpens, ChipInv, ChipTypes
<1>2. UNCHANGED <<attached, log, current, unitfile, app, adopted, forced>>
  BY DEF CliOpens, chipStore, notes
<1>3. cli' \in Commands /\ cli'.at = "read"
  BY <1>1 DEF Commands
<1>4. ChipTypes' /\ OwnCurrent'
  BY <1>2, <1>3 DEF ChipInv, ChipTypes, OwnCurrent
<1> QED BY <1>2, <1>4, SameVerdict DEF ChipInv

(* It reads the chip of the scanner that is attached.                       *)
LEMMA CliReadsKeeps == ASSUME ChipInv, CliReads PROVE ChipInv'
<1>1. PICK how \in {"true", "odd", "broken"} : cli' = [cli EXCEPT !.at = "put", !.image = Image(attached, how)]
  BY DEF CliReads
<1>2. UNCHANGED <<attached, log, current, unitfile, app, adopted, forced>>
  BY DEF CliReads, chipStore, FullRead
<1>3. Image(attached, how) \in Pictures /\ Image(attached, how).of \in SCANNERS /\ cli \in Commands
  BY PicturesAre DEF ChipInv, ChipTypes
<1>4. cli' \in Commands /\ cli'.at = "put" /\ cli'.image = Image(attached, how)
  BY <1>1, <1>3 DEF Commands
<1>5. ChipTypes' /\ OwnCurrent'
  BY <1>2, <1>3, <1>4 DEF ChipInv, ChipTypes, OwnCurrent
<1> QED BY <1>2, <1>5, SameVerdict DEF ChipInv

(* A put of the command is under the image's own key, or forced.           *)
LEMMA CliPutsKeeps == ASSUME ChipInv, CliPuts PROVE ChipInv'
<1>1. cli.at = "put" /\ Put(UseUnit, cli.image, cli.had) /\ (forced' <=> (forced \/ KeyOf(cli.image) # UseUnit))
  BY DEF CliPuts
<1>2. UseUnit \in Keys /\ cli.image \in Pictures /\ cli.image.of \in SCANNERS /\ cli \in Commands
  BY <1>1, KeysAre DEF ChipInv, ChipTypes, Commands
<1>3. /\ log' \in [Keys -> BOOLEAN] /\ current' \in [Keys -> Pictures] /\ adopted' = NotAsked
      /\ \A j \in Keys : current'[j] # current[j] => j = UseUnit /\ current'[j] = cli.image /\ cli.image.how # "broken"
  BY <1>1, <1>2, PutIs DEF ChipInv
<1>4. UNCHANGED <<attached, unitfile, app>>
  BY DEF CliPuts
<1>5. cli' \in Commands /\ cli'.at \in {"remember", "idle"} /\ (cli'.at = "remember" => cli'.image = cli.image)
  <2>1. cli' = IdleCli \/ cli' = [cli EXCEPT !.at = "remember"]
    BY DEF CliPuts
  <2> QED BY <1>2, <2>1, PicturesAre DEF Commands
<1>6. ChipTypes'
  BY <1>2, <1>3, <1>4, <1>5 DEF ChipInv, ChipTypes
<1>7. OwnCurrent'
  <2> SUFFICES ASSUME ~forced', NEW k \in SCANNERS, current'[k] \notin {Nothing, Damaged} PROVE current'[k].of = k
    BY DEF OwnCurrent
  <2>1. ~forced /\ KeyOf(cli.image) = UseUnit /\ k \in Keys
    BY <1>1, PicturesAre
  <2>2. CASE current'[k] = current[k]
    BY <2>1, <2>2 DEF ChipInv, OwnCurrent
  <2>3. CASE current'[k] # current[k]
    BY <1>3, <2>1, <2>3 DEF KeyOf
  <2> QED BY <2>2, <2>3
<1> QED BY <1>3, <1>6, <1>7, NoVerdict DEF ChipInv

(* It names the unit in its file.                                           *)
LEMMA CliRemembersKeeps == ASSUME ChipInv, CliRemembers PROVE ChipInv'
<1>1. cli' = IdleCli /\ unitfile' = UseUnit /\ cli.at = "remember"
  BY DEF CliRemembers
<1>2. UNCHANGED <<attached, log, current, app, adopted, forced>>
  BY DEF CliRemembers, notes
<1>3. unitfile' \in Units /\ cli' \in Commands /\ cli'.at = "idle"
  BY <1>1, KeysAre, PicturesAre DEF ChipInv
<1>4. ChipTypes' /\ OwnCurrent'
  BY <1>2, <1>3 DEF ChipInv, ChipTypes, OwnCurrent
<1> QED BY <1>2, <1>4, SameVerdict DEF ChipInv

(* It fails or dies, with or without having put.                            *)
LEMMA CliEndsKeeps == ASSUME ChipInv, CliEnds PROVE ChipInv'
<1>1. cli' = IdleCli /\ UNCHANGED <<attached, unitfile, app, forced>>
  BY DEF CliEnds
<1>2. log' \in [Keys -> BOOLEAN] /\ UNCHANGED <<current, adopted>>
  <2>1. CASE cli.at = "put"
    BY <2>1, KeysAre, PutFailsIs DEF CliEnds, ChipInv
  <2>2. CASE cli.at # "put"
    BY <2>2 DEF CliEnds, ChipInv, ChipTypes
  <2> QED BY <2>1, <2>2
<1>3. ChipTypes' /\ OwnCurrent'
  BY <1>1, <1>2, PicturesAre DEF ChipInv, ChipTypes, OwnCurrent
<1> QED BY <1>1, <1>2, <1>3, SameVerdict DEF ChipInv

(* The application's read.                                                 *)
LEMMA AppBeginsKeeps == ASSUME ChipInv, AppBegins PROVE ChipInv'
<1>1. PICK reread \in BOOLEAN, arg \in SCANNERS \union {NONE}, model \in {"f135", Prefix(attached)} :
        app' = [at |-> "read", reread |-> reread, unit |-> AppUnit(arg, model),
                had |-> AppUnit(arg, model) # NONE /\ current[AppUnit(arg, model)] # Nothing, image |-> Nothing]
  BY DEF AppBegins
<1>2. UNCHANGED <<attached, log, current, unitfile, cli, adopted, forced>>
  BY DEF AppBegins, chipStore, notes
<1>3. AppUnit(arg, model) \in Units /\ Nothing \in Pictures
  BY UnitsAreUnits, PicturesAre DEF ChipInv
<1>4. app' \in Readers /\ app'.at = "read"
  BY <1>1, <1>3 DEF Readers
<1>5. ChipTypes' /\ OwnCurrent'
  BY <1>2, <1>4 DEF ChipInv, ChipTypes, OwnCurrent
<1> QED BY <1>2, <1>5, SameVerdict DEF ChipInv

(* It reads the same chip the same way.                                     *)
LEMMA AppReadsKeeps == ASSUME ChipInv, AppReads PROVE ChipInv'
<1>1. PICK how \in {"true", "odd", "broken"} : app' = [app EXCEPT !.at = "put", !.image = Image(attached, how)]
  BY DEF AppReads
<1>2. UNCHANGED <<attached, log, current, unitfile, cli, adopted, forced>>
  BY DEF AppReads, chipStore, FullRead
<1>3. Image(attached, how) \in Pictures /\ Image(attached, how).of \in SCANNERS /\ app \in Readers
  BY PicturesAre DEF ChipInv, ChipTypes
<1>4. app' \in Readers /\ app'.at = "put" /\ app'.image = Image(attached, how)
  BY <1>1, <1>3 DEF Readers
<1>5. ChipTypes' /\ OwnCurrent'
  BY <1>2, <1>3, <1>4 DEF ChipInv, ChipTypes, OwnCurrent
<1> QED BY <1>2, <1>5, SameVerdict DEF ChipInv

(* The application never puts an image under another's key.                *)
LEMMA AppPutsKeeps == ASSUME ChipInv, AppPuts PROVE ChipInv'
<1>1. app.at = "put" /\ MayPut /\ Put(AppKey, app.image, app.had) /\ app' = IdleApp
  BY DEF AppPuts
<1>2. AppKey \in Keys /\ AppKey = app.image.of /\ app.image \in Pictures
  BY <1>1, KeysAre DEF ChipInv, ChipTypes, Readers
<1>3. /\ log' \in [Keys -> BOOLEAN] /\ current' \in [Keys -> Pictures] /\ adopted' = NotAsked
      /\ \A j \in Keys : current'[j] # current[j] => j = AppKey /\ current'[j] = app.image
  BY <1>1, <1>2, PutIs DEF ChipInv
<1>4. UNCHANGED <<attached, unitfile, cli, forced>>
  BY DEF AppPuts
<1>5. ChipTypes'
  BY <1>1, <1>3, <1>4, PicturesAre DEF ChipInv, ChipTypes
<1>6. OwnCurrent'
  BY <1>2, <1>3, <1>4, PicturesAre DEF ChipInv, OwnCurrent
<1> QED BY <1>3, <1>5, <1>6, NoVerdict DEF ChipInv

(* It ends without a put, or its put fails.                                 *)
LEMMA AppEndsKeeps == ASSUME ChipInv, AppEnds PROVE ChipInv'
<1>1. app' = IdleApp /\ UNCHANGED <<attached, unitfile, cli, forced>>
  BY DEF AppEnds
<1>2. log' \in [Keys -> BOOLEAN] /\ UNCHANGED <<current, adopted>>
  <2>1. CASE app.at = "put" /\ MayPut
    BY <2>1, KeysAre, PutFailsIs DEF AppEnds, ChipInv
  <2>2. CASE ~(app.at = "put" /\ MayPut)
    BY <2>2 DEF AppEnds, ChipInv, ChipTypes
  <2> QED BY <2>1, <2>2
<1>3. ChipTypes' /\ OwnCurrent'
  BY <1>1, <1>2, PicturesAre DEF ChipInv, ChipTypes, OwnCurrent
<1> QED BY <1>1, <1>2, <1>3, SameVerdict DEF ChipInv

(* Another scanner; an image that the disk damages.                        *)
LEMMA WorldKeepsChips == ASSUME ChipInv, Attach \/ ImageIsDamaged PROVE ChipInv'
<1>1. CASE Attach
  BY <1>1, NoVerdict DEF Attach, chipStore, notes, ChipInv, ChipTypes, OwnCurrent
<1>2. CASE ImageIsDamaged
  <2>1. PICK k \in Keys : current' = [current EXCEPT ![k] = Damaged]
    BY <1>2 DEF ImageIsDamaged
  <2>2. adopted' = NotAsked /\ UNCHANGED <<attached, log, unitfile, cli, app, forced>>
    BY <1>2 DEF ImageIsDamaged, notes
  <2>3. current' \in [Keys -> Pictures] /\ \A j \in Keys : current'[j] \in {current[j], Damaged}
    BY <2>1, PicturesAre DEF ChipInv, ChipTypes
  <2>4. ChipTypes' /\ OwnCurrent'
    BY <2>2, <2>3, PicturesAre DEF ChipInv, ChipTypes, OwnCurrent
  <2> QED BY <2>2, <2>4, NoVerdict DEF ChipInv
<1> QED BY <1>1, <1>2

(* A pass that hits has read the attached scanner's serial and found its   *)
(* image; one that does not, of a scanner with an image, has not even read *)
(* the copy that every chip has.                                           *)
LEMMA PassesAre ==
  ASSUME ChipTypes, NEW bad \in 0..2, NEW p \in Serials(bad), NEW i \in 1..2
  PROVE  /\ \A k \in Hits(p[i]) : k = attached /\ current[k] # Nothing
         /\ Hits(p[i]) = {} /\ current[attached] # Nothing => p[i][2] # Truth(2)
<1>1. p \in [1..2 -> [1..2 -> {attached, NONE}]] /\ attached \in SCANNERS /\ 2 \in 1..2
  BY DEF Serials, ChipTypes
<1>2. p[i] \in [1..2 -> {attached, NONE}]
  BY <1>1
<1>3. \A d \in 1..2 : p[i][d] \in {attached, NONE}
  BY <1>2
<1>4. \A k \in Hits(p[i]) : k = attached /\ current[k] # Nothing
  BY <1>3 DEF Hits
<1>5. ASSUME current[attached] # Nothing, p[i][2] = Truth(2) PROVE Hits(p[i]) # {}
  <2>1. p[i][2] = attached /\ attached # NONE
    BY <1>1, <1>5, ChipAssumption DEF Truth
  <2> QED BY <1>1, <1>5, <2>1 DEF Hits
<1> QED BY <1>4, <1>5

(* Two passes that both misread that copy misread more than once.          *)
LEMMA BadReadsCount ==
  ASSUME NEW bad \in 0..2, NEW p \in Serials(bad), p[1][2] # Truth(2), p[2][2] # Truth(2)
  PROVE  bad > 1
<1> DEFINE Bad == {x \in (1..2) \X (1..2) : p[x[1]][x[2]] # Truth(x[2])}
<1>1. IsFiniteSet(Bad)
  <2>1. Bad \in SUBSET {<<1, 1>>, <<1, 2>>, <<2, 1>>, <<2, 2>>}
    <3>1. \A x \in (1..2) \X (1..2) : x \in {<<1, 1>>, <<1, 2>>, <<2, 1>>, <<2, 2>>}
      OBVIOUS
    <3> QED BY <3>1
  <2>2. IsFiniteSet({} \union {<<1, 1>>} \union {<<1, 2>>} \union {<<2, 1>>} \union {<<2, 2>>})
    BY FS_EmptySet, FS_AddElement, ZenonT(60)
  <2>3. {} \union {<<1, 1>>} \union {<<1, 2>>} \union {<<2, 1>>} \union {<<2, 2>>} = {<<1, 1>>, <<1, 2>>, <<2, 1>>, <<2, 2>>}
    OBVIOUS
  <2> QED BY <2>1, <2>2, <2>3, FS_Subset
<1>2. <<1, 2>> \in Bad /\ <<2, 2>> \in Bad /\ <<1, 2>> # <<2, 2>>
  OBVIOUS
<1>3. Cardinality(Bad) = bad
  BY DEF Serials
<1>4. Cardinality(Bad) # 0
  BY <1>1, <1>2, FS_EmptySet
<1>5. Cardinality(Bad) # 1
  <2>1. ASSUME NEW x, Bad = {x} PROVE FALSE
    <3>1. <<1, 2>> = x /\ <<2, 2>> = x
      BY <1>2, <2>1
    <3> QED BY <1>2, <3>1
  <2> QED BY <1>1, <2>1, FS_Singleton
<1> QED BY <1>3, <1>4, <1>5

(* The identity check of a session.                                        *)
LEMMA IdentifyKeeps == ASSUME ChipInv, Identify PROVE ChipInv'
<1>0. PICK bad \in 0..2 : \E p \in Serials(bad) :
        adopted' = [is |-> Verdict(p).is, image |-> Verdict(p).image, bad |-> bad]
  BY DEF Identify
<1>1. PICK p \in Serials(bad) : adopted' = [is |-> Verdict(p).is, image |-> Verdict(p).image, bad |-> bad]
  BY <1>0
<1>2. UNCHANGED <<attached, log, current, unitfile, cli, app, forced>>
  BY DEF Identify, chipStore, notes
<1>3. ChipTypes' /\ OwnCurrent' /\ ChipTypes /\ OwnCurrent
  BY <1>2 DEF ChipInv, ChipTypes, OwnCurrent
<1> DEFINE hit == {i \in 1..PASSES : Hits(p[i]) # {}}
           k == CHOOSE x \in Hits(p[Min(hit)]) : TRUE
<1>4. adopted'.is = Verdict(p).is /\ adopted'.image = Verdict(p).image /\ adopted'.bad = bad
  BY <1>1
<1>5. ASSUME adopted'.is = "foreign", bad <= 1 PROVE current[attached] = Nothing
  <2>1. hit = {}
    BY <1>4, <1>5 DEF Verdict
  <2>2. 1 \in 1..2 /\ 2 \in 1..2 /\ Hits(p[1]) = {} /\ Hits(p[2]) = {}
    BY <2>1 DEF PASSES
  <2>3. current[attached] # Nothing => p[1][2] # Truth(2) /\ p[2][2] # Truth(2)
    BY <1>3, <2>2, PassesAre
  <2> QED BY <1>5, <2>3, BadReadsCount
<1>6. ASSUME adopted'.is = "adopted", ~forced PROVE adopted'.image.of = attached
  <2>1. hit # {} /\ current[k] # Damaged /\ adopted'.image = current[k]
    BY <1>4, <1>6 DEF Verdict
  <2>2. Min(hit) \in hit
    <3>1. hit \subseteq 1..2
      BY DEF PASSES
    <3>2. \E x \in hit : \A y \in hit : x =< y
      BY <2>1, <3>1
    <3> HIDE DEF hit
    <3> QED BY <3>2 DEF Min
  <2>3. Min(hit) \in 1..2 /\ Hits(p[Min(hit)]) # {}
    BY <2>2 DEF PASSES
  <2>4. k \in Hits(p[Min(hit)])
    BY <2>3
  <2>5. k = attached /\ current[k] # Nothing
    BY <1>3, <2>3, <2>4, PassesAre
  <2> HIDE DEF hit, k
  <2> QED BY <1>3, <1>6, <2>1, <2>5 DEF OwnCurrent, ChipTypes
<1>7. OwnImage' /\ SavedIsNotForeign'
  BY <1>2, <1>4, <1>5, <1>6 DEF OwnImage, SavedIsNotForeign
<1> QED BY <1>3, <1>7 DEF ChipInv

(* A step of nobody.                                                       *)
LEMMA ChipStutter == ASSUME ChipInv, UNCHANGED chipVars PROVE ChipInv'
<1>1. UNCHANGED <<attached, log, current, unitfile, cli, app, adopted, forced>>
  BY DEF chipVars, chipStore, notes
<1>2. ChipTypes' /\ OwnCurrent'
  BY <1>1 DEF ChipInv, ChipTypes, OwnCurrent
<1> QED BY <1>1, <1>2, SameVerdict DEF ChipInv

(* Every step of the command, the application and the world keeps it.      *)
LEMMA ChipInvNext == ChipInv /\ [ChipNext]_chipVars => ChipInv'
<1> SUFFICES ASSUME ChipInv, [ChipNext]_chipVars PROVE ChipInv'
  OBVIOUS
<1>1. CASE CliBegins \/ CliOpens \/ CliReads \/ CliPuts \/ CliRemembers \/ CliEnds
  BY <1>1, CliBeginsKeeps, CliOpensKeeps, CliReadsKeeps, CliPutsKeeps, CliRemembersKeeps, CliEndsKeeps
<1>2. CASE AppBegins \/ AppReads \/ AppPuts \/ AppEnds
  BY <1>2, AppBeginsKeeps, AppReadsKeeps, AppPutsKeeps, AppEndsKeeps
<1>3. CASE Identify \/ Attach \/ ImageIsDamaged
  BY <1>3, IdentifyKeeps, WorldKeepsChips
<1>4. CASE UNCHANGED chipVars
  BY <1>4, ChipStutter
<1> QED BY <1>1, <1>2, <1>3, <1>4 DEF ChipNext

(* The image that a session adopts is the attached scanner's own, and one  *)
(* bad read makes no saved scanner a stranger: also with the command and   *)
(* the application running at the same time.                               *)
THEOREM OwnImagesAdopted == ChipSpec => [](OwnImage /\ SavedIsNotForeign)
<1>1. ChipInv => OwnImage /\ SavedIsNotForeign
  BY DEF ChipInv
<1> QED BY <1>1, ChipInvInit, ChipInvNext, PTL DEF ChipSpec

(* One program at a time: the command, step by step.  Who has not asked    *)
(* found no log when it looked, and nothing is put until it has read.      *)
LEMMA CliReadsFirst ==
  ASSUME ChipInv, ReadsFirst, ~TOGETHER, CliBegins \/ CliOpens \/ CliReads \/ CliPuts \/ CliRemembers \/ CliEnds
  PROVE  ReadsFirst'
<1>1. cli \in Commands /\ app \in Readers /\ cli.asked \in BOOLEAN
  BY DEF ChipInv, ChipTypes, Commands
<1>2. CASE CliBegins
  <2>1. PICK confirm \in BOOLEAN : (ReadBefore <=> confirm) /\ cli'.asked = confirm
    BY <1>2 DEF CliBegins
  <2>2. app.at = "idle" /\ UNCHANGED <<log, app, stored, again>>
    BY <1>2 DEF CliBegins, Alone, chipStore, notes
  <2> QED BY <2>1, <2>2 DEF ReadsFirst, ReadBefore, Logged, ReadOnce
<1>3. CASE CliOpens
  <2>1. cli.at = "open" /\ cli'.at = "read" /\ cli'.asked = cli.asked
    BY <1>1, <1>3 DEF CliOpens, Commands
  <2>2. UNCHANGED <<log, app, stored, again>>
    BY <1>3 DEF CliOpens, chipStore, notes
  <2> QED BY <2>1, <2>2 DEF ReadsFirst, Logged, ReadOnce
<1>4. CASE CliReads
  <2>1. cli.at = "read" /\ cli'.at = "put"
    BY <1>1, <1>4 DEF CliReads, Commands
  <2>2. UNCHANGED <<log, app, stored>> /\ (again' <=> again \/ (attached \in stored /\ ~cli.asked))
    BY <1>4 DEF CliReads, FullRead, chipStore
  <2>3. ~again'
    BY <2>1, <2>2 DEF ReadsFirst, ReadOnce
  <2> QED BY <2>1, <2>2, <2>3 DEF ReadsFirst, Logged, ReadOnce
<1>5. CASE CliPuts
  <2>1. cli.at = "put" /\ cli'.at \in {"remember", "idle"} /\ UNCHANGED <<app, again>>
    BY <1>1, <1>5, PicturesAre DEF CliPuts, Commands
  <2>2. Logged' # {}
    <3>1. UseUnit \in Keys /\ cli.image \in Pictures
      BY <1>1, <2>1, KeysAre DEF ChipInv, Commands
    <3> QED BY <1>5, <3>1, PutIs DEF CliPuts, ChipInv
  <2> QED BY <2>1, <2>2 DEF ReadsFirst, ReadOnce
<1>6. CASE CliRemembers
  <2>1. cli.at = "remember" /\ cli'.at = "idle" /\ UNCHANGED <<log, app, stored, again>>
    BY <1>6, PicturesAre DEF CliRemembers, notes
  <2> QED BY <2>1 DEF ReadsFirst, Logged, ReadOnce
<1>7. CASE CliEnds
  <2>1. cli.at # "idle" /\ cli'.at = "idle" /\ UNCHANGED <<app, again>>
    BY <1>7, PicturesAre DEF CliEnds
  <2>2. Logged \subseteq Logged' /\ UNCHANGED stored
    <3>1. CASE cli.at = "put"
      BY <1>7, <3>1, KeysAre, PutFailsIs DEF CliEnds, ChipInv
    <3>2. CASE cli.at # "put"
      BY <1>7, <3>2 DEF CliEnds, Logged
    <3> QED BY <3>1, <3>2
  <2> QED BY <2>1, <2>2 DEF ReadsFirst, ReadOnce
<1> QED BY <1>2, <1>3, <1>4, <1>5, <1>6, <1>7

(* And the application: who has no image of the unit reads only if there   *)
(* is no log at all.                                                       *)
LEMMA AppReadsFirst ==
  ASSUME ChipInv, ReadsFirst, ~TOGETHER, AppBegins \/ AppReads \/ AppPuts \/ AppEnds
  PROVE  ReadsFirst'
<1>1. app \in Readers
  BY DEF ChipInv, ChipTypes
<1>2. CASE AppBegins
  <2>1. PICK reread \in BOOLEAN, had \in BOOLEAN : had = reread /\ (~had => ~ReadBefore) /\ app'.reread = reread
    <3>1. PICK reread \in BOOLEAN, arg \in SCANNERS \union {NONE}, model \in {"f135", Prefix(attached)} :
            LET had == AppUnit(arg, model) # NONE /\ current[AppUnit(arg, model)] # Nothing
            IN  had = reread /\ (~had => ~ReadBefore) /\ app'.reread = reread
      BY <1>2 DEF AppBegins
    <3> QED BY <3>1
  <2>2. cli.at = "idle" /\ UNCHANGED <<log, cli, stored, again>>
    BY <1>2 DEF AppBegins, Alone, chipStore, notes
  <2> QED BY <2>1, <2>2 DEF ReadsFirst, ReadBefore, Logged, ReadOnce
<1>3. CASE AppReads
  <2>1. app.at = "read" /\ app'.at = "put"
    BY <1>1, <1>3 DEF AppReads, Readers
  <2>2. UNCHANGED <<log, cli, stored>> /\ (again' <=> again \/ (attached \in stored /\ ~app.reread))
    BY <1>3 DEF AppReads, FullRead, chipStore
  <2>3. ~again'
    BY <2>1, <2>2 DEF ReadsFirst, ReadOnce
  <2> QED BY <2>1, <2>2, <2>3 DEF ReadsFirst, Logged, ReadOnce
<1>4. CASE AppPuts
  <2>1. app.at = "put" /\ MayPut /\ app'.at = "idle" /\ UNCHANGED <<cli, again>>
    BY <1>4, PicturesAre DEF AppPuts
  <2>2. Logged' # {}
    <3>1. AppKey \in Keys /\ app.image \in Pictures
      BY <1>1, <2>1, KeysAre DEF ChipInv, Readers
    <3> QED BY <1>4, <3>1, PutIs DEF AppPuts, ChipInv
  <2> QED BY <2>1, <2>2 DEF ReadsFirst, ReadOnce
<1>5. CASE AppEnds
  <2>1. app.at # "idle" /\ app'.at = "idle" /\ UNCHANGED <<cli, again>>
    BY <1>5, PicturesAre DEF AppEnds
  <2>2. Logged \subseteq Logged' /\ UNCHANGED stored
    <3>1. CASE app.at = "put" /\ MayPut
      BY <1>5, <3>1, KeysAre, PutFailsIs DEF AppEnds, ChipInv
    <3>2. CASE ~(app.at = "put" /\ MayPut)
      BY <1>5, <3>2 DEF AppEnds, Logged
    <3> QED BY <3>1, <3>2
  <2> QED BY <2>1, <2>2 DEF ReadsFirst, ReadOnce
<1> QED BY <1>2, <1>3, <1>4, <1>5

(* What else happens touches neither the logs nor who is reading.          *)
LEMMA OthersReadNothing ==
  ASSUME ReadsFirst, Identify \/ Attach \/ ImageIsDamaged \/ UNCHANGED chipVars
  PROVE  ReadsFirst'
<1>1. UNCHANGED <<log, cli, app, stored, again>>
  BY DEF Identify, Attach, ImageIsDamaged, chipVars, chipStore, notes
<1> QED BY <1>1 DEF ReadsFirst, Logged, ReadOnce

(* The chips and their images are safe as long as the command and the      *)
(* application do not run at the same time: no stored chip is read in full *)
(* again unasked, the image a session adopts is the attached scanner's own *)
(* and a saved scanner is no stranger.                                     *)
THEOREM ImagesStaySafe == ASSUME ~TOGETHER PROVE ChipSpec => []ImagesAreSafe
<1> DEFINE Inv == ChipInv /\ ReadsFirst
<1>1. ChipInit => Inv
  BY ChipInvInit
<1>2. Inv /\ [ChipNext]_chipVars => Inv'
  <2> SUFFICES ASSUME ChipInv, ReadsFirst, [ChipNext]_chipVars PROVE ReadsFirst'
    BY ChipInvNext
  <2> QED BY CliReadsFirst, AppReadsFirst, OthersReadNothing DEF ChipNext
<1>3. Inv => ImagesAreSafe
  BY DEF ChipInv, ReadsFirst, ImagesAreSafe
<1> QED BY <1>1, <1>2, <1>3, PTL DEF ChipSpec
-----------------------------------------------------------------------------
(* PsiImport: what an export's text says and what its slots hold           *)

(* The greatest of some of the first numbers.                              *)
LEMMA LastIs ==
  ASSUME NEW n \in Nat, NEW S \in SUBSET (1..n), S # {}
  PROVE  Max(S) \in S /\ \A y \in S : Max(S) >= y
<1> DEFINE T == {m \in Nat : n - m \in S}
<1>1. PICK x \in S : TRUE
  OBVIOUS
<1>2. n - x \in T
  BY <1>1
<1>3. T \in SUBSET Nat /\ T # {}
  BY <1>2
<1> HIDE DEF T
<1>4. PICK t \in T : \A m \in T : ~ (<<m, t>> \in OpToRel(<, Nat))
  BY <1>3, NatLessThanWellFounded, WFMin
<1>5. \A m \in T : t <= m
  <2>1. \A m \in T : ~ (m < t)
    BY <1>3, <1>4 DEF OpToRel
  <2>2. \A m \in T : m \in Nat /\ t \in Nat
    BY <1>3
  <2> QED BY <2>1, <2>2
<1> USE DEF T
<1>6. n - t \in S /\ \A y \in S : n - t >= y
  <2>1. ASSUME NEW y \in S PROVE n - t >= y
    <3>1. n - y \in Nat /\ n - (n - y) = y
      OBVIOUS
    <3>2. n - y \in T
      BY <3>1
    <3> QED BY <1>5, <3>1, <3>2
  <2> QED BY <1>4, <2>1
<1> QED BY <1>6 DEF Max

(* Lines of an export, whose header it is that line i of t stands under,   *)
(* and the lines that give k a value of that name.                         *)
ExportLines == Headers \union Values \union {Line("malformed")}
HeadsIn(t, i) == {j \in 1..(i - 1) : t[j].is \in {"key", "deleted", "other"}}
OwnerIn(t, i) == IF HeadsIn(t, i) = {} THEN Line("other") ELSE t[Max(HeadsIn(t, i))]
GivenIn(t, k, name) == {i \in DOMAIN t : t[i].is = "value" /\ t[i].name = name /\ OwnerIn(t, i).key = k}
SaysIn(t, k, name) == IF GivenIn(t, k, name) = {} THEN NotThere ELSE t[Max(GivenIn(t, k, name))].v

(* This is what the model's definitions say of its own text.               *)
LEMMA InTheText ==
  \A k, name : Says(k, name) = SaysIn(text, k, name)
BY DEF Says, SaysIn, GivenIn, Owner, OwnerIn, Above, HeadsIn, IsHeader

(* One more line: what the lines before it stand under stays.              *)
LEMMA OwnersStay ==
  ASSUME NEW t \in Seq(ExportLines), NEW l \in ExportLines, NEW u, u = Append(t, l)
  PROVE  /\ \A i \in 1..(Len(t) + 1) : OwnerIn(u, i) = OwnerIn(t, i)
         /\ OwnerIn(u, Len(u) + 1) = IF l.is \in {"key", "deleted", "other"} THEN l ELSE OwnerIn(t, Len(t) + 1)
<1>1. /\ Len(t) \in Nat /\ Len(u) = Len(t) + 1 /\ u[Len(t) + 1] = l /\ u \in Seq(ExportLines)
      /\ \A j \in 1..Len(t) : u[j] = t[j]
  BY AppendProperties
<1>2. ASSUME NEW i \in 1..(Len(t) + 1) PROVE OwnerIn(u, i) = OwnerIn(t, i)
  <2>1. HeadsIn(u, i) = HeadsIn(t, i)
    BY <1>1 DEF HeadsIn
  <2>2. HeadsIn(t, i) # {} => Max(HeadsIn(t, i)) \in 1..Len(t)
    <3>1. HeadsIn(t, i) \in SUBSET (1..Len(t))
      BY <1>1 DEF HeadsIn
    <3> QED BY <1>1, <3>1, LastIs
  <2> QED BY <1>1, <2>1, <2>2 DEF OwnerIn
<1>3. CASE l.is \in {"key", "deleted", "other"}
  <2>1. Len(u) \in HeadsIn(u, Len(u) + 1) /\ HeadsIn(u, Len(u) + 1) \in SUBSET (1..Len(u)) /\ Len(u) \in Nat
    BY <1>1, <1>3 DEF HeadsIn
  <2>2. Max(HeadsIn(u, Len(u) + 1)) \in 1..Len(u) /\ Max(HeadsIn(u, Len(u) + 1)) >= Len(u)
    BY <2>1, LastIs
  <2>3. Max(HeadsIn(u, Len(u) + 1)) = Len(u)
    BY <2>1, <2>2
  <2> QED BY <1>1, <1>2, <1>3, <2>1, <2>3 DEF OwnerIn
<1>4. CASE l.is \notin {"key", "deleted", "other"}
  <2>1. HeadsIn(u, Len(u) + 1) = HeadsIn(t, Len(t) + 1)
    BY <1>1, <1>4 DEF HeadsIn
  <2>2. HeadsIn(t, Len(t) + 1) # {} => Max(HeadsIn(t, Len(t) + 1)) \in 1..Len(t)
    <3>1. HeadsIn(t, Len(t) + 1) \in SUBSET (1..Len(t))
      BY <1>1 DEF HeadsIn
    <3> QED BY <1>1, <3>1, LastIs
  <2> QED BY <1>1, <1>2, <1>4, <2>1, <2>2 DEF OwnerIn
<1> QED BY <1>2, <1>3, <1>4

(* The keys, the values, and what the line after t gives.                  *)
Homes == CalKeys \union {"DpiBase"}
Names == {"Gain", "Duty", "Full", "Offset"}
Gives(t, l, k, name) == l.is = "value" /\ l.name = name /\ OwnerIn(t, Len(t) + 1).key = k

(* It is the last word on what it gives, and on nothing else.              *)
LEMMA LastWord ==
  ASSUME NEW t \in Seq(ExportLines), NEW l \in ExportLines, NEW k \in Homes, NEW name \in Names
  PROVE  LET u == Append(t, l)
         IN  /\ Gives(t, l, k, name) => SaysIn(u, k, name) = l.v /\ GivenIn(u, k, name) # {}
             /\ ~Gives(t, l, k, name) => SaysIn(u, k, name) = SaysIn(t, k, name) /\ GivenIn(u, k, name) = GivenIn(t, k, name)
<1> DEFINE u == Append(t, l)
<1>1. /\ Len(t) \in Nat /\ Len(u) = Len(t) + 1 /\ u[Len(t) + 1] = l
      /\ \A j \in 1..Len(t) : u[j] = t[j]
      /\ DOMAIN t = 1..Len(t) /\ DOMAIN u = 1..Len(u)
  BY AppendProperties
<1>2. \A i \in 1..(Len(t) + 1) : OwnerIn(u, i) = OwnerIn(t, i)
  BY OwnersStay
<1> HIDE DEF u
<1>3. GivenIn(t, k, name) \in SUBSET (1..Len(t)) /\ GivenIn(u, k, name) \in SUBSET (1..Len(u))
  BY <1>1 DEF GivenIn
<1>4. ASSUME Gives(t, l, k, name) PROVE SaysIn(u, k, name) = l.v /\ GivenIn(u, k, name) # {}
  <2>1. Len(u) \in GivenIn(u, k, name) /\ Len(u) \in Nat
    BY <1>1, <1>2, <1>4 DEF GivenIn, Gives
  <2>2. Max(GivenIn(u, k, name)) \in 1..Len(u) /\ Max(GivenIn(u, k, name)) >= Len(u)
    BY <1>3, <2>1, LastIs
  <2>3. Max(GivenIn(u, k, name)) = Len(u)
    BY <2>1, <2>2
  <2> QED BY <1>1, <1>4, <2>1, <2>3 DEF SaysIn
<1>5. ASSUME ~Gives(t, l, k, name) PROVE SaysIn(u, k, name) = SaysIn(t, k, name) /\ GivenIn(u, k, name) = GivenIn(t, k, name)
  <2>1. GivenIn(u, k, name) = GivenIn(t, k, name)
    <3>1. \A i \in 1..Len(t) : i \in GivenIn(u, k, name) <=> i \in GivenIn(t, k, name)
      BY <1>1, <1>2 DEF GivenIn
    <3>2. Len(u) \notin GivenIn(u, k, name)
      BY <1>1, <1>2, <1>5 DEF GivenIn, Gives
    <3>3. \A i \in 1..Len(u) : i = Len(u) \/ i \in 1..Len(t)
      BY <1>1
    <3> QED BY <1>3, <3>1, <3>2, <3>3
  <2>2. GivenIn(t, k, name) # {} => Max(GivenIn(t, k, name)) \in 1..Len(t)
    BY <1>1, <1>3, LastIs
  <2> QED BY <1>1, <1>5, <2>1, <2>2 DEF SaysIn
<1> QED BY <1>4, <1>5 DEF u

-----------------------------------------------------------------------------
(* Types of the parser, and what it knows while it reads: which key the    *)
(* next line stands under, and the last value of each name it kept.        *)
PsiTypes ==
  /\ text \in Seq(ExportLines) /\ at_key \in CalKeys \union {"DpiBase", "none"}
  /\ slot \in [CalKeys -> [hive : HIVES \union {0}, vals : Seq(Values)]] /\ px \in Int
Parsed ==
  /\ LET o == OwnerIn(text, Len(text) + 1) IN at_key = IF o.is = "key" THEN o.key ELSE "none"
  /\ \A k \in CalKeys : \A i \in DOMAIN slot[k].vals :
       /\ GivenIn(text, k, slot[k].vals[i].name) # {}
       /\ slot[k].vals[i].v = SaysIn(text, k, slot[k].vals[i].name)
  /\ px = IF GivenIn(text, "DpiBase", "Offset") = {} THEN -1 ELSE Signed(SaysIn(text, "DpiBase", "Offset").n)

(* The lines, one by one.                                                  *)
LEMMA LinesAre ==
  /\ \A l \in ExportLines : l.is \in {"key", "deleted", "other", "value", "malformed"} 
  /\ \A l \in Headers : l.is \in {"key", "deleted", "other"} /\ (l.is = "key" => l.key \in Homes /\ l.hive \in HIVES)
                        /\ (l.is # "key" => l.key = "")
  /\ \A l \in Values : l.is = "value" /\ l.name \in Names /\ l.v.n \in Nat /\ l.v.type \in {"dword", "text"}
  /\ \A l \in Values : l.name = "Offset" => l.v.n < WORD /\ (2 * l.v.n < WORD => l.v.n \in 0..(PX_MAX + 1))
  /\ Line("malformed").is = "malformed" /\ Line("malformed") \in ExportLines
<1>1. \A l \in Headers : l.is \in {"key", "deleted", "other"} /\ (l.is = "key" => l.key \in Homes /\ l.hive \in HIVES)
                         /\ (l.is # "key" => l.key = "")
  <2> SUFFICES ASSUME NEW l \in Headers
               PROVE  /\ l.is \in {"key", "deleted", "other"} /\ (l.is # "key" => l.key = "")
                      /\ l.is = "key" => l.key \in Homes /\ l.hive \in HIVES
    OBVIOUS
  <2>1. CASE l \in {Line("deleted"), Line("other")}
    <3>1. \A what : Line(what).is = what /\ Line(what).key = ""
      BY DEF Line
    <3> QED BY <2>1, <3>1
  <2>2. CASE l \notin {Line("deleted"), Line("other")}
    BY <2>2 DEF Headers, Homes
  <2> QED BY <2>1, <2>2
<1>a. ASSUME NEW l \in Values
      PROVE  \/ \E n \in Nat : l = Value("Gain", Dword(n)) \/ l = Value("Duty", Text(n)) \/ l = Value("Full", Dword(n))
             \/ \E n \in {PX_MAX, PX_MAX + 1, WORD - 1} : l = Value("Offset", Dword(n))
  BY PsiAssumption DEF Values
<1>2. \A l \in Values : l.is = "value" /\ l.name \in Names /\ l.v.n \in Nat /\ l.v.type \in {"dword", "text"}
  <2>1. \A name, n : Value(name, Dword(n)).is = "value" /\ Value(name, Dword(n)).name = name /\ Value(name, Dword(n)).v.n = n
                      /\ Value(name, Dword(n)).v.type = "dword"
    BY DEF Value, Dword
  <2>2. \A name, n : Value(name, Text(n)).is = "value" /\ Value(name, Text(n)).name = name /\ Value(name, Text(n)).v.n = n
                      /\ Value(name, Text(n)).v.type = "text"
    BY DEF Value, Text
  <2>3. {PX_MAX, PX_MAX + 1, WORD - 1} \subseteq Nat
    BY PsiAssumption
  <2> QED BY <1>a, <2>1, <2>2, <2>3 DEF Names
<1>3. \A l \in Values : l.name = "Offset" => l.v.n < WORD /\ (2 * l.v.n < WORD => l.v.n \in 0..(PX_MAX + 1))
  <2>1. \A n \in {PX_MAX, PX_MAX + 1, WORD - 1} : n < WORD /\ n \in Nat /\ (2 * n < WORD => n \in 0..(PX_MAX + 1))
    BY PsiAssumption
  <2>2. ASSUME NEW l \in Values, l.name = "Offset" PROVE \E n \in {PX_MAX, PX_MAX + 1, WORD - 1} : l.v.n = n
    <3>1. \A n : Value("Gain", Dword(n)).name = "Gain" /\ Value("Duty", Text(n)).name = "Duty" /\ Value("Full", Dword(n)).name = "Full"
                 /\ Value("Offset", Dword(n)).v.n = n
      BY DEF Value, Dword
    <3> QED BY <1>a, <2>2, <3>1
  <2> QED BY <2>1, <2>2
<1>4. Line("malformed").is = "malformed" /\ Line("malformed") \in ExportLines
  BY DEF ExportLines, Line
<1>5. \A l \in ExportLines : l.is \in {"key", "deleted", "other", "value", "malformed"}
  BY <1>1, <1>2, <1>4 DEF ExportLines
<1> QED BY <1>1, <1>2, <1>3, <1>4, <1>5

(* An export's headers: what a line stands under has a key's name or none. *)
LEMMA OwnerIs ==
  ASSUME NEW t \in Seq(ExportLines), NEW i \in 1..(Len(t) + 1)
  PROVE  LET o == OwnerIn(t, i) IN o.is \in {"key", "deleted", "other"} /\ (o.is = "key" => o.key \in Homes) /\ (o.is # "key" => o.key = "")
<1>1. HeadsIn(t, i) \in SUBSET (1..Len(t)) /\ Len(t) \in Nat
  BY DEF HeadsIn
<1>2. CASE HeadsIn(t, i) = {}
  BY <1>2 DEF OwnerIn, Line
<1>3. CASE HeadsIn(t, i) # {}
  <2> DEFINE j == Max(HeadsIn(t, i))
  <2>1. j \in HeadsIn(t, i)
    BY <1>1, <1>3, LastIs
  <2>2. OwnerIn(t, i) = t[j] /\ t[j].is \in {"key", "deleted", "other"} /\ t[j] \in ExportLines
    BY <1>1, <1>3, <2>1 DEF OwnerIn, HeadsIn
  <2>3. t[j] \in Headers
    BY <2>2, LinesAre DEF ExportLines
  <2> QED BY <2>2, <2>3, LinesAre
<1> QED BY <1>2, <1>3

(* At first nothing has been read.                                         *)
LEMMA ParsedInit == PsiInit => PsiTypes /\ Parsed
<1> SUFFICES ASSUME PsiInit PROVE PsiTypes /\ Parsed
  OBVIOUS
<1>1. text = <<>> /\ Len(text) = 0 /\ DOMAIN text = {} /\ at_key = "none" /\ px = -1
  BY DEF PsiInit
<1>2. slot = [k \in CalKeys |-> [hive |-> 0, vals |-> <<>>]] /\ \A k \in CalKeys : slot[k].vals = <<>>
  BY DEF PsiInit
<1>3. OwnerIn(text, Len(text) + 1) = Line("other") /\ \A k, n : GivenIn(text, k, n) = {}
  BY <1>1 DEF OwnerIn, HeadsIn, GivenIn
<1>4. PsiTypes
  BY <1>1, <1>2 DEF PsiTypes
<1>5. Line("other").is = "other"
  BY DEF Line
<1>6. \A k \in CalKeys : DOMAIN slot[k].vals = {}
  BY <1>2
<1> QED BY <1>1, <1>3, <1>4, <1>5, <1>6 DEF Parsed

(* What the next line stands under is a key's name or none.                *)
LEMMA StandsUnder ==
  ASSUME PsiTypes, Parsed, NEW k \in Homes
  PROVE  OwnerIn(text, Len(text) + 1).key = k <=> at_key = k
<1>1. Len(text) \in Nat /\ Len(text) + 1 \in 1..(Len(text) + 1) /\ text \in Seq(ExportLines)
  BY DEF PsiTypes
<1>2. k # "" /\ k # "none"
  BY DEF CalKeys, Homes
<1> QED BY <1>1, <1>2, OwnerIs DEF Parsed

(* The names in a slot are the values'.                                    *)
LEMMA NamesAre ==
  ASSUME PsiTypes, NEW k \in CalKeys
  PROVE  \A j \in DOMAIN slot[k].vals : slot[k].vals[j].name \in Names /\ slot[k].vals[j] \in Values
<1> DEFINE vals == slot[k].vals
<1>1. vals \in Seq(Values)
  BY DEF PsiTypes
<1> HIDE DEF vals
<1>2. \A j \in DOMAIN vals : vals[j] \in Values
  BY <1>1
<1>3. \A j \in DOMAIN vals : vals[j].name \in Names /\ vals[j] \in Values
  BY <1>2, LinesAre
<1> QED BY <1>3 DEF vals

(* A header: it gives nothing, and the next line stands under it.          *)
LEMMA HeaderParsed == ASSUME PsiTypes, Parsed, HeaderLine PROVE PsiTypes' /\ Parsed'
<1>1. PICK l \in Headers : /\ text' = Append(text, l) /\ at_key' = Under(l) /\ px' = px
                           /\ slot' = IF Under(l) \in CalKeys THEN [slot EXCEPT ![l.key].hive = l.hive] ELSE slot
  BY DEF HeaderLine, Stands
<1>2. /\ l \in ExportLines /\ text \in Seq(ExportLines) /\ l.is \in {"key", "deleted", "other"}
      /\ l.is = "key" => l.key \in Homes /\ l.hive \in HIVES
  BY LinesAre DEF ExportLines, PsiTypes
<1>3. OwnerIn(text', Len(text') + 1) = l
  BY <1>1, <1>2, OwnersStay
<1>4. \A k \in Homes, n \in Names : SaysIn(text', k, n) = SaysIn(text, k, n) /\ GivenIn(text', k, n) = GivenIn(text, k, n)
  <2> SUFFICES ASSUME NEW k \in Homes, NEW n \in Names
               PROVE  SaysIn(text', k, n) = SaysIn(text, k, n) /\ GivenIn(text', k, n) = GivenIn(text, k, n)
    OBVIOUS
  <2>1. ~Gives(text, l, k, n)
    BY <1>2 DEF Gives
  <2>2. text' = Append(text, l) /\ l \in ExportLines /\ text \in Seq(ExportLines)
    BY <1>1, <1>2
  <2> QED BY <2>1, <2>2, LastWord
<1>5. at_key' \in CalKeys \union {"DpiBase", "none"} /\ at_key' = IF l.is = "key" THEN l.key ELSE "none"
  BY <1>1, <1>2 DEF Under, Homes
<1>6. slot' \in [CalKeys -> [hive : HIVES \union {0}, vals : Seq(Values)]] /\ \A k \in CalKeys : slot'[k].vals = slot[k].vals
  <2>1. slot \in [CalKeys -> [hive : HIVES \union {0}, vals : Seq(Values)]]
    BY DEF PsiTypes
  <2>2. CASE Under(l) \in CalKeys
    <3>1. l.is = "key" /\ l.key \in CalKeys /\ l.hive \in HIVES
      BY <1>2, <2>2 DEF Under, CalKeys
    <3> QED BY <1>1, <2>1, <2>2, <3>1
  <2>3. CASE Under(l) \notin CalKeys
    BY <1>1, <2>1, <2>3
  <2> QED BY <2>2, <2>3
<1>7. PsiTypes'
  <2>1. text' \in Seq(ExportLines)
    BY <1>1, <1>2, AppendProperties
  <2> QED BY <1>1, <1>5, <1>6, <2>1 DEF PsiTypes
<1>8. CalKeys \subseteq Homes /\ "DpiBase" \in Homes /\ "Offset" \in Names
  BY DEF Homes, Names
<1>9. \A k \in CalKeys : \A i \in DOMAIN slot[k].vals : slot[k].vals[i].name \in Names
  BY NamesAre
<1>10. /\ LET o == OwnerIn(text', Len(text') + 1) IN at_key' = IF o.is = "key" THEN o.key ELSE "none"
       /\ px' = IF GivenIn(text', "DpiBase", "Offset") = {} THEN -1 ELSE Signed(SaysIn(text', "DpiBase", "Offset").n)
  BY <1>1, <1>3, <1>4, <1>5, <1>8 DEF Parsed
<1>11. \A k \in CalKeys : \A i \in DOMAIN slot'[k].vals :
         /\ GivenIn(text', k, slot'[k].vals[i].name) # {}
         /\ slot'[k].vals[i].v = SaysIn(text', k, slot'[k].vals[i].name)
  BY <1>4, <1>6, <1>8, <1>9 DEF Parsed
<1> QED BY <1>7, <1>10, <1>11 DEF Parsed

(* The values kept after one more: the new one is the last of its name,    *)
(* and every other was there before.                                       *)
LEMMA KeptIs ==
  ASSUME NEW vals \in Seq(Values), NEW l \in Values
  PROVE  /\ WithValue(vals, l) \in Seq(Values)
         /\ \A i \in DOMAIN WithValue(vals, l) :
              LET v == WithValue(vals, l)[i]
              IN  v = l \/ (v.name # l.name /\ \E j \in DOMAIN vals : v = vals[j])
<1>1. CASE \E i \in DOMAIN vals : vals[i].name = l.name
  <2>1. WithValue(vals, l) = [i \in DOMAIN vals |-> IF vals[i].name = l.name THEN l ELSE vals[i]]
    BY <1>1 DEF WithValue
  <2>2. Len(vals) \in Nat /\ DOMAIN vals = 1..Len(vals) /\ \A i \in 1..Len(vals) : vals[i] \in Values
    OBVIOUS
  <2>3. WithValue(vals, l) \in [1..Len(vals) -> Values]
    BY <2>1, <2>2
  <2>4. WithValue(vals, l) \in Seq(Values)
    BY <2>2, <2>3, SeqDef
  <2>5. DOMAIN WithValue(vals, l) = DOMAIN vals
    BY <2>1
  <2>6. ASSUME NEW i \in DOMAIN WithValue(vals, l)
        PROVE  LET v == WithValue(vals, l)[i] IN v = l \/ (v.name # l.name /\ \E j \in DOMAIN vals : v = vals[j])
    <3>1. i \in DOMAIN vals /\ WithValue(vals, l)[i] = IF vals[i].name = l.name THEN l ELSE vals[i]
      BY <2>1, <2>5
    <3> QED BY <3>1
  <2> QED BY <2>4, <2>6
<1>2. CASE ~ \E i \in DOMAIN vals : vals[i].name = l.name
  <2>1. WithValue(vals, l) = IF Len(vals) < MAX_VALS THEN Append(vals, l) ELSE vals
    BY <1>2 DEF WithValue
  <2>2. CASE Len(vals) < MAX_VALS
    <3>1. Append(vals, l) \in Seq(Values) /\ Append(vals, l)[Len(vals) + 1] = l /\ Len(Append(vals, l)) = Len(vals) + 1
          /\ \A i \in 1..Len(vals) : Append(vals, l)[i] = vals[i]
      BY AppendProperties
    <3>2. \A i \in DOMAIN Append(vals, l) : i = Len(vals) + 1 \/ i \in DOMAIN vals
      BY <3>1
    <3>3. WithValue(vals, l) = Append(vals, l)
      BY <2>1, <2>2
    <3> HIDE DEF WithValue
    <3> QED BY <1>2, <3>1, <3>2, <3>3
  <2>3. CASE ~(Len(vals) < MAX_VALS)
    BY <1>2, <2>1, <2>3
  <2> QED BY <2>2, <2>3
<1> QED BY <1>1, <1>2

(* A value: the last one of its name under its key.                        *)
LEMMA ValueParsed == ASSUME PsiTypes, Parsed, ValueLine PROVE PsiTypes' /\ Parsed'
<1>1. PICK l \in Values : /\ text' = Append(text, l) /\ at_key' = at_key
                          /\ slot' = IF at_key \in CalKeys THEN [slot EXCEPT ![at_key].vals = WithValue(@, l)] ELSE slot
                          /\ px' = IF at_key = "DpiBase" /\ l.name = "Offset" THEN Signed(l.v.n) ELSE px
  BY DEF ValueLine
<1>2. /\ l \in ExportLines /\ text \in Seq(ExportLines) /\ l.is = "value" /\ l.v.n \in Nat
      /\ slot \in [CalKeys -> [hive : HIVES \union {0}, vals : Seq(Values)]] /\ px \in Int
      /\ at_key \in CalKeys \union {"DpiBase", "none"}
  BY LinesAre DEF ExportLines, PsiTypes
<1>3. OwnerIn(text', Len(text') + 1) = OwnerIn(text, Len(text) + 1)
  BY <1>1, <1>2, OwnersStay
<1>4. ASSUME NEW k \in Homes, NEW n \in Names
      PROVE  /\ at_key = k /\ n = l.name => SaysIn(text', k, n) = l.v /\ GivenIn(text', k, n) # {}
             /\ ~(at_key = k /\ n = l.name) => SaysIn(text', k, n) = SaysIn(text, k, n) /\ GivenIn(text', k, n) = GivenIn(text, k, n)
  <2>1. Gives(text, l, k, n) <=> at_key = k /\ n = l.name
    BY <1>2, StandsUnder DEF Gives
  <2>2. CASE Gives(text, l, k, n)
    <3>1. SaysIn(text', k, n) = l.v /\ GivenIn(text', k, n) # {}
      BY <1>1, <1>2, <2>2, LastWord
    <3> QED BY <2>1, <2>2, <3>1
  <2>3. CASE ~Gives(text, l, k, n)
    <3>1. SaysIn(text', k, n) = SaysIn(text, k, n) /\ GivenIn(text', k, n) = GivenIn(text, k, n)
      BY <1>1, <1>2, <2>3, LastWord
    <3> QED BY <2>1, <2>3, <3>1
  <2> QED BY <2>2, <2>3
<1>5. /\ slot' \in [CalKeys -> [hive : HIVES \union {0}, vals : Seq(Values)]]
      /\ \A k \in CalKeys : slot'[k].vals = IF k = at_key THEN WithValue(slot[k].vals, l) ELSE slot[k].vals
  <2>1. CASE at_key \in CalKeys
    <3>1. slot[at_key].vals \in Seq(Values)
      BY <1>2, <2>1
    <3>2. WithValue(slot[at_key].vals, l) \in Seq(Values)
      BY <3>1, KeptIs
    <3> QED BY <1>1, <1>2, <2>1, <3>2
  <2>2. CASE at_key \notin CalKeys
    BY <1>1, <1>2, <2>2
  <2> QED BY <2>1, <2>2
<1>6. PsiTypes'
  <2>1. text' \in Seq(ExportLines)
    BY <1>1, <1>2, AppendProperties
  <2>2. px' \in Int
    BY <1>1, <1>2, PsiAssumption DEF Signed
  <2> QED BY <1>1, <1>2, <1>5, <2>1, <2>2 DEF PsiTypes
<1>7. ASSUME NEW k \in CalKeys, NEW i \in DOMAIN slot'[k].vals
      PROVE  /\ GivenIn(text', k, slot'[k].vals[i].name) # {}
             /\ slot'[k].vals[i].v = SaysIn(text', k, slot'[k].vals[i].name)
  <2> DEFINE v == slot'[k].vals[i]
  <2>0. k \in Homes /\ l.name \in Names /\ \A j \in DOMAIN slot[k].vals : slot[k].vals[j].name \in Names
    BY <1>2, LinesAre, NamesAre DEF Homes
  <2>1. \A j \in DOMAIN slot[k].vals : /\ GivenIn(text, k, slot[k].vals[j].name) # {}
                                       /\ slot[k].vals[j].v = SaysIn(text, k, slot[k].vals[j].name)
    BY DEF Parsed
  <2>2. CASE k = at_key
    <3>1. slot[k].vals \in Seq(Values) /\ slot'[k].vals = WithValue(slot[k].vals, l)
      BY <1>2, <1>5, <2>2
    <3>a. i \in DOMAIN WithValue(slot[k].vals, l) /\ v = WithValue(slot[k].vals, l)[i]
      BY <1>7, <3>1
    <3>2. v = l \/ (v.name # l.name /\ \E j \in DOMAIN slot[k].vals : v = slot[k].vals[j])
      <4> DEFINE vals == slot[k].vals
      <4>1. vals \in Seq(Values) /\ l \in Values /\ i \in DOMAIN WithValue(vals, l) /\ v = WithValue(vals, l)[i]
        BY <3>1, <3>a
      <4> HIDE DEF vals
      <4>2. v = l \/ (v.name # l.name /\ \E j \in DOMAIN vals : v = vals[j])
        BY <4>1, KeptIs
      <4> QED BY <4>2 DEF vals
    <3>3. CASE v = l
      BY <1>4, <2>0, <2>2, <3>3
    <3>4. CASE v.name # l.name /\ \E j \in DOMAIN slot[k].vals : v = slot[k].vals[j]
      <4>1. PICK j \in DOMAIN slot[k].vals : v = slot[k].vals[j]
        BY <3>4
      <4>2. SaysIn(text', k, v.name) = SaysIn(text, k, v.name) /\ GivenIn(text', k, v.name) = GivenIn(text, k, v.name)
        BY <1>4, <2>0, <3>4, <4>1
      <4> QED BY <2>1, <4>1, <4>2
    <3> QED BY <3>2, <3>3, <3>4
  <2>3. CASE k # at_key
    <3>1. slot'[k].vals = slot[k].vals /\ i \in DOMAIN slot[k].vals
      BY <1>5, <1>7, <2>3
    <3>2. SaysIn(text', k, v.name) = SaysIn(text, k, v.name) /\ GivenIn(text', k, v.name) = GivenIn(text, k, v.name)
      BY <1>4, <2>0, <2>3, <3>1
    <3> QED BY <2>1, <3>1, <3>2
  <2> QED BY <2>2, <2>3
<1>8. px' = IF GivenIn(text', "DpiBase", "Offset") = {} THEN -1 ELSE Signed(SaysIn(text', "DpiBase", "Offset").n)
  <2>1. px = IF GivenIn(text, "DpiBase", "Offset") = {} THEN -1 ELSE Signed(SaysIn(text, "DpiBase", "Offset").n)
    BY DEF Parsed
  <2>2. "DpiBase" \in Homes /\ "Offset" \in Names
    BY DEF Homes, Names
  <2> QED BY <1>1, <1>4, <2>1, <2>2
<1>9. LET o == OwnerIn(text', Len(text') + 1) IN at_key' = IF o.is = "key" THEN o.key ELSE "none"
  BY <1>1, <1>3 DEF Parsed
<1> QED BY <1>6, <1>7, <1>8, <1>9 DEF Parsed

(* A malformed line gives nothing and is no header.                        *)
LEMMA MalformedParsed == ASSUME PsiTypes, Parsed, MalformedLine PROVE PsiTypes' /\ Parsed'
<1> DEFINE l == Line("malformed")
<1>1. text' = Append(text, l) /\ UNCHANGED <<at_key, slot, px>>
  BY DEF MalformedLine
<1>2. l \in ExportLines /\ l.is = "malformed" /\ text \in Seq(ExportLines)
  BY LinesAre DEF PsiTypes
<1> HIDE DEF l
<1>3. OwnerIn(text', Len(text') + 1) = OwnerIn(text, Len(text) + 1)
  BY <1>1, <1>2, OwnersStay
<1>4. \A k \in Homes, n \in Names : SaysIn(text', k, n) = SaysIn(text, k, n) /\ GivenIn(text', k, n) = GivenIn(text, k, n)
  <2> SUFFICES ASSUME NEW k \in Homes, NEW n \in Names
               PROVE  SaysIn(text', k, n) = SaysIn(text, k, n) /\ GivenIn(text', k, n) = GivenIn(text, k, n)
    OBVIOUS
  <2>1. ~Gives(text, l, k, n)
    BY <1>2 DEF Gives
  <2>2. text' = Append(text, l) /\ l \in ExportLines /\ text \in Seq(ExportLines)
    BY <1>1, <1>2
  <2> QED BY <2>1, <2>2, LastWord
<1>5. text' \in Seq(ExportLines)
  BY <1>1, <1>2, AppendProperties
<1>6. CalKeys \subseteq Homes /\ "DpiBase" \in Homes /\ "Offset" \in Names
  BY DEF Homes, Names
<1>7. \A k \in CalKeys : \A i \in DOMAIN slot[k].vals : slot[k].vals[i].name \in Names
  BY NamesAre
<1>8. PsiTypes'
  BY <1>1, <1>5 DEF PsiTypes
<1>9. /\ LET o == OwnerIn(text', Len(text') + 1) IN at_key' = IF o.is = "key" THEN o.key ELSE "none"
      /\ px' = IF GivenIn(text', "DpiBase", "Offset") = {} THEN -1 ELSE Signed(SaysIn(text', "DpiBase", "Offset").n)
  BY <1>1, <1>3, <1>4, <1>6 DEF Parsed
<1>10. \A k \in CalKeys : \A i \in DOMAIN slot'[k].vals :
         /\ GivenIn(text', k, slot'[k].vals[i].name) # {}
         /\ slot'[k].vals[i].v = SaysIn(text', k, slot'[k].vals[i].name)
  BY <1>1, <1>4, <1>6, <1>7 DEF Parsed
<1> QED BY <1>8, <1>9, <1>10 DEF Parsed

-----------------------------------------------------------------------------
(* What the import makes of it.  An entry that is made, waits or is stored *)
(* is of a complete key with values in range; it says what the slots say,  *)
(* but for the time when the export has none.                              *)
AllEntries == [key : CalKeys, hive : HIVES \union {0}, gain : Nat, duty : Nat, px : Int, time : Nat, timed : BOOLEAN]
IsEntry(e) ==
  /\ e \in AllEntries /\ e.key \in Seen /\ KeyVerdict(e.key) = "built"
  /\ e.hive = slot[e.key].hive /\ e.gain = Of(e.key, "Gain").n /\ e.duty = Of(e.key, "Duty").n
  /\ e.px = (IF px >= 0 THEN px ELSE -1) /\ (e.timed <=> Of(e.key, "Full").type = "dword")
  /\ e.timed => e.time = 0

Good == {e \in AllEntries : IsEntry(e)}

(* The stages: nothing waits or is stored before the whole text has been   *)
(* read and no key of it is out of range; a text that was refused stays    *)
(* refused, or was never read to its end.                                  *)
Staged ==
  /\ stage \in {"reading", "storing", "again", "done"} /\ recs \in Seq(Good) /\ entries \subseteq Good /\ now \in Nat
  /\ stage = "reading" => entries = {} /\ status = "none"
  /\ stage # "storing" => recs = <<>>
  /\ stage = "storing" \/ entries # {} => ~Refusal
  /\ status = "corrupt" => /\ entries = {} /\ stage \in {"again", "done"}
                           /\ stage = "again" \/ Last(text).is # "malformed" => Refusal
PsiInv == PsiTypes /\ Parsed /\ Staged

(* A value that the slot has of a name is the last that the text gives.    *)
LEMMA OfIs ==
  ASSUME PsiTypes, Parsed, NEW k \in CalKeys, NEW name \in Names
  PROVE  /\ Of(k, name).n \in Nat
         /\ Of(k, name).type # "none" => Of(k, name) = SaysIn(text, k, name)
<1> DEFINE vals == slot[k].vals
           places == {i \in DOMAIN vals : vals[i].name = name}
<1>1. Of(k, name) = IF places = {} THEN NotThere ELSE vals[Min(places)].v
  BY DEF Of
<1>2. vals \in Seq(Values)
  BY DEF PsiTypes
<1>3. CASE places = {}
  BY <1>1, <1>3 DEF NotThere
<1>4. CASE places # {}
  <2>1. places \in SUBSET Nat
    BY <1>2
  <2>2. Min(places) \in places
    <3> HIDE DEF places
    <3>1. PICK x \in places : \A y \in places : ~ (<<y, x>> \in OpToRel(<, Nat))
      BY <1>4, <2>1, NatLessThanWellFounded, WFMin
    <3>2. \A y \in places : ~ (y < x)
      BY <2>1, <3>1 DEF OpToRel
    <3>3. x \in places /\ \A y \in places : x =< y
      BY <2>1, <3>2
    <3> QED BY <3>3 DEF Min
  <2>3. Min(places) \in DOMAIN vals /\ vals[Min(places)].name = name
    BY <2>2
  <2>4. vals[Min(places)] \in Values /\ vals[Min(places)].v = SaysIn(text, k, name)
    BY <2>3, NamesAre DEF Parsed
  <2> QED BY <1>1, <1>4, <2>4, LinesAre
<1> QED BY <1>3, <1>4

(* What a key is whose light is built.                                     *)
LEMMA VerdictIs ==
  ASSUME PsiTypes, Parsed, NEW k \in CalKeys
  PROVE  /\ KeyVerdict(k) \in {"skipped", "refused", "built"}
         /\ KeyVerdict(k) = "built" => /\ Of(k, "Gain").type = "dword" /\ Of(k, "Gain").n <= GAIN_LIMIT
                                       /\ Of(k, "Duty").type = "text" /\ px <= PX_MAX
<1> DEFINE wrong == {i \in DOMAIN Required : Missing(k, Required[i]) \/ OutOfRange(k, Required[i])}
           first == Required[Min(wrong)]
<1>1. KeyVerdict(k) = IF wrong # {} THEN (IF Missing(k, first) THEN "skipped" ELSE "refused")
                      ELSE IF px > PX_MAX THEN "refused"
                      ELSE IF Of(k, "Duty").n = 0 THEN "skipped" ELSE "built"
  BY DEF KeyVerdict
<1> HIDE DEF first
<1>2. ASSUME wrong = {}
      PROVE  Of(k, "Gain").type = "dword" /\ Of(k, "Duty").type = "text" /\ ~(Of(k, "Gain").n > GAIN_LIMIT)
  <2>1. 1 \in DOMAIN Required /\ 2 \in DOMAIN Required /\ Required[1] = "Gain" /\ Required[2] = "Duty"
    BY DEF Required
  <2>2. ~Missing(k, "Gain") /\ ~OutOfRange(k, "Gain") /\ ~Missing(k, "Duty")
    BY <1>2, <2>1
  <2> QED BY <2>2 DEF Missing, OutOfRange
<1> HIDE DEF wrong
<1>3. Of(k, "Gain").n \in Nat /\ px \in Int /\ GAIN_LIMIT \in Nat /\ PX_MAX \in Nat
  BY OfIs, PsiAssumption DEF Names, PsiTypes
<1>4. KeyVerdict(k) = "built" => wrong = {} /\ ~(px > PX_MAX)
  BY <1>1
<1> QED BY <1>1, <1>2, <1>3, <1>4

(* The entry of a key whose light is built.                                *)
LEMMA EntryIs ==
  ASSUME PsiTypes, Parsed, now \in Nat, NEW k \in Seen, KeyVerdict(k) = "built"
  PROVE  IsEntry(Entry(k))
<1>1. k \in CalKeys /\ slot[k].hive \in HIVES \union {0} /\ px \in Int
  BY DEF Seen, PsiTypes
<1>2. Of(k, "Gain").n \in Nat /\ Of(k, "Duty").n \in Nat
  BY <1>1, OfIs DEF Names
<1>3. Time(k) \in Nat /\ (Of(k, "Full").type = "dword" => Time(k) = 0)
  BY DEF Time
<1>4. /\ Entry(k).key = k /\ Entry(k).hive = slot[k].hive /\ Entry(k).gain = Of(k, "Gain").n
      /\ Entry(k).duty = Of(k, "Duty").n /\ Entry(k).px = (IF px >= 0 THEN px ELSE -1) /\ Entry(k).time = Time(k)
      /\ (Entry(k).timed <=> Of(k, "Full").type = "dword")
  BY DEF Entry
<1>5. (IF px >= 0 THEN px ELSE -1) \in Int
  BY <1>1
<1>6. Entry(k) \in AllEntries
  BY <1>1, <1>2, <1>3, <1>5 DEF Entry, AllEntries
<1> QED BY <1>3, <1>4, <1>6 DEF IsEntry

(* The two entries at most that the import makes.                          *)
LEMMA BuiltAre ==
  ASSUME PsiTypes, Parsed, now \in Nat, ~Refusal
  PROVE  BuiltOf(Variants[1]) \o BuiltOf(Variants[2]) \in Seq(Good)
<1>1. Variants[1] \in CalKeys /\ Variants[2] \in CalKeys
  BY DEF Variants, CalKeys
<1>2. ASSUME NEW k \in CalKeys PROVE BuiltOf(k) \in Seq(Good)
  <2>1. CASE k \in Seen /\ KeyVerdict(k) # "skipped"
    <3>1. KeyVerdict(k) = "built"
      BY <2>1, VerdictIs DEF Refusal
    <3>2. Entry(k) \in Good
      BY <2>1, <3>1, EntryIs DEF Good, IsEntry
    <3>3. BuiltOf(k) = <<Entry(k)>>
      BY <2>1 DEF BuiltOf
    <3> QED BY <3>2, <3>3
  <2>2. CASE ~(k \in Seen /\ KeyVerdict(k) # "skipped")
    BY <2>2 DEF BuiltOf
  <2> QED BY <2>1, <2>2
<1>3. BuiltOf(Variants[1]) \in Seq(Good) /\ BuiltOf(Variants[2]) \in Seq(Good)
  BY <1>1, <1>2
<1> HIDE DEF Good
<1> QED BY <1>3, ConcatProperties

(* An entry stays one as long as the slots do, and so does a refusal.      *)
LEMMA EntriesStay == ASSUME UNCHANGED parser PROVE (Refusal' <=> Refusal) /\ Good' = Good
BY DEF parser, Good, AllEntries, Refusal, Seen, KeyVerdict, Missing, OutOfRange, Of, IsEntry

(* While it reads, an import has made nothing.                             *)
LEMMA ReadLineKeeps == ASSUME PsiInv, ReadLine PROVE PsiInv'
<1>1. PsiTypes' /\ Parsed'
  BY HeaderParsed, ValueParsed, MalformedParsed DEF ReadLine, PsiInv
<1>2. stage = "reading" /\ entries = {} /\ recs = <<>> /\ status = "none" /\ now \in Nat /\ entries' = {} /\ recs' = <<>> /\ now' = now
  BY DEF ReadLine, PsiInv, Staged
<1>3. recs' \in Seq(Good') /\ entries' \subseteq Good'
  BY <1>2
<1>4. ASSUME stage' = stage, status' = status PROVE Staged'
  BY <1>2, <1>3, <1>4 DEF Staged
<1>5. ASSUME stage' = "done", status' = "corrupt", text' = Append(text, Line("malformed")) PROVE Staged'
  <2>1. Last(text').is = "malformed"
    <3> DEFINE l == Line("malformed")
    <3>1. text \in Seq(ExportLines) /\ l \in ExportLines /\ l.is = "malformed"
      BY LinesAre DEF PsiInv, PsiTypes
    <3> HIDE DEF l
    <3>2. Len(text') = Len(text) + 1 /\ text'[Len(text) + 1] = l
      BY <1>5, <3>1, AppendProperties DEF l
    <3> QED BY <3>1, <3>2 DEF Last
  <2> QED BY <1>2, <1>3, <1>5, <2>1 DEF Staged
<1>6. (stage' = stage /\ status' = status) \/ (stage' = "done" /\ status' = "corrupt" /\ text' = Append(text, Line("malformed")))
  BY DEF ReadLine, HeaderLine, ValueLine, MalformedLine
<1>7. Staged'
  BY <1>4, <1>5, <1>6
<1> QED BY <1>1, <1>7 DEF PsiInv

(* The parser rests while entries are made and stored.                     *)
LEMMA ParserRests ==
  ASSUME PsiInv, UNCHANGED parser
  PROVE  PsiTypes' /\ Parsed'
BY DEF parser, PsiInv, PsiTypes, Parsed

(* The text has been read: all entries, or a refusal.                      *)
LEMMA FromRegKeeps == ASSUME PsiInv, FromReg PROVE PsiInv'
<1>1. PsiTypes' /\ Parsed' /\ PsiTypes /\ Parsed
  BY ParserRests DEF FromReg, PsiInv
<1>2. (Refusal' <=> Refusal) /\ Good' = Good /\ text' = text
  BY EntriesStay DEF FromReg, parser
<1>3. stage \in {"reading", "again"} /\ recs = <<>> /\ now \in Nat /\ UNCHANGED <<entries, now>>
      /\ entries \subseteq Good
      /\ (entries # {} => ~Refusal) /\ (status = "corrupt" => stage = "again" /\ entries = {} /\ Refusal)
      /\ (stage = "reading" => status = "none")
  BY DEF FromReg, PsiInv, Staged
<1>4. ASSUME Refusal PROVE Staged'
  <2>1. stage' = "done" /\ status' = "corrupt" /\ recs' = recs
    BY <1>4 DEF FromReg
  <2>2. entries' = {} /\ Refusal'
    BY <1>2, <1>3, <1>4
  <2>3. recs' \in Seq(Good') /\ entries' \subseteq Good'
    BY <1>3, <2>1, <2>2
  <2> QED BY <1>3, <2>1, <2>2, <2>3 DEF Staged
<1>5. ASSUME ~Refusal PROVE Staged'
  <2>1. stage' = "storing" /\ status' = status /\ recs' = BuiltOf(Variants[1]) \o BuiltOf(Variants[2])
    BY <1>5 DEF FromReg
  <2>2. recs' \in Seq(Good')
    BY <1>1, <1>2, <1>3, <1>5, <2>1, BuiltAre
  <2>3. status' # "corrupt" /\ ~Refusal' /\ entries' \subseteq Good'
    BY <1>2, <1>3, <1>5, <2>1
  <2> QED BY <1>3, <2>1, <2>2, <2>3 DEF Staged
<1> QED BY <1>1, <1>4, <1>5 DEF PsiInv

(* A put, or one that fails; the end; another try.                         *)
LEMMA StoringKeeps == ASSUME PsiInv, StoreOne \/ StoreOneFails \/ Imported \/ ImportAgain PROVE PsiInv'
<1>1. UNCHANGED parser /\ PsiTypes' /\ Parsed' /\ Staged
  BY ParserRests DEF StoreOne, StoreOneFails, Imported, ImportAgain, PsiInv
<1>2. (Refusal' <=> Refusal) /\ Good' = Good /\ text' = text
  BY <1>1, EntriesStay DEF parser
<1> HIDE DEF Good
<1>3. ASSUME StoreOne PROVE Staged'
  <2>1. stage = "storing" /\ recs # <<>> /\ entries' = entries \union {recs[1]} /\ recs' = Tail(recs)
        /\ stage' = stage /\ status' = status /\ now' = now
    BY <1>3 DEF StoreOne
  <2>2. recs \in Seq(Good) /\ entries \subseteq Good /\ now \in Nat /\ ~Refusal /\ status # "corrupt"
    BY <1>1, <2>1 DEF Staged
  <2>3. recs' \in Seq(Good') /\ entries' \subseteq Good' /\ ~Refusal'
    <3>1. Tail(recs) \in Seq(Good) /\ recs[1] \in Good
      BY <2>1, <2>2
    <3> QED BY <1>2, <2>1, <2>2, <3>1
  <2> QED BY <2>1, <2>2, <2>3 DEF Staged
<1>4. ASSUME StoreOneFails \/ Imported PROVE Staged'
  <2>1. stage = "storing" /\ stage' = "done" /\ status' \in {"io", "ok"} /\ recs' = <<>> /\ UNCHANGED <<entries, now>>
    BY <1>4 DEF StoreOneFails, Imported
  <2>2. entries \subseteq Good /\ now \in Nat /\ ~Refusal
    BY <1>1, <2>1 DEF Staged
  <2>3. recs' \in Seq(Good') /\ entries' \subseteq Good' /\ ~Refusal'
    BY <1>2, <2>1, <2>2
  <2> QED BY <2>1, <2>2, <2>3 DEF Staged
<1>5. ASSUME ImportAgain PROVE Staged'
  <2>1. stage = "done" /\ now' = now + 1 /\ UNCHANGED <<recs, status, entries>>
        /\ stage' = IF status = "corrupt" /\ Last(text).is = "malformed" THEN "done" ELSE "again"
    BY <1>5 DEF ImportAgain
  <2>2. recs = <<>> /\ now' \in Nat /\ entries \subseteq Good /\ (entries # {} => ~Refusal)
        /\ (status = "corrupt" => entries = {} /\ (Last(text).is # "malformed" => Refusal))
    BY <1>1, <2>1 DEF Staged
  <2>3. recs' \in Seq(Good') /\ entries' \subseteq Good' /\ (entries' # {} => ~Refusal')
    BY <1>2, <2>1, <2>2
  <2>4. stage' \in {"done", "again"} /\ (status' = "corrupt" => entries' = {})
        /\ (status' = "corrupt" => ((stage' = "again" \/ Last(text').is # "malformed") => Refusal'))
    BY <1>2, <2>1, <2>2
  <2> QED BY <2>1, <2>2, <2>3, <2>4 DEF Staged
<1> QED BY <1>1, <1>3, <1>4, <1>5 DEF PsiInv

(* At first.                                                               *)
LEMMA PsiInvInit == PsiInit => PsiInv
<1> SUFFICES ASSUME PsiInit PROVE PsiInv
  OBVIOUS
<1>1. stage = "reading" /\ recs = <<>> /\ status = "none" /\ entries = {} /\ now = 1
  BY DEF PsiInit
<1>2. Staged
  BY <1>1 DEF Staged
<1> QED BY <1>2, ParsedInit DEF PsiInv

(* At every step.                                                          *)
LEMMA PsiInvNext == PsiInv /\ [PsiNext]_psiVars => PsiInv'
<1> SUFFICES ASSUME PsiInv, [PsiNext]_psiVars PROVE PsiInv'
  OBVIOUS
<1>1. CASE UNCHANGED psiVars
  <2>1. UNCHANGED parser /\ UNCHANGED <<stage, recs, status, entries, now, text>>
    BY <1>1 DEF psiVars, parser
  <2>2. PsiTypes' /\ Parsed' /\ Staged
    BY <2>1, ParserRests DEF PsiInv
  <2>3. (Refusal' <=> Refusal) /\ Good' = Good
    BY <2>1, EntriesStay
  <2> QED BY <2>1, <2>2, <2>3 DEF PsiInv, Staged
<1> QED BY <1>1, ReadLineKeeps, FromRegKeeps, StoringKeeps DEF PsiNext

(* What is stored is faithful.                                             *)
LEMMA StoredIsFaithful == PsiInv => PsiIsFaithful
<1> SUFFICES ASSUME PsiInv PROVE PsiIsFaithful
  OBVIOUS
<1>1. PsiTypes /\ Parsed /\ \A e \in entries : IsEntry(e)
  BY DEF PsiInv, Staged, Good
<1>2. ASSUME NEW e \in entries
      PROVE  /\ e.key \in CalKeys /\ KeyVerdict(e.key) = "built"
             /\ Of(e.key, "Gain").type = "dword" /\ Of(e.key, "Gain").n <= GAIN_LIMIT
             /\ Of(e.key, "Duty").type = "text" /\ px <= PX_MAX /\ IsEntry(e)
  <2>1. e.key \in CalKeys /\ KeyVerdict(e.key) = "built" /\ IsEntry(e)
    BY <1>1 DEF IsEntry, Seen
  <2> QED BY <1>1, <2>1, VerdictIs
<1>3. ValuesAreOfTheirKey
  <2> SUFFICES ASSUME NEW e \in entries
               PROVE  /\ e.gain = Says(e.key, "Gain").n /\ e.duty = Says(e.key, "Duty").n
                      /\ LET offset == Says("DpiBase", "Offset")
                         IN  e.px = IF offset = NotThere \/ 2 * offset.n >= WORD THEN -1 ELSE offset.n
    BY DEF ValuesAreOfTheirKey
  <2>1. e.gain = Says(e.key, "Gain").n /\ e.duty = Says(e.key, "Duty").n
    <3>1. Of(e.key, "Gain") = SaysIn(text, e.key, "Gain") /\ Of(e.key, "Duty") = SaysIn(text, e.key, "Duty")
      BY <1>1, <1>2, OfIs DEF Names
    <3> QED BY <1>2, <3>1, InTheText DEF IsEntry
  <2> DEFINE offset == SaysIn(text, "DpiBase", "Offset")
             given == GivenIn(text, "DpiBase", "Offset")
  <2>2. given = {} => offset = NotThere /\ px = -1
    BY <1>1 DEF Parsed, SaysIn
  <2>3. given # {} => offset # NotThere /\ offset.n \in Nat /\ offset.n < WORD /\ px = Signed(offset.n)
    <3>1. given \in SUBSET (1..Len(text)) /\ Len(text) \in Nat /\ text \in Seq(ExportLines)
      BY <1>1 DEF GivenIn, PsiTypes
    <3>2. ASSUME given # {} PROVE offset # NotThere /\ offset.n \in Nat /\ offset.n < WORD
      <4> DEFINE j == Max(given)
      <4>1. j \in given /\ offset = text[j].v
        BY <3>1, <3>2, LastIs DEF SaysIn
      <4>2. text[j] \in ExportLines /\ text[j].is = "value" /\ text[j].name = "Offset"
        BY <3>1, <4>1 DEF GivenIn
      <4>3. text[j] \in Values
        BY <4>2, LinesAre DEF ExportLines
      <4>4. text[j].v.type \in {"dword", "text"} /\ text[j].v.n \in Nat /\ text[j].v.n < WORD
        BY <4>2, <4>3, LinesAre
      <4>5. text[j].v # NotThere
        <5>1. NotThere.type = "none"
          BY DEF NotThere
        <5> QED BY <4>4, <5>1
      <4> QED BY <4>1, <4>4, <4>5
    <3>3. given # {} => px = Signed(offset.n)
      BY <1>1 DEF Parsed
    <3> QED BY <3>2, <3>3
  <2>4. e.px = IF px >= 0 THEN px ELSE -1
    BY <1>2 DEF IsEntry
  <2> HIDE DEF offset, given
  <2>5. e.px = IF offset = NotThere \/ 2 * offset.n >= WORD THEN -1 ELSE offset.n
    BY <2>2, <2>3, <2>4, PsiAssumption DEF Signed
  <2>6. Says("DpiBase", "Offset") = offset
    BY InTheText DEF offset
  <2> QED BY <2>1, <2>5, <2>6
<1>4. AllOrNothing
  <2>1. status = "corrupt" => entries = {}
    BY DEF PsiInv, Staged
  <2>2. ASSUME NEW e \in entries PROVE e.gain <= GAIN_LIMIT /\ e.px <= PX_MAX
    BY <1>2, PsiAssumption DEF IsEntry
  <2>3. entries # {} => \A k \in Seen : KeyVerdict(k) # "refused"
    BY DEF PsiInv, Staged, Refusal
  <2> QED BY <2>1, <2>2, <2>3 DEF AllOrNothing
<1>5. StoredOnce
  <2> SUFFICES ASSUME NEW d \in entries, NEW e \in entries, d.timed, d.key = e.key PROVE d = e
    BY DEF StoredOnce
  <2>1. IsEntry(d) /\ IsEntry(e)
    BY <1>1
  <2>2. d.hive = e.hive /\ d.gain = e.gain /\ d.duty = e.duty /\ d.px = e.px /\ (d.timed <=> e.timed) /\ d.time = e.time
    BY <2>1 DEF IsEntry
  <2> QED BY <2>1, <2>2 DEF IsEntry, AllEntries
<1> QED BY <1>3, <1>4, <1>5 DEF PsiIsFaithful

(* What an import takes from an export of any length is what the export    *)
(* says of that key, all of it or nothing, and each timed key once.        *)
THEOREM ImportsAreFaithful == PsiSpec => []PsiIsFaithful
<1> QED BY PsiInvInit, PsiInvNext, StoredIsFaithful, PTL DEF PsiSpec
=============================================================================
