----------------------------- MODULE HardwareProofs -----------------------------
(***************************************************************************)
(* What lies between the session and the scanner, for any parameters.      *)
(*                                                                         *)
(* Usb: a transfer arrives whole however often it moves, is cut short and  *)
(* is sent again, and a reopen that fails has used its attempts.           *)
(*                                                                         *)
(* Boards: what the driver believes of the registers is so, a call that    *)
(* returned PK_OK set them, and the lamp ends dark, whichever writes fail  *)
(* and whether or not they took effect.                                    *)
(*                                                                         *)
(* Link: the exchanges are sound for any threads, requests, boards,        *)
(* retries and drain limit.  What is said of one call holds whatever the   *)
(* scanner does with its replies; that an answer is never an earlier one,  *)
(* and that a drained link is aligned, rests on PROMPT.                    *)
(*                                                                         *)
(* Trace: what the recorder at the transport keeps is what happened, and   *)
(* the replay answers with it, for any number of calls.                    *)
(***************************************************************************)
EXTENDS Link, Usb, Boards, Trace, SequenceTheorems, FiniteSetTheorems, TLAPS

-----------------------------------------------------------------------------
(* Usb                                                                     *)

(* The first n bytes of a transfer, in order.                              *)
FirstBytes(n) == [i \in 1..n |-> i]

(* The scanner has the part of the write that is done; what the caller and *)
(* the FIFO hold is what was streamed; a reopen in progress has attempts   *)
(* left.                                                                   *)
WriteInv ==
  /\ out.is \in {"none", "sending", "sent"}
  /\ out.is # "none" => /\ out.done \in 0..SIZE /\ out.has = FirstBytes(out.done)
                        /\ out.is = "sent" => out.done = SIZE
ReadInv ==
  /\ streamed \in Nat /\ got \in Seq(Nat) /\ fifo \in Seq(Nat)
  /\ ~lost => got \o fifo = FirstBytes(streamed)
ReopenInv ==
  /\ reopening.made \in Nat
  /\ reopening.is = "on" => reopening.made < WAIT
  /\ ReopenWaits

(* Concatenation is associative.                                           *)
LEMMA ThreeParts ==
  ASSUME NEW a \in Seq(Nat), NEW b \in Seq(Nat), NEW c \in Seq(Nat)
  PROVE  (a \o b) \o c = a \o (b \o c)
BY ConcatAssociative

(* A run of bytes in order is a sequence; one more byte, or x more, makes  *)
(* it a longer one.                                                        *)
LEMMA BytesGrow ==
  ASSUME NEW n \in Nat, NEW x \in Nat
  PROVE  /\ FirstBytes(n) \in Seq(Nat) /\ Len(FirstBytes(n)) = n
         /\ FirstBytes(n) \o [i \in 1..x |-> n + 1 + i - 1] = FirstBytes(n + x)
<1>1. /\ FirstBytes(n) \in Seq(Nat) /\ Len(FirstBytes(n)) = n /\ \A i \in 1..n : FirstBytes(n)[i] = i
  BY SeqDef DEF FirstBytes
<1> DEFINE t == [i \in 1..x |-> n + 1 + i - 1]
<1>2. t \in Seq(Nat) /\ Len(t) = x /\ \A i \in 1..x : t[i] = n + i
  BY SeqDef
<1>3. /\ FirstBytes(n + x) \in Seq(Nat) /\ Len(FirstBytes(n + x)) = n + x
      /\ \A i \in 1..(n + x) : FirstBytes(n + x)[i] = i
  BY SeqDef DEF FirstBytes
<1> HIDE DEF t
<1>4. FirstBytes(n) \o t \in Seq(Nat) /\ Len(FirstBytes(n) \o t) = n + x
      /\ \A i \in 1..(n + x) : (FirstBytes(n) \o t)[i] = i
  <2>1. /\ FirstBytes(n) \o t \in Seq(Nat) /\ Len(FirstBytes(n) \o t) = n + x
        /\ \A i \in 1..(n + x) : (FirstBytes(n) \o t)[i] = IF i <= n THEN FirstBytes(n)[i] ELSE t[i - n]
    <3> DEFINE a == FirstBytes(n)
    <3>1. a \in Seq(Nat) /\ Len(a) = n /\ t \in Seq(Nat) /\ Len(t) = x
      BY <1>1, <1>2
    <3> HIDE DEF a
    <3>2. a \o t \in Seq(Nat) /\ Len(a \o t) = n + x
          /\ \A i \in 1..(n + x) : (a \o t)[i] = IF i <= n THEN a[i] ELSE t[i - n]
      BY <3>1, ConcatProperties
    <3> QED BY <3>2 DEF a
  <2>2. \A i \in 1..(n + x) : IF i <= n THEN i \in 1..n ELSE i - n \in 1..x
    OBVIOUS
  <2>3. \A i \in 1..(n + x) : (IF i <= n THEN FirstBytes(n)[i] ELSE t[i - n]) = i
    BY <1>1, <1>2, <2>2
  <2> QED BY <2>1, <2>3
<1>5. FirstBytes(n) \o t = FirstBytes(n + x)
  BY <1>3, <1>4, SeqEqual
<1> QED BY <1>1, <1>5 DEF t

(* The FIFO's end grows and its head is taken: the bytes stay in order.    *)
LEMMA ByteArrives ==
  ASSUME NEW g \in Seq(Nat), NEW f \in Seq(Nat), NEW n \in Nat, g \o f = FirstBytes(n)
  PROVE  Append(f, n + 1) \in Seq(Nat) /\ g \o Append(f, n + 1) = FirstBytes(n + 1)
<1>1. FirstBytes(n) \o [i \in 1..1 |-> n + 1 + i - 1] = FirstBytes(n + 1)
  BY BytesGrow
<1>2. [i \in 1..1 |-> n + 1 + i - 1] = <<n + 1>>
  OBVIOUS
<1>3. f \o <<n + 1>> = Append(f, n + 1) /\ <<n + 1>> \in Seq(Nat)
  BY AppendIsConcat
<1>4. g \o (f \o <<n + 1>>) = (g \o f) \o <<n + 1>>
  <2> DEFINE u == <<n + 1>>
  <2>1. u \in Seq(Nat)
    BY <1>3
  <2> HIDE DEF u
  <2>2. g \o (f \o u) = (g \o f) \o u
    BY <2>1, ThreeParts
  <2> QED BY <2>2 DEF u
<1>5. g \o Append(f, n + 1) = FirstBytes(n + 1)
  BY <1>1, <1>2, <1>3, <1>4, Zenon
<1>6. Append(f, n + 1) \in Seq(Nat)
  BY AppendProperties
<1> QED BY <1>5, <1>6

(* What a read takes from the FIFO is what comes next, and if it takes     *)
(* nothing the FIFO stays.                                                 *)
LEMMA BytesTaken ==
  ASSUME NEW g \in Seq(Nat), NEW f \in Seq(Nat), NEW x \in 0..Len(f)
  PROVE  /\ SubSeq(f, 1, x) \in Seq(Nat) /\ SubSeq(f, x + 1, Len(f)) \in Seq(Nat)
         /\ (g \o SubSeq(f, 1, x)) \o SubSeq(f, x + 1, Len(f)) = g \o f
         /\ x = 0 => SubSeq(f, x + 1, Len(f)) = f
<1>1. SubSeq(f, 1, x) \in Seq(Nat) /\ SubSeq(f, x + 1, Len(f)) \in Seq(Nat)
  BY SubSeqProperties, LenProperties
<1>2. SubSeq(f, 1, x) \o SubSeq(f, x + 1, Len(f)) = f
  <2>1. 1 \in 1..(Len(f) + 1) /\ x \in (1 - 1)..Len(f) /\ Len(f) \in x..Len(f)
    BY LenProperties
  <2> QED BY <2>1, ConcatAdjacentSubSeq, SubSeqFull
<1>3. (g \o SubSeq(f, 1, x)) \o SubSeq(f, x + 1, Len(f)) = g \o (SubSeq(f, 1, x) \o SubSeq(f, x + 1, Len(f)))
  <2> DEFINE u == SubSeq(f, 1, x)
             v == SubSeq(f, x + 1, Len(f))
  <2>1. u \in Seq(Nat) /\ v \in Seq(Nat)
    BY <1>1
  <2> HIDE DEF u, v
  <2>2. (g \o u) \o v = g \o (u \o v)
    BY <2>1, ThreeParts
  <2> QED BY <2>2 DEF u, v
<1>4. x = 0 => SubSeq(f, x + 1, Len(f)) = f
  BY SubSeqFull
<1> QED BY <1>1, <1>2, <1>3, <1>4

(* What is written goes out once and in order.                             *)
LEMMA WritesStay == WriteInv /\ [UsbNext]_usbVars => WriteInv'
<1> SUFFICES ASSUME WriteInv, [UsbNext]_usbVars PROVE WriteInv'
  OBVIOUS
<1>1. CASE BulkOut
  <2>1. out' = [is |-> "sending", done |-> 0, has |-> <<>>]
    BY <1>1 DEF BulkOut
  <2>2. FirstBytes(0) = <<>>
    BY DEF FirstBytes
  <2> QED BY <2>1, <2>2, UsbAssumption DEF WriteInv
<1>2. CASE Moves
  <2>1. PICK x \in 1..(SIZE - out.done) :
          LET all == out.done + x
          IN  out' = [is |-> IF all = SIZE THEN "sent" ELSE "sending", done |-> all,
                      has |-> out.has \o [i \in 1..x |-> Unsent(out.done) + i - 1]]
    BY <1>2 DEF Moves
  <2>2. out.done \in 0..SIZE /\ out.has = FirstBytes(out.done) /\ SIZE \in Nat
    BY <1>2, UsbAssumption DEF Moves, WriteInv
  <2>3. out.done \in Nat /\ x \in Nat /\ out.done + x \in 0..SIZE
    BY <2>1, <2>2
  <2>4. FirstBytes(out.done) \o [i \in 1..x |-> out.done + 1 + i - 1] = FirstBytes(out.done + x)
    BY <2>3, BytesGrow
  <2>5. out'.has = FirstBytes(out.done + x) /\ out'.done = out.done + x
        /\ out'.is = IF out.done + x = SIZE THEN "sent" ELSE "sending"
    BY <2>1, <2>2, <2>4 DEF Unsent
  <2> QED BY <2>3, <2>5 DEF WriteInv
<1>3. CASE WriteFails
  BY <1>3 DEF WriteFails, NoWrite, WriteInv
<1>4. CASE UNCHANGED out
  BY <1>4 DEF WriteInv
<1>5. CASE \E d \in SCANNERS : Open(d) \/ Appears(d) \/ Settles(d)
  BY <1>4, <1>5 DEF Open, Appears, Settles
<1>6. CASE Reenumerates \/ Reopen \/ AttemptFindsNone \/ TryOpen \/ Streams \/ ReadReturns \/ UNCHANGED usbVars
  BY <1>4, <1>6 DEF Reenumerates, Reopen, AttemptFindsNone, TryOpen, Streams, ReadReturns, usbVars
<1> QED BY <1>1, <1>2, <1>3, <1>5, <1>6 DEF UsbNext

(* What is read and what waits are the bytes streamed, until a read fails. *)
LEMMA ReadsStay == ReadInv /\ [UsbNext]_usbVars => ReadInv'
<1> SUFFICES ASSUME ReadInv, [UsbNext]_usbVars PROVE ReadInv'
  OBVIOUS
<1>1. CASE Streams
  <2>1. streamed' = streamed + 1 /\ fifo' = Append(fifo, streamed') /\ UNCHANGED <<got, lost>>
    BY <1>1 DEF Streams
  <2>2. streamed' \in Nat /\ got' \in Seq(Nat) /\ fifo' \in Seq(Nat)
    BY <2>1, AppendProperties DEF ReadInv
  <2>3. ASSUME ~lost PROVE got \o Append(fifo, streamed + 1) = FirstBytes(streamed + 1)
    BY <2>3, ByteArrives DEF ReadInv
  <2> QED BY <2>1, <2>2, <2>3 DEF ReadInv
<1>2. CASE ReadReturns
  <2>1. PICK rc \in {"ok", "timeout", "overflow", "error"}, x \in 0..Len(fifo) :
          /\ fifo' = SubSeq(fifo, x + 1, Len(fifo))
          /\ IF Delivered(rc, x)
             THEN got' = got \o SubSeq(fifo, 1, x) /\ UNCHANGED lost
             ELSE lost' = (lost \/ rc # "timeout") /\ UNCHANGED got
    BY <1>2 DEF ReadReturns
  <2>2. streamed' = streamed /\ streamed \in Nat /\ got \in Seq(Nat) /\ fifo \in Seq(Nat)
    BY <1>2 DEF ReadReturns, ReadInv
  <2>3. /\ SubSeq(fifo, 1, x) \in Seq(Nat) /\ SubSeq(fifo, x + 1, Len(fifo)) \in Seq(Nat)
        /\ (got \o SubSeq(fifo, 1, x)) \o SubSeq(fifo, x + 1, Len(fifo)) = got \o fifo
        /\ x = 0 => SubSeq(fifo, x + 1, Len(fifo)) = fifo
    BY <2>1, <2>2, BytesTaken
  <2>4. CASE Delivered(rc, x)
    <3>1. got' = got \o SubSeq(fifo, 1, x) /\ lost' = lost
      BY <2>1, <2>4
    <3>2. got' \in Seq(Nat) /\ fifo' \in Seq(Nat) /\ got' \o fifo' = got \o fifo
      BY <2>1, <2>2, <2>3, <3>1, ConcatProperties
    <3> QED BY <2>2, <3>1, <3>2 DEF ReadInv
  <2>5. CASE ~Delivered(rc, x)
    <3>1. lost' = (lost \/ rc # "timeout") /\ got' = got
      BY <2>1, <2>5
    <3>2. ~lost' => ~lost /\ x = 0
      <4>1. ~lost' => ~lost /\ rc = "timeout"
        BY <3>1, Zenon
      <4>2. rc = "timeout" => x = 0
        BY <2>1, <2>2, <2>5 DEF Delivered
      <4> QED BY <4>1, <4>2
    <3> QED BY <2>1, <2>2, <2>3, <3>1, <3>2 DEF ReadInv
  <2> QED BY <2>4, <2>5
<1>3. CASE Reopen
  <2>1. fifo' = <<>> /\ got' = <<>> /\ streamed' = 0
    BY <1>3 DEF Reopen
  <2>2. FirstBytes(0) = <<>> /\ <<>> \o <<>> = <<>> /\ <<>> \in Seq(Nat)
    BY DEF FirstBytes
  <2> QED BY <2>1, <2>2 DEF ReadInv
<1>4. CASE UNCHANGED stream
  BY <1>4 DEF ReadInv, stream
<1>5. CASE \E d \in SCANNERS : Open(d) \/ Appears(d) \/ Settles(d)
  BY <1>4, <1>5 DEF Open, Appears, Settles
<1>6. CASE Reenumerates \/ AttemptFindsNone \/ TryOpen \/ BulkOut \/ Moves \/ WriteFails \/ UNCHANGED usbVars
  BY <1>4, <1>6 DEF Reenumerates, AttemptFindsNone, TryOpen, BulkOut, Moves, WriteFails, usbVars
<1> QED BY <1>1, <1>2, <1>3, <1>5, <1>6 DEF UsbNext

(* A reopen gives up with its last attempt.                                *)
LEMMA AttemptsStay == ReopenInv /\ [UsbNext]_usbVars => ReopenInv'
<1> SUFFICES ASSUME ReopenInv, [UsbNext]_usbVars PROVE ReopenInv'
  OBVIOUS
<1>1. WAIT \in Nat /\ WAIT > 0
  BY UsbAssumption
<1> USE DEF ReopenInv, ReopenWaits, Misses, GivesUp, Off
<1>2. CASE Reopen
  BY <1>1, <1>2 DEF Reopen
<1>3. CASE AttemptFindsNone
  BY <1>1, <1>3 DEF AttemptFindsNone
<1>4. CASE TryOpen
  BY <1>1, <1>4 DEF TryOpen
<1>5. CASE UNCHANGED reopening
  BY <1>5
<1>6. CASE \E d \in SCANNERS : Open(d) \/ Appears(d) \/ Settles(d)
  BY <1>5, <1>6 DEF Open, Appears, Settles
<1>7. CASE Reenumerates \/ BulkOut \/ Moves \/ WriteFails \/ Streams \/ ReadReturns \/ UNCHANGED usbVars
  BY <1>5, <1>7 DEF Reenumerates, BulkOut, Moves, WriteFails, Streams, ReadReturns, usbVars
<1> QED BY <1>2, <1>3, <1>4, <1>6, <1>7 DEF UsbNext

(* TransfersAreWhole: partial and timed-out transfers neither lose nor     *)
(* double a byte, and a reopen uses its time, for transfers and waits of   *)
(* any length (transport/usb.c ub_bulk_out, ub_bulk_in, ub_reopen).        *)
THEOREM TransfersStayWhole == UsbSpec => []TransfersAreWhole
<1>1. UsbInit => WriteInv /\ ReadInv /\ ReopenInv
  <2>1. FirstBytes(0) = <<>> /\ <<>> \o <<>> = <<>> /\ <<>> \in Seq(Nat)
    BY DEF FirstBytes
  <2> QED BY <2>1 DEF UsbInit, WriteInv, ReadInv, ReopenInv, ReopenWaits, Off, NoWrite
<1>2. WriteInv /\ ReadInv /\ ReopenInv => TransfersAreWhole
  BY DEF WriteInv, ReadInv, ReopenInv, TransfersAreWhole, NothingDropped, WholeWrite, FirstBytes
<1> HIDE DEF UsbInit, UsbNext, usbVars, WriteInv, ReadInv, ReopenInv
<1> QED BY <1>1, <1>2, WritesStay, ReadsStay, AttemptsStay, PTL DEF UsbSpec

-----------------------------------------------------------------------------
(* Boards: the plan of a call                                              *)

(* A plan is a sequence of steps, whatever their values are.               *)
IsPlan(p) == \E S : p \in Seq(S)
StepsOf(p) == {p[n] : n \in DOMAIN p}
Pending(p, r) == \E s \in StepsOf(p) : s.reg = r

(* No step, one step, and what is left after one.                          *)
LEMMA PlanIs ==
  ASSUME NEW p, IsPlan(p)
  PROVE  /\ Len(p) \in Nat /\ DOMAIN p = 1..Len(p)
         /\ p # <<>> => /\ Len(p) > 0 /\ 1 \in DOMAIN p /\ Head(p) = p[1]
                        /\ IsPlan(Tail(p)) /\ DOMAIN Tail(p) = 1..(Len(p) - 1)
                        /\ \A n \in 1..(Len(p) - 1) : Tail(p)[n] = p[n + 1]
<1>1. PICK S : p \in Seq(S)
  BY DEF IsPlan
<1>2. Len(p) \in Nat /\ DOMAIN p = 1..Len(p) /\ (p # <<>> => Len(p) > 0)
  BY <1>1, LenProperties, EmptySeq
<1>3. ASSUME p # <<>>
      PROVE  /\ Tail(p) \in Seq(S) /\ DOMAIN Tail(p) = 1..(Len(p) - 1) /\ Head(p) = p[1]
             /\ \A n \in 1..(Len(p) - 1) : Tail(p)[n] = p[n + 1]
  BY <1>1, <1>3, HeadTailProperties, LenProperties
<1> QED BY <1>2, <1>3 DEF IsPlan

(* A plan is its next step and the rest.                                   *)
LEMMA StepsLeft ==
  ASSUME NEW p, IsPlan(p), p # <<>>
  PROVE  StepsOf(p) = {Head(p)} \union StepsOf(Tail(p))
<1>1. \A n \in DOMAIN Tail(p) : n + 1 \in DOMAIN p /\ Tail(p)[n] = p[n + 1]
  BY PlanIs
<1>2. \A n \in DOMAIN p : n # 1 => n - 1 \in DOMAIN Tail(p) /\ p[n] = Tail(p)[n - 1]
  <2>1. TAKE n \in DOMAIN p
  <2>2. HAVE n # 1
  <2>3. n \in 1..Len(p) /\ Len(p) \in Nat
    BY PlanIs
  <2>4. n - 1 \in 1..(Len(p) - 1) /\ (n - 1) + 1 = n
    BY <2>2, <2>3
  <2> QED BY <2>4, PlanIs
<1>3. Head(p) = p[1] /\ 1 \in DOMAIN p
  BY PlanIs
<1>4. ASSUME NEW s \in StepsOf(p) PROVE s \in {Head(p)} \union StepsOf(Tail(p))
  BY <1>2, <1>3, <1>4, SMTT(60) DEF StepsOf
<1>5. ASSUME NEW s \in {Head(p)} \union StepsOf(Tail(p)) PROVE s \in StepsOf(p)
  BY <1>1, <1>3, <1>5 DEF StepsOf
<1> QED BY <1>4, <1>5

(* A finished plan has no steps.                                           *)
LEMMA NoSteps == IsPlan(<<>>) /\ StepsOf(<<>>) = {} /\ \A r : ~Pending(<<>>, r)
BY EmptySeq DEF IsPlan, StepsOf, Pending

(* A plan of one step.                                                     *)
LEMMA OneStep ==
  ASSUME NEW w
  PROVE  IsPlan(<<w>>) /\ StepsOf(<<w>>) = {w} /\ <<w>> # <<>>
<1>1. <<w>> \in Seq({w})
  OBVIOUS
<1>2. IsPlan(<<w>>)
  BY <1>1 DEF IsPlan
<1>3. DOMAIN <<w>> = {1} /\ <<w>>[1] = w
  OBVIOUS
<1>4. StepsOf(<<w>>) = {w}
  BY <1>3 DEF StepsOf
<1> QED BY <1>2, <1>4

(* Two plans, one after the other.                                         *)
LEMMA Joined ==
  ASSUME NEW p, NEW q, IsPlan(p), IsPlan(q)
  PROVE  /\ IsPlan(p \o q) /\ StepsOf(p \o q) = StepsOf(p) \union StepsOf(q)
         /\ Len(p \o q) = Len(p) + Len(q)
         /\ \A n \in 1..(Len(p) + Len(q)) : (p \o q)[n] = IF n <= Len(p) THEN p[n] ELSE q[n - Len(p)]
<1>1. PICK S : p \in Seq(S)
  BY DEF IsPlan
<1>2. PICK T : q \in Seq(T)
  BY DEF IsPlan
<1> DEFINE U == S \union T
<1>3. p \in Seq(U) /\ q \in Seq(U)
  BY <1>1, <1>2, SeqMonotonic
<1> HIDE DEF U
<1>4. /\ p \o q \in Seq(U) /\ Len(p \o q) = Len(p) + Len(q)
      /\ \A n \in 1..(Len(p) + Len(q)) : (p \o q)[n] = IF n <= Len(p) THEN p[n] ELSE q[n - Len(p)]
  BY <1>3, ConcatProperties
<1>5. Len(p) \in Nat /\ Len(q) \in Nat /\ DOMAIN p = 1..Len(p) /\ DOMAIN q = 1..Len(q)
      /\ DOMAIN (p \o q) = 1..(Len(p) + Len(q))
  BY <1>3, <1>4, LenProperties
<1>6. ASSUME NEW n \in DOMAIN (p \o q) PROVE (p \o q)[n] \in StepsOf(p) \union StepsOf(q)
  <2>1. CASE n <= Len(p)
    <3>1. n \in DOMAIN p /\ (p \o q)[n] = p[n]
      BY <1>4, <1>5, <2>1
    <3> QED BY <3>1 DEF StepsOf
  <2>2. CASE ~(n <= Len(p))
    <3>1. n - Len(p) \in DOMAIN q /\ (p \o q)[n] = q[n - Len(p)]
      BY <1>4, <1>5, <2>2
    <3> QED BY <3>1 DEF StepsOf
  <2> QED BY <2>1, <2>2
<1>7. ASSUME NEW n \in DOMAIN p PROVE p[n] \in StepsOf(p \o q)
  <2>1. n \in DOMAIN (p \o q) /\ (p \o q)[n] = p[n]
    BY <1>4, <1>5
  <2> QED BY <2>1 DEF StepsOf
<1>8. ASSUME NEW n \in DOMAIN q PROVE q[n] \in StepsOf(p \o q)
  <2>1. n + Len(p) \in 1..(Len(p) + Len(q)) /\ ~(n + Len(p) <= Len(p)) /\ (n + Len(p)) - Len(p) = n
    BY <1>5
  <2>2. n + Len(p) \in DOMAIN (p \o q) /\ (p \o q)[n + Len(p)] = q[n]
    BY <1>4, <1>5, <2>1
  <2> QED BY <2>2 DEF StepsOf
<1>9. StepsOf(p \o q) = StepsOf(p) \union StepsOf(q)
  BY <1>6, <1>7, <1>8 DEF StepsOf
<1>10. IsPlan(p \o q)
  BY <1>4 DEF IsPlan
<1> QED BY <1>4, <1>9, <1>10

(* A step that is sent unless it is known to be there.                     *)
LEMMA Optional ==
  ASSUME NEW same, NEW w
  PROVE  IsPlan(Unless(same, w)) /\ StepsOf(Unless(same, w)) = IF same THEN {} ELSE {w}
BY NoSteps, OneStep DEF Unless

(* The registers.                                                          *)
Regs == CCD \union {"fixed", "l89", "ctrl", "enable", "levels", "duty"}

(* What a step of a call may put into a register, and what a call that     *)
(* returns PK_OK has put there; in a session also where the driver has no  *)
(* mark for "unknown".                                                     *)
Wants(name, arg, r, v) ==
  \/ name = "ccd" /\ r \in CCD \union {"l89"} /\ v = arg[r]
  \/ name = "ccd" /\ r = "fixed" /\ v = 1
  \/ name = "ccd" /\ r = "ctrl" /\ v.binned = arg.binned /\ v.ir = arg.ir
  \/ name = "lamp" /\ r \in {"enable", "levels", "duty"} /\ v = arg[r]
  \/ name = "acquire" /\ r = "ctrl"
  \/ name \in {"off", "bounded"} /\ r \in {"duty", "enable"} /\ v = 0
  \/ name = "open" /\ r \in {"duty", "l89"} /\ v = 0
  \/ name = "open" /\ r = "enable" /\ v \in {0, 1}

Targets(name, who) ==
  IF name = "ccd" THEN CCD \union {"fixed", "ctrl"} \union IF who = "session" THEN {"l89"} ELSE {}
  ELSE IF name = "lamp" THEN {"levels", "duty"} \union IF who = "session" THEN {"enable"} ELSE {}
  ELSE IF name \in {"off", "bounded"} THEN {"duty", "enable"}
  ELSE IF name = "open" THEN {"duty"} ELSE {}

(* The registers d have what the call wants, or its plan p still sends it. *)
Sends(name, arg, p) ==
  \A s \in StepsOf(p) : \/ Real(s) /\ s.reg \in Regs /\ Wants(name, arg, s.reg, s.val)
                        \/ ~Real(s) /\ name \in {"off", "bounded", "open"}
Goes(name, arg, who, p, d) ==
  /\ Sends(name, arg, p)
  /\ \A r \in Targets(name, who) : Pending(p, r) \/ Wants(name, arg, r, d[r])

(* A lamp is enabled before it is driven, and its drive is zeroed before   *)
(* the enable and the reset.                                               *)
Ordered(name, p) ==
  /\ name = "lamp" => \A n \in DOMAIN p : p[n].reg = "enable" => n = 1
  /\ name \in {"off", "bounded", "open"} =>
       \A m, n \in DOMAIN p : m < n =>
          /\ p[m].reg = "enable" /\ p[m].val = 0 => p[n].reg # "duty"
          /\ p[m].reg = "fifo" => p[n].reg \notin {"enable", "duty"}
  /\ name = "off" => (Pending(p, "enable") \/ Pending(p, "duty") => Pending(p, "fifo"))

(* A register that no step will write is up to date where the driver has   *)
(* no mark for "unknown".                                                  *)
Level(p, d, s) == \A r \in {"enable", "l89"} : Pending(p, r) \/ d[r] = s[r]

Put(d, w) == [d EXCEPT ![w.reg] = w.val]

-----------------------------------------------------------------------------
(* What is left is pending or was the step.                                *)
LEMMA PendingLeft ==
  ASSUME NEW p, IsPlan(p), p # <<>>, NEW r
  PROVE  Pending(p, r) <=> Head(p).reg = r \/ Pending(Tail(p), r)
BY StepsLeft DEF Pending

(* A step is one of the call's.                                            *)
LEMMA HeadIs ==
  ASSUME NEW name, NEW arg, NEW p, IsPlan(p), p # <<>>, Sends(name, arg, p)
  PROVE  /\ Head(p) \in StepsOf(p)
         /\ Real(Head(p)) => Head(p).reg \in Regs /\ Wants(name, arg, Head(p).reg, Head(p).val)
         /\ ~Real(Head(p)) => name \in {"off", "bounded", "open"} /\ Head(p).reg \in {"fifo", "confirm"}
<1>1. Head(p) \in StepsOf(p)
  BY StepsLeft
<1> QED BY <1>1 DEF Sends, Real

(* A step that goes out is done and behind the call, also if it is told    *)
(* otherwise and has to be sent again.                                     *)
LEMMA StepGoes ==
  ASSUME NEW name, NEW arg, NEW who, NEW p, NEW d, IsPlan(p), p # <<>>, DOMAIN d = Regs, Real(Head(p)),
         Goes(name, arg, who, p, d)
  PROVE  /\ Goes(name, arg, who, Tail(p), Put(d, Head(p))) /\ Goes(name, arg, who, p, Put(d, Head(p)))
         /\ DOMAIN Put(d, Head(p)) = Regs
         /\ \A r \in Regs : Put(d, Head(p))[r] = IF r = Head(p).reg THEN Head(p).val ELSE d[r]
<1> DEFINE w == Head(p)
           e == Put(d, w)
<1>1. w.reg \in Regs /\ Wants(name, arg, w.reg, w.val) /\ w \in StepsOf(p)
  BY HeadIs DEF Goes
<1>2. DOMAIN e = Regs /\ \A r \in Regs : e[r] = IF r = w.reg THEN w.val ELSE d[r]
  BY <1>1 DEF Put
<1>3. Targets(name, who) \subseteq Regs
  BY DEF Targets, Regs, CCD
<1>4. \A r \in Targets(name, who) : (Pending(Tail(p), r) \/ w.reg = r) \/ Wants(name, arg, r, d[r])
  BY PendingLeft DEF Goes
<1> HIDE DEF w, e
<1>5. ASSUME NEW r \in Targets(name, who)
      PROVE  /\ Pending(Tail(p), r) \/ Wants(name, arg, r, e[r])
             /\ Pending(p, r) \/ Wants(name, arg, r, e[r])
  <2>1. CASE r = w.reg
    <3>1. e[r] = w.val
      BY <1>2, <1>3, <2>1
    <3> QED BY <1>1, <2>1, <3>1
  <2>2. CASE r # w.reg
    <3>1. e[r] = d[r]
      BY <1>2, <1>3, <2>2
    <3> QED BY <1>4, <1>5, <2>2, <3>1 DEF Goes
  <2> QED BY <2>1, <2>2
<1>6. StepsOf(Tail(p)) \subseteq StepsOf(p)
  BY StepsLeft
<1>7. Sends(name, arg, p) /\ Sends(name, arg, Tail(p))
  BY <1>6 DEF Sends, Goes
<1> QED BY <1>2, <1>5, <1>7 DEF Goes, w, e

(* A command or a read leaves the registers alone.                         *)
LEMMA CommandGoes ==
  ASSUME NEW name, NEW arg, NEW who, NEW p, NEW d, IsPlan(p), p # <<>>, ~Real(Head(p)), Goes(name, arg, who, p, d)
  PROVE  Goes(name, arg, who, Tail(p), d)
<1>1. Head(p).reg \in {"fifo", "confirm"}
  BY DEF Real
<1>2. \A r \in Targets(name, who) : r \notin {"fifo", "confirm"}
  BY DEF Targets, CCD
<1>3. StepsOf(Tail(p)) \subseteq StepsOf(p)
  BY StepsLeft
<1> QED BY <1>1, <1>2, <1>3, PendingLeft DEF Goes, Sends

(* The rest of a plan has the plan's order.                                *)
LEMMA OrderLeft ==
  ASSUME NEW name, NEW p, IsPlan(p), p # <<>>, Ordered(name, p)
  PROVE  /\ Ordered(name, Tail(p))
         /\ name = "lamp" => ~Pending(Tail(p), "enable")
         /\ name \in {"off", "bounded", "open"} =>
              /\ Head(p).reg = "enable" /\ Head(p).val = 0 => ~Pending(Tail(p), "duty")
              /\ Head(p).reg = "fifo" => ~Pending(Tail(p), "enable") /\ ~Pending(Tail(p), "duty")
<1> DEFINE q == Tail(p)
<1>1. \A n \in DOMAIN q : n + 1 \in DOMAIN p /\ q[n] = p[n + 1] /\ n \in Nat /\ n >= 1 /\ 1 < n + 1
  BY PlanIs
<1>2. 1 \in DOMAIN p /\ p[1] = Head(p)
  BY PlanIs
<1>3. \A r : Pending(q, r) => \E n \in DOMAIN q : q[n].reg = r
  BY DEF Pending, StepsOf
<1> HIDE DEF q
<1>4. name = "lamp" => ~Pending(q, "enable")
  BY <1>1, <1>3 DEF Ordered
<1>5. name = "lamp" => \A n \in DOMAIN q : q[n].reg # "enable"
  BY <1>1 DEF Ordered
<1>6. ASSUME name \in {"off", "bounded", "open"}
      PROVE  /\ Head(p).reg = "enable" /\ Head(p).val = 0 => ~Pending(q, "duty")
             /\ Head(p).reg = "fifo" => ~Pending(q, "enable") /\ ~Pending(q, "duty")
  BY <1>1, <1>2, <1>3, <1>6 DEF Ordered
<1>7. ASSUME name \in {"off", "bounded", "open"}, NEW m \in DOMAIN q, NEW n \in DOMAIN q, m < n
      PROVE  /\ q[m].reg = "enable" /\ q[m].val = 0 => q[n].reg # "duty"
             /\ q[m].reg = "fifo" => q[n].reg \notin {"enable", "duty"}
  <2>1. m + 1 \in DOMAIN p /\ n + 1 \in DOMAIN p /\ m + 1 < n + 1 /\ q[m] = p[m + 1] /\ q[n] = p[n + 1]
    BY <1>1, <1>7
  <2> QED BY <1>7, <2>1 DEF Ordered
<1>8. name = "off" => (Pending(q, "enable") \/ Pending(q, "duty") => Pending(q, "fifo"))
  BY <1>6, PendingLeft DEF Ordered, q
<1>9. Ordered(name, q)
  BY <1>5, <1>7, <1>8 DEF Ordered
<1> QED BY <1>4, <1>6, <1>9 DEF q

(* What a step leaves level stays so, and it levels what it writes.        *)
LEMMA StaysLevel ==
  ASSUME NEW p, NEW d, NEW s, NEW t, IsPlan(p), p # <<>>, DOMAIN d = Regs, DOMAIN s = Regs, Head(p).reg \in Regs,
         Level(p, d, s), t["enable"] = Put(s, Head(p))["enable"], t["l89"] = Put(s, Head(p))["l89"]
  PROVE  Level(Tail(p), Put(d, Head(p)), t) /\ Level(p, Put(d, Head(p)), s)
<1>1. {"enable", "l89"} \subseteq Regs
  BY DEF Regs
<1>2. \A r \in Regs : /\ Put(d, Head(p))[r] = IF r = Head(p).reg THEN Head(p).val ELSE d[r]
                      /\ Put(s, Head(p))[r] = IF r = Head(p).reg THEN Head(p).val ELSE s[r]
  BY DEF Put
<1> QED BY <1>1, <1>2, PendingLeft DEF Level

(* The registers, and the two commands that are none.                      *)
LEMMA SomeRegs ==
  CCD \subseteq Regs /\ {"fixed", "l89", "ctrl", "enable", "levels", "duty"} \subseteq Regs
  /\ \A r \in Regs : r \notin {"fifo", "confirm"}
BY DEF Regs, CCD

(* A write of the CCD sequence: it is one of the call's.                   *)
LEMMA CcdWrite ==
  ASSUME NEW c
  PROVE  /\ \A r \in CCD \union {"l89"} :
              LET w == Write(r, c[r]) IN w.reg = r /\ Real(w) /\ r \in Regs /\ Wants("ccd", c, w.reg, w.val)
         /\ LET w == Write("fixed", 1) IN w.reg = "fixed" /\ Real(w) /\ Wants("ccd", c, w.reg, w.val)
         /\ \A acq : LET w == Write("ctrl", Ctrl(c, acq))
                     IN  w.reg = "ctrl" /\ Real(w) /\ Wants("ccd", c, w.reg, w.val)
<1>1. \A r, v : Write(r, v).reg = r /\ Write(r, v).val = v
  BY DEF Write
<1>2. \A r \in Regs : \A v : Real(Write(r, v))
  BY <1>1, SomeRegs DEF Real
<1>3. \A acq : Ctrl(c, acq).binned = c.binned /\ Ctrl(c, acq).ir = c.ir
  BY DEF Ctrl
<1>4. "fixed" \in Regs /\ "ctrl" \in Regs /\ \A r \in CCD \union {"l89"} : r \in Regs
  BY SomeRegs
<1>5. \A r \in CCD \union {"l89"} : \A v : v = c[r] => Wants("ccd", c, r, v)
  BY DEF Wants
<1>6. Wants("ccd", c, "fixed", 1) /\ \A v : v.binned = c.binned /\ v.ir = c.ir => Wants("ccd", c, "ctrl", v)
  BY DEF Wants
<1> QED BY <1>1, <1>2, <1>3, <1>4, <1>5, <1>6

(* pk_host_ccd_configure's plan: the window, the AFE and the control word, *)
(* and the flag where it differs.                                          *)
LEMMA ConfigureGoes ==
  ASSUME NEW c, caller = "session" => Level(<<>>, dev, shadow)
  PROVE  LET p == ConfigurePlan(c)
         IN  IsPlan(p) /\ p # <<>> /\ Goes("ccd", c, caller, p, dev) /\ Ordered("ccd", p)
<1> DEFINE six == <<Write("off", c.off), Write("end", c.end), Write("int", c.int), Write("fixed", 1),
                    Write("gain", c.gain), Write("offs", c.offs)>>
           last == <<Write("ctrl", Ctrl(c, FALSE))>>
           p == ConfigurePlan(c)
<1>1. IsPlan(six) /\ StepsOf(six) = {Write("off", c.off), Write("end", c.end), Write("int", c.int),
         Write("fixed", 1), Write("gain", c.gain), Write("offs", c.offs)} /\ Len(six) = 6
  <2>1. DOMAIN six = 1..6 /\ Len(six) = 6
    OBVIOUS
  <2>2. six \in Seq({six[n] : n \in 1..6})
    BY <2>1
  <2>3. DOMAIN six = {1, 2, 3, 4, 5, 6}
    BY <2>1
  <2>4. /\ six[1] = Write("off", c.off) /\ six[2] = Write("end", c.end) /\ six[3] = Write("int", c.int)
        /\ six[4] = Write("fixed", 1) /\ six[5] = Write("gain", c.gain) /\ six[6] = Write("offs", c.offs)
    OBVIOUS
  <2> HIDE DEF six
  <2>5. StepsOf(six) = {six[1], six[2], six[3], six[4], six[5], six[6]}
    BY <2>3 DEF StepsOf
  <2>6. IsPlan(six)
    BY <2>2 DEF IsPlan
  <2> QED BY <2>1, <2>4, <2>5, <2>6
<1>2. IsPlan(last) /\ StepsOf(last) = {Write("ctrl", Ctrl(c, FALSE))}
  BY OneStep
<1>3. IsPlan(Flag(c)) /\ StepsOf(Flag(c)) = IF shadow.l89 = c.l89 THEN {} ELSE {Write("l89", c.l89)}
  BY Optional DEF Flag
<1>4. p = (six \o Flag(c)) \o last
  BY DEF ConfigurePlan
<1> HIDE DEF six, last, p
<1>5. IsPlan(six \o Flag(c)) /\ StepsOf(six \o Flag(c)) = StepsOf(six) \union StepsOf(Flag(c))
  BY <1>1, <1>3, Joined
<1>6. IsPlan(p) /\ StepsOf(p) = (StepsOf(six) \union StepsOf(Flag(c))) \union StepsOf(last)
  BY <1>2, <1>4, <1>5, Joined
<1>7. \A s \in StepsOf(p) : \/ \E r \in CCD \union {"l89"} : s = Write(r, c[r])
                            \/ s = Write("fixed", 1) \/ s = Write("ctrl", Ctrl(c, FALSE))
  BY <1>1, <1>2, <1>3, <1>6 DEF CCD
<1>8. Sends("ccd", c, p)
  <2> SUFFICES ASSUME NEW s \in StepsOf(p)
               PROVE  Real(s) /\ s.reg \in Regs /\ Wants("ccd", c, s.reg, s.val)
    BY DEF Sends
  <2>2. CASE \E r \in CCD \union {"l89"} : s = Write(r, c[r])
    BY <2>2, CcdWrite
  <2>3. CASE s = Write("fixed", 1)
    BY <2>3, CcdWrite, SomeRegs
  <2>4. CASE s = Write("ctrl", Ctrl(c, FALSE))
    BY <2>4, CcdWrite, SomeRegs
  <2> QED BY <1>7, <2>2, <2>3, <2>4
<1>9. \A r \in CCD \union {"fixed", "ctrl"} : Pending(p, r)
  <2>1. \A r \in CCD : Write(r, c[r]) \in StepsOf(p)
    BY <1>1, <1>6 DEF CCD
  <2>2. Write("fixed", 1) \in StepsOf(p) /\ Write("ctrl", Ctrl(c, FALSE)) \in StepsOf(p)
    BY <1>1, <1>2, <1>6
  <2> QED BY <2>1, <2>2, CcdWrite DEF Pending
<1>10. caller = "session" => Pending(p, "l89") \/ Wants("ccd", c, "l89", dev["l89"])
  <2>1. CASE shadow.l89 = c.l89 /\ caller = "session"
    <3>1. dev["l89"] = c["l89"]
      BY <2>1, NoSteps DEF Level
    <3> QED BY <3>1 DEF Wants
  <2>2. CASE shadow.l89 # c.l89
    <3>1. Write("l89", c.l89) \in StepsOf(p)
      BY <1>3, <1>6, <2>2
    <3> QED BY <3>1, CcdWrite DEF Pending
  <2> QED BY <2>1, <2>2
<1>11. Goes("ccd", c, caller, p, dev)
  BY <1>8, <1>9, <1>10 DEF Goes, Targets
<1>12. p # <<>>
  BY <1>9, NoSteps
<1>13. Ordered("ccd", p)
  BY DEF Ordered
<1> QED BY <1>6, <1>11, <1>12, <1>13 DEF p

(* pk_host_ccd_update's plan: what it leaves out the boards have already.  *)
LEMMA UpdateGoes ==
  ASSUME NEW c, caller = "session" => Level(<<>>, dev, shadow), ShadowsAreTrue
  PROVE  LET p == UpdatePlan(c)
         IN  /\ IsPlan(p) /\ Goes("ccd", c, caller, p, dev) /\ Ordered("ccd", p)
<1>1. CASE ~MayUpdate
  BY <1>1, ConfigureGoes DEF UpdatePlan
<1>2. CASE MayUpdate
  <2> DEFINE want == Ctrl(c, shadow.ctrl.acq)
             Changed(r) == Unless(c[r] = shadow[r], Write(r, c[r]))
             word == Unless(want = shadow.ctrl, Write("ctrl", want))
             p == UpdatePlan(c)
  <2>1. p = (((((word \o Changed("int")) \o Changed("off")) \o Changed("end")) \o Flag(c)) \o Changed("offs"))
              \o Changed("gain")
    BY <1>2 DEF UpdatePlan
  <2>2. IsPlan(word) /\ StepsOf(word) = IF want = shadow.ctrl THEN {} ELSE {Write("ctrl", want)}
    BY Optional
  <2>3. \A r : IsPlan(Changed(r)) /\ StepsOf(Changed(r)) = IF c[r] = shadow[r] THEN {} ELSE {Write(r, c[r])}
    BY Optional
  <2>4. IsPlan(Flag(c)) /\ StepsOf(Flag(c)) = IF shadow.l89 = c.l89 THEN {} ELSE {Write("l89", c.l89)}
    BY Optional DEF Flag
  <2>5. Wants("ccd", c, "ctrl", want) /\ Write("ctrl", want).reg = "ctrl" /\ Real(Write("ctrl", want))
        /\ Wants("ccd", c, Write("ctrl", want).reg, Write("ctrl", want).val)
    BY CcdWrite DEF Ctrl, Wants
  <2> HIDE DEF p, word, Changed, want
  <2>6. IsPlan(p) /\ StepsOf(p) = StepsOf(word) \union StepsOf(Changed("int")) \union StepsOf(Changed("off"))
             \union StepsOf(Changed("end")) \union StepsOf(Flag(c)) \union StepsOf(Changed("offs"))
             \union StepsOf(Changed("gain"))
    <3>1. LET q == word \o Changed("int")
          IN  IsPlan(q) /\ StepsOf(q) = StepsOf(word) \union StepsOf(Changed("int"))
      BY <2>2, <2>3, Joined
    <3>2. LET q == (word \o Changed("int")) \o Changed("off")
          IN  IsPlan(q) /\ StepsOf(q) = StepsOf(word \o Changed("int")) \union StepsOf(Changed("off"))
      BY <2>3, <3>1, Joined
    <3>3. LET q == ((word \o Changed("int")) \o Changed("off")) \o Changed("end")
          IN  IsPlan(q) /\ StepsOf(q) = StepsOf((word \o Changed("int")) \o Changed("off"))
                                          \union StepsOf(Changed("end"))
      BY <2>3, <3>2, Joined
    <3> DEFINE four == ((word \o Changed("int")) \o Changed("off")) \o Changed("end")
    <3> HIDE DEF four
    <3>4. LET q == four \o Flag(c) IN  IsPlan(q) /\ StepsOf(q) = StepsOf(four) \union StepsOf(Flag(c))
      BY <2>4, <3>3, Joined DEF four
    <3>5. LET q == (four \o Flag(c)) \o Changed("offs")
          IN  IsPlan(q) /\ StepsOf(q) = StepsOf(four \o Flag(c)) \union StepsOf(Changed("offs"))
      BY <2>3, <3>4, Joined
    <3>6. LET q == ((four \o Flag(c)) \o Changed("offs")) \o Changed("gain")
          IN  IsPlan(q) /\ StepsOf(q) = StepsOf((four \o Flag(c)) \o Changed("offs"))
                                          \union StepsOf(Changed("gain"))
      BY <2>3, <3>5, Joined
    <3>7. p = ((four \o Flag(c)) \o Changed("offs")) \o Changed("gain")
      BY <2>1 DEF four
    <3>8. StepsOf(four) = StepsOf(word) \union StepsOf(Changed("int")) \union StepsOf(Changed("off"))
             \union StepsOf(Changed("end"))
      BY <3>1, <3>2, <3>3 DEF four
    <3> QED BY <3>4, <3>5, <3>6, <3>7, <3>8
  <2>7. \A s \in StepsOf(p) : s = Write("ctrl", want) \/ \E r \in CCD \union {"l89"} : s = Write(r, c[r])
    BY <2>2, <2>3, <2>4, <2>6 DEF CCD
  <2>8. Sends("ccd", c, p)
    BY <2>5, <2>7, CcdWrite, SomeRegs DEF Sends
  <2>9. \A r \in CCD : c[r] = shadow[r] \/ Write(r, c[r]) \in StepsOf(p)
    BY <2>3, <2>6 DEF CCD
  <2>10. \A r \in CCD : Pending(p, r) \/ Wants("ccd", c, r, dev[r])
    <3>1. \A r \in CCD : dev[r] = shadow[r]
      BY <1>2 DEF MayUpdate, ShadowsAreTrue
    <3>2. \A r \in CCD : Write(r, c[r]).reg = r
      BY CcdWrite
    <3>3. \A r \in CCD : \A v : v = c[r] => Wants("ccd", c, r, v)
      BY DEF Wants
    <3> QED BY <2>9, <3>1, <3>2, <3>3 DEF Pending
  <2>11. Wants("ccd", c, "fixed", dev["fixed"])
    BY <1>2 DEF MayUpdate, ShadowsAreTrue, Wants
  <2>12. Pending(p, "ctrl") \/ Wants("ccd", c, "ctrl", dev["ctrl"])
    <3>1. dev["ctrl"] = shadow["ctrl"]
      BY <1>2 DEF MayUpdate, ShadowsAreTrue, Marked
    <3>2. CASE want = shadow.ctrl
      BY <2>5, <3>1, <3>2
    <3>3. CASE want # shadow.ctrl
      BY <2>2, <2>5, <2>6, <3>3 DEF Pending
    <3> QED BY <3>2, <3>3
  <2>13. caller = "session" => Pending(p, "l89") \/ Wants("ccd", c, "l89", dev["l89"])
    <3>1. CASE shadow.l89 = c.l89 /\ caller = "session"
      <4>1. dev["l89"] = c["l89"]
        BY <3>1, NoSteps DEF Level
      <4> QED BY <4>1 DEF Wants
    <3>2. CASE shadow.l89 # c.l89
      <4>1. Write("l89", c.l89) \in StepsOf(p)
        BY <2>4, <2>6, <3>2
      <4> QED BY <4>1, CcdWrite DEF Pending
    <3> QED BY <3>1, <3>2
  <2>14. Goes("ccd", c, caller, p, dev)
    BY <2>8, <2>10, <2>11, <2>12, <2>13 DEF Goes, Targets
  <2>15. Ordered("ccd", p)
    BY DEF Ordered
  <2> QED BY <2>6, <2>14, <2>15 DEF p
<1> QED BY <1>1, <1>2

(* The lamp's plans: the enable first.                                     *)
LEMMA LampWrite ==
  ASSUME NEW l
  PROVE  \A r \in {"enable", "levels", "duty"} :
            LET w == Write(r, l[r])
            IN  w.reg = r /\ Real(w) /\ r \in Regs /\ Wants("lamp", l, w.reg, w.val) /\ Wants("lamp", l, r, l[r])
<1>1. \A r, v : Write(r, v).reg = r /\ Write(r, v).val = v
  BY DEF Write
<1>2. \A r \in Regs : \A v : Real(Write(r, v))
  BY <1>1, SomeRegs DEF Real
<1>3. \A r \in {"enable", "levels", "duty"} : r \in Regs /\ Wants("lamp", l, r, l[r])
  BY SomeRegs DEF Wants
<1> QED BY <1>1, <1>2, <1>3

(* Each of the three goes out, or is left out because it is there already. *)
LEMMA LampGoes ==
  ASSUME NEW l, NEW a, NEW b, NEW d, NEW p, p = a \o b \o d,
         a = <<Write("enable", l.enable)>> \/ (a = <<>> /\ (caller = "session" => dev.enable = l.enable)),
         b = <<Write("levels", l.levels)>> \/ (b = <<>> /\ dev.levels = l.levels),
         d = <<Write("duty", l.duty)>> \/ (d = <<>> /\ dev.duty = l.duty)
  PROVE  IsPlan(p) /\ Goes("lamp", l, caller, p, dev) /\ Ordered("lamp", p)
<1>1. /\ IsPlan(a) /\ StepsOf(a) = IF a = <<>> THEN {} ELSE {Write("enable", l.enable)}
      /\ IsPlan(b) /\ StepsOf(b) = IF b = <<>> THEN {} ELSE {Write("levels", l.levels)}
      /\ IsPlan(d) /\ StepsOf(d) = IF d = <<>> THEN {} ELSE {Write("duty", l.duty)}
  BY OneStep, NoSteps
<1>2. Len(a) \in Nat /\ Len(a) <= 1
  <2>1. Len(<<Write("enable", l.enable)>>) = 1 /\ Len(<<>>) = 0
    OBVIOUS
  <2> QED BY <2>1
<1>3. p = (a \o b) \o d
  OBVIOUS
<1>4. /\ IsPlan(a \o b) /\ StepsOf(a \o b) = StepsOf(a) \union StepsOf(b) /\ Len(a \o b) = Len(a) + Len(b)
      /\ \A n \in 1..(Len(a) + Len(b)) : (a \o b)[n] = IF n <= Len(a) THEN a[n] ELSE b[n - Len(a)]
  BY <1>1, Joined
<1>5. /\ IsPlan(p) /\ StepsOf(p) = StepsOf(a) \union StepsOf(b) \union StepsOf(d)
      /\ Len(p) = Len(a \o b) + Len(d)
      /\ \A n \in 1..(Len(a \o b) + Len(d)) :
            p[n] = IF n <= Len(a \o b) THEN (a \o b)[n] ELSE d[n - Len(a \o b)]
  <2> DEFINE q == a \o b
  <2>1. IsPlan(q) /\ StepsOf(q) = StepsOf(a) \union StepsOf(b) /\ p = q \o d
    BY <1>3, <1>4
  <2> HIDE DEF q
  <2>2. /\ IsPlan(q \o d) /\ StepsOf(q \o d) = StepsOf(q) \union StepsOf(d) /\ Len(q \o d) = Len(q) + Len(d)
        /\ \A n \in 1..(Len(q) + Len(d)) : (q \o d)[n] = IF n <= Len(q) THEN q[n] ELSE d[n - Len(q)]
    BY <1>1, <2>1, Joined
  <2> QED BY <2>1, <2>2 DEF q
<1>6. \A s \in StepsOf(p) : \E r \in {"enable", "levels", "duty"} : s = Write(r, l[r])
  BY <1>1, <1>5
<1>7. Sends("lamp", l, p)
  BY <1>6, LampWrite DEF Sends
<1>8. \A r \in {"levels", "duty"} : dev[r] = l[r] \/ Write(r, l[r]) \in StepsOf(p)
  <2>1. (b # <<>> => Write("levels", l.levels) \in StepsOf(p))
        /\ (d # <<>> => Write("duty", l.duty) \in StepsOf(p))
    BY <1>1, <1>5
  <2>2. (b = <<>> => dev.levels = l.levels) /\ (d = <<>> => dev.duty = l.duty)
    BY OneStep
  <2> QED BY <2>1, <2>2
<1>9. caller = "session" => dev["enable"] = l["enable"] \/ Write("enable", l["enable"]) \in StepsOf(p)
  <2>1. CASE a = <<>>
    <3>1. a # <<Write("enable", l.enable)>>
      BY <2>1, OneStep
    <3> QED BY <3>1
  <2>2. CASE a # <<>>
    <3>1. Write("enable", l.enable) \in StepsOf(p)
      BY <1>1, <1>5, <2>2
    <3> QED BY <3>1
  <2> QED BY <2>1, <2>2
<1>10. Goes("lamp", l, caller, p, dev)
  <2>1. \A r \in {"levels", "duty"} : Pending(p, r) \/ Wants("lamp", l, r, dev[r])
    BY <1>8, LampWrite DEF Pending
  <2>2. caller = "session" => Pending(p, "enable") \/ Wants("lamp", l, "enable", dev["enable"])
    BY <1>9, LampWrite DEF Pending
  <2> QED BY <1>7, <2>1, <2>2 DEF Goes, Targets
<1>11. ASSUME NEW n \in DOMAIN p, n # 1
       PROVE  p[n].reg # "enable"
  <2>1. \A s \in StepsOf(b) \union StepsOf(d) : s.reg # "enable"
    BY <1>1, LampWrite
  <2>2. /\ DOMAIN p = 1..Len(p) /\ DOMAIN b = 1..Len(b) /\ DOMAIN d = 1..Len(d)
        /\ Len(b) \in Nat /\ Len(d) \in Nat
    BY <1>1, <1>5, PlanIs
  <2>3. CASE n <= Len(a \o b)
    <3>1. ~(n <= Len(a)) /\ n - Len(a) \in DOMAIN b
      <4>1. Len(a \o b) = Len(a) + Len(b) /\ n \in Nat /\ n > 1
        BY <1>4, <1>11, <1>5, <2>2
      <4>2. n <= Len(a) + Len(b) /\ ~(n <= Len(a))
        BY <1>2, <2>3, <4>1
      <4>3. n - Len(a) \in 1..Len(b)
        BY <1>2, <2>2, <4>1, <4>2
      <4> QED BY <2>2, <4>2, <4>3
    <3>2. p[n] = b[n - Len(a)]
      BY <1>2, <1>4, <1>5, <2>2, <2>3, <3>1
    <3> QED BY <2>1, <3>1, <3>2 DEF StepsOf
  <2>4. CASE ~(n <= Len(a \o b))
    <3>1. n - Len(a \o b) \in DOMAIN d /\ p[n] = d[n - Len(a \o b)]
      BY <1>2, <1>4, <1>5, <2>2, <2>4
    <3> QED BY <2>1, <3>1 DEF StepsOf
  <2> QED BY <2>3, <2>4
<1>12. Ordered("lamp", p)
  BY <1>11 DEF Ordered
<1> QED BY <1>5, <1>10, <1>12

(* The lamp-off's plan and the open's.                                     *)
LEMMA OffIs ==
  /\ IsPlan(OffPlan) /\ Len(OffPlan) = 4
  /\ OffPlan[1] = WriteAgain("duty") /\ OffPlan[2] = WriteAgain("enable")
  /\ OffPlan[3] = WriteAgain("fifo") /\ OffPlan[4] = WriteAgain("confirm")
<1>1. OffPlan \in Seq({OffPlan[n] : n \in 1..4}) /\ Len(OffPlan) = 4
  BY DEF OffPlan
<1>2. IsPlan(OffPlan)
  BY <1>1 DEF IsPlan
<1>3. /\ OffPlan[1] = WriteAgain("duty") /\ OffPlan[2] = WriteAgain("enable")
      /\ OffPlan[3] = WriteAgain("fifo") /\ OffPlan[4] = WriteAgain("confirm")
  BY DEF OffPlan
<1> QED BY <1>1, <1>2, <1>3

(* The open's steps, one by one.                                           *)
LEMMA OpenIs ==
  /\ IsPlan(OpenPlan) /\ Len(OpenPlan) = 7
  /\ OpenPlan[1] = Write("enable", 1) /\ OpenPlan[2] = Write("duty", 0)
  /\ OpenPlan[3] = WriteAgain("duty") /\ OpenPlan[4] = WriteAgain("enable")
  /\ OpenPlan[5] = WriteAgain("fifo") /\ OpenPlan[6] = WriteAgain("confirm")
  /\ OpenPlan[7] = Write("l89", 0)
<1> DEFINE two == <<Write("enable", 1), Write("duty", 0)>>
           last == <<Write("l89", 0)>>
<1>1. two \in Seq({two[1], two[2]}) /\ Len(two) = 2
      /\ two[1] = Write("enable", 1) /\ two[2] = Write("duty", 0)
  OBVIOUS
<1>2. IsPlan(two)
  BY <1>1 DEF IsPlan
<1>3. IsPlan(last) /\ Len(last) = 1 /\ last[1] = Write("l89", 0)
  BY OneStep
<1>4. OpenPlan = (two \o OffPlan) \o last
  BY DEF OpenPlan
<1> HIDE DEF two, last
<1>5. /\ IsPlan(two \o OffPlan) /\ Len(two \o OffPlan) = 6
      /\ \A n \in 1..6 : (two \o OffPlan)[n] = IF n <= 2 THEN two[n] ELSE OffPlan[n - 2]
  <2>1. /\ IsPlan(two \o OffPlan) /\ Len(two \o OffPlan) = Len(two) + Len(OffPlan)
        /\ \A n \in 1..(Len(two) + Len(OffPlan)) :
              (two \o OffPlan)[n] = IF n <= Len(two) THEN two[n] ELSE OffPlan[n - Len(two)]
    BY <1>2, OffIs, Joined
  <2> QED BY <1>1, <2>1, OffIs
<1> DEFINE six == two \o OffPlan
<1>6. /\ six[1] = two[1] /\ six[2] = two[2] /\ six[3] = OffPlan[1] /\ six[4] = OffPlan[2]
      /\ six[5] = OffPlan[3] /\ six[6] = OffPlan[4]
  BY <1>5
<1>7. IsPlan(six) /\ Len(six) = 6 /\ OpenPlan = six \o last
  BY <1>4, <1>5
<1> HIDE DEF six
<1>8. /\ IsPlan(OpenPlan) /\ Len(OpenPlan) = 7
      /\ \A n \in 1..7 : OpenPlan[n] = IF n <= 6 THEN six[n] ELSE last[n - 6]
  <2>1. /\ IsPlan(six \o last) /\ Len(six \o last) = Len(six) + Len(last)
        /\ \A n \in 1..(Len(six) + Len(last)) :
              (six \o last)[n] = IF n <= Len(six) THEN six[n] ELSE last[n - Len(six)]
    BY <1>3, <1>7, Joined
  <2> QED BY <1>3, <1>7, <2>1
<1>9. /\ OpenPlan[1] = six[1] /\ OpenPlan[2] = six[2] /\ OpenPlan[3] = six[3] /\ OpenPlan[4] = six[4]
      /\ OpenPlan[5] = six[5] /\ OpenPlan[6] = six[6] /\ OpenPlan[7] = last[1]
  BY <1>8
<1> QED BY <1>1, <1>3, <1>6, <1>8, <1>9, OffIs

(* A lamp-off that is about to begin zeroes the duty, then the enable.     *)
LEMMA OffGoes ==
  ASSUME NEW name \in {"off", "bounded"}, NEW who, NEW d
  PROVE  /\ IsPlan(OffPlan) /\ OffPlan # <<>> /\ Pending(OffPlan, "fifo")
         /\ Goes(name, {}, who, OffPlan, d) /\ Ordered(name, OffPlan)
<1>1. \A r : WriteAgain(r).reg = r /\ WriteAgain(r).val = 0 /\ (Real(WriteAgain(r)) <=> r \notin {"fifo", "confirm"})
  BY DEF WriteAgain, Real
<1>2. DOMAIN OffPlan = 1..4
  BY OffIs, PlanIs
<1>3. DOMAIN OffPlan = {1, 2, 3, 4}
  BY <1>2
<1>4. StepsOf(OffPlan) = {WriteAgain("duty"), WriteAgain("enable"), WriteAgain("fifo"), WriteAgain("confirm")}
  BY <1>3, OffIs DEF StepsOf
<1>5. Pending(OffPlan, "fifo") /\ Pending(OffPlan, "duty") /\ Pending(OffPlan, "enable")
  BY <1>1, <1>4 DEF Pending
<1>6. Sends(name, {}, OffPlan)
  BY <1>1, <1>4, SomeRegs DEF Sends, Wants
<1>7. Goes(name, {}, who, OffPlan, d)
  BY <1>5, <1>6 DEF Goes, Targets
<1>8. \A n \in DOMAIN OffPlan : /\ OffPlan[n].reg = "enable" => n = 2
                                /\ OffPlan[n].reg = "duty" => n = 1
                                /\ OffPlan[n].reg = "fifo" => n = 3
  BY <1>1, <1>3, OffIs
<1>9. Ordered(name, OffPlan)
  BY <1>2, <1>5, <1>8 DEF Ordered
<1> QED BY <1>5, <1>7, <1>9, OffIs, NoSteps

(* An open that is about to begin writes all that has no mark.             *)
LEMMA OpenGoes ==
  ASSUME NEW who, NEW d, NEW s
  PROVE  /\ IsPlan(OpenPlan) /\ OpenPlan # <<>> /\ Goes("open", {}, who, OpenPlan, d) /\ Ordered("open", OpenPlan)
         /\ Level(OpenPlan, d, s)
<1>1. \A r : WriteAgain(r).reg = r /\ WriteAgain(r).val = 0 /\ (Real(WriteAgain(r)) <=> r \notin {"fifo", "confirm"})
  BY DEF WriteAgain, Real
<1>2. \A r, v : Write(r, v).reg = r /\ Write(r, v).val = v /\ (Real(Write(r, v)) <=> r \notin {"fifo", "confirm"})
  BY DEF Write, Real
<1>3. DOMAIN OpenPlan = 1..7
  BY OpenIs, PlanIs
<1>4. DOMAIN OpenPlan = {1, 2, 3, 4, 5, 6, 7}
  BY <1>3
<1>5. StepsOf(OpenPlan) = {Write("enable", 1), Write("duty", 0), WriteAgain("duty"), WriteAgain("enable"),
                           WriteAgain("fifo"), WriteAgain("confirm"), Write("l89", 0)}
  <2>1. StepsOf(OpenPlan) = {OpenPlan[1], OpenPlan[2], OpenPlan[3], OpenPlan[4], OpenPlan[5], OpenPlan[6],
                             OpenPlan[7]}
    BY <1>4 DEF StepsOf
  <2> QED BY <2>1, OpenIs
<1>6. Pending(OpenPlan, "duty") /\ Pending(OpenPlan, "enable") /\ Pending(OpenPlan, "l89")
  BY <1>1, <1>2, <1>5 DEF Pending
<1>7. Sends("open", {}, OpenPlan)
  <2> SUFFICES ASSUME NEW w \in StepsOf(OpenPlan)
               PROVE  \/ Real(w) /\ w.reg \in Regs /\ Wants("open", {}, w.reg, w.val)
                      \/ ~Real(w) /\ "open" \in {"off", "bounded", "open"}
    BY DEF Sends
  <2>1. \/ w.reg = "enable" /\ w.val \in {0, 1}
        \/ w.reg \in {"duty", "l89"} /\ w.val = 0
        \/ ~Real(w)
    <3>1. CASE w \in {Write("enable", 1), Write("duty", 0), Write("l89", 0)}
      BY <1>2, <3>1
    <3>2. CASE w \in {WriteAgain("duty"), WriteAgain("enable"), WriteAgain("fifo"), WriteAgain("confirm")}
      BY <1>1, <3>2
    <3> QED BY <1>5, <3>1, <3>2
  <2>2. w.reg \in {"enable", "duty", "l89"} => Real(w) /\ w.reg \in Regs
    BY SomeRegs DEF Real
  <2> QED BY <2>1, <2>2 DEF Wants
<1>8. Goes("open", {}, who, OpenPlan, d)
  BY <1>6, <1>7 DEF Goes, Targets
<1>9. \A n \in DOMAIN OpenPlan : /\ OpenPlan[n].reg = "enable" /\ OpenPlan[n].val = 0 => n = 4
                                 /\ OpenPlan[n].reg = "enable" => n <= 4
                                 /\ OpenPlan[n].reg = "duty" => n <= 3
                                 /\ OpenPlan[n].reg = "fifo" => n = 5
  BY <1>1, <1>2, <1>4, OpenIs
<1>10. Ordered("open", OpenPlan)
  BY <1>3, <1>9 DEF Ordered
<1>11. Level(OpenPlan, d, s)
  BY <1>6 DEF Level
<1> QED BY <1>6, <1>8, <1>10, <1>11, OpenIs, NoSteps

-----------------------------------------------------------------------------
(* Boards: the invariant                                                   *)

(* A call under way: what it has not sent yet, the registers have.         *)
CallOk(o, who, d) ==
  /\ o = [name |-> o.name, arg |-> o.arg, plan |-> o.plan, tries |-> o.tries, leave |-> o.leave]
  /\ IsPlan(o.plan) /\ o.plan # <<>>
  /\ o.name \in {"ccd", "lamp", "acquire", "off", "bounded", "open"}
  /\ Goes(o.name, o.arg, who, o.plan, d)
  /\ Ordered(o.name, o.plan)

Registers == caller \in {"session", "tool"} /\ DOMAIN dev = Regs /\ DOMAIN shadow = Regs
CallIs    == op = NoCall \/ (CallOk(op, caller, dev) /\ res = Nothing)
WhoCalls ==
  /\ op.name = "ccd" => "ccd" \notin known
  /\ op.name = "lamp" => op.arg \in LIGHTS
  /\ op.name \in {"open", "bounded"} => caller = "session" /\ phase = "closed"
Coherent == caller = "session" /\ (phase = "open" \/ op.name = "open") => Level(op.plan, dev, shadow)
Darkens  == op.name = "off" => Pending(op.plan, "fifo") \/ reload \/ ~lit

BoardsInv == /\ Registers /\ CallIs /\ WhoCalls /\ Coherent /\ Darkens
             /\ BoardsAreAsTold

(* What a call has when a register is not pending any more.                *)
LEMMA NotPending ==
  ASSUME NEW name, NEW arg, NEW who, NEW p, NEW d, Goes(name, arg, who, p, d)
  PROVE  /\ name = "ccd" => /\ \A r \in CCD : Pending(p, r) \/ d[r] = arg[r]
                            /\ Pending(p, "fixed") \/ d["fixed"] = 1
                            /\ Pending(p, "ctrl") \/ (d["ctrl"].binned = arg.binned /\ d["ctrl"].ir = arg.ir)
                            /\ who = "session" => Pending(p, "l89") \/ d["l89"] = arg["l89"]
         /\ name = "lamp" => /\ \A r \in {"levels", "duty"} : Pending(p, r) \/ d[r] = arg[r]
                             /\ who = "session" => Pending(p, "enable") \/ d["enable"] = arg["enable"]
         /\ name \in {"off", "bounded", "open"} => Pending(p, "duty") \/ d["duty"] = 0
         /\ name \in {"off", "bounded"} => Pending(p, "enable") \/ d["enable"] = 0
<1>1. name = "ccd" => \A r \in CCD : Pending(p, r) \/ d[r] = arg[r]
  BY DEF Goes, Targets, Wants, CCD
<1>2. name = "ccd" => Pending(p, "fixed") \/ d["fixed"] = 1
  BY DEF Goes, Targets, Wants, CCD
<1>3. name = "ccd" => Pending(p, "ctrl") \/ (d["ctrl"].binned = arg.binned /\ d["ctrl"].ir = arg.ir)
  BY DEF Goes, Targets, Wants, CCD
<1>4. name = "ccd" => (who = "session" => Pending(p, "l89") \/ d["l89"] = arg["l89"])
  BY DEF Goes, Targets, Wants, CCD
<1>5. name = "lamp" => /\ \A r \in {"levels", "duty"} : Pending(p, r) \/ d[r] = arg[r]
                       /\ who = "session" => Pending(p, "enable") \/ d["enable"] = arg["enable"]
  BY DEF Goes, Targets, Wants
<1>6. name \in {"off", "bounded", "open"} => Pending(p, "duty") \/ d["duty"] = 0
  BY DEF Goes, Targets, Wants
<1>7. name \in {"off", "bounded"} => Pending(p, "enable") \/ d["enable"] = 0
  BY DEF Goes, Targets, Wants
<1> QED BY <1>1, <1>2, <1>3, <1>4, <1>5, <1>6, <1>7

(* No call has no name and no plan.                                        *)
LEMMA NoCallIs == NoCall.name = "none" /\ NoCall.plan = <<>>
BY DEF NoCall

(* A call that has just begun or gone on.                                  *)
LEMMA CalledIs ==
  ASSUME NEW name, NEW arg, NEW plan, NEW short
  PROVE  LET o == Called(name, arg, plan, short)
         IN  /\ o.name = name /\ o.arg = arg /\ o.plan = plan
             /\ o = [name |-> o.name, arg |-> o.arg, plan |-> o.plan, tries |-> o.tries, leave |-> o.leave]
BY DEF Called

-----------------------------------------------------------------------------
(* After power-on nothing is believed and nothing is under way.            *)
LEMMA BoardsInitInv == BoardsInit => BoardsInv
<1> SUFFICES ASSUME BoardsInit PROVE BoardsInv
  OBVIOUS
<1>1. Registers
  BY DEF BoardsInit, PowerOn, NoShadows, Registers, Regs, CCD
<1>2. CallIs /\ WhoCalls /\ Darkens
  BY NoCallIs DEF BoardsInit, CallIs, WhoCalls, Darkens
<1>3. Coherent
  BY NoCallIs DEF BoardsInit, Coherent
<1>4. ShadowsAreTrue /\ OkMeansSet
  BY DEF BoardsInit, ShadowsAreTrue, OkMeansSet, Nothing
<1>5. LampEndsDark
  BY DEF BoardsInit, LampEndsDark, Nothing, PowerOn
<1> QED BY <1>1, <1>2, <1>3, <1>4, <1>5 DEF BoardsInv, BoardsAreAsTold

(* A call begins: it has a plan, or nothing to send and is done.           *)
LEMMA CallBegins ==
  ASSUME BoardsInv, NEW name \in {"ccd", "lamp", "acquire"}, NEW arg, NEW p,
         IsPlan(p), Goes(name, arg, caller, p, dev), Ordered(name, p),
         name = "lamp" => arg \in LIGHTS,
         Calls(name, arg, p), known' = IF name = "ccd" THEN CcdKnown(p) ELSE known
  PROVE  BoardsInv'
<1>1. op = NoCall /\ UNCHANGED <<caller, phase, dev, shadow, lit, loaded, reload, reported>>
  BY DEF Calls, NoCallIn, lamp
<1>2. Registers'
  BY <1>1 DEF BoardsInv, Registers
<1>3. ShadowsAreTrue'
  <2>1. known' \subseteq known
    BY DEF CcdKnown
  <2> QED BY <1>1, <2>1 DEF BoardsInv, BoardsAreAsTold, ShadowsAreTrue
<1>4. CASE p = <<>>
  <2>1. op' = NoCall /\ res' = [name |-> name, arg |-> arg]
    BY <1>4 DEF Calls
  <2>2. CallIs' /\ WhoCalls' /\ Darkens'
    BY <2>1, NoCallIs DEF CallIs, WhoCalls, Darkens
  <2>3. Coherent'
    BY <1>1, <2>1, NoCallIs DEF BoardsInv, Coherent
  <2>4. OkMeansSet'
    <3>1. Goes(name, arg, caller, <<>>, dev) /\ dev' = dev /\ caller' = caller
      BY <1>1, <1>4
    <3>2. name = "ccd" => CcdIs(arg) /\ (caller = "session" => dev.l89 = arg.l89)
      BY <3>1, NotPending, NoSteps DEF CcdIs
    <3>3. name = "lamp" => /\ dev.levels = arg.levels /\ dev.duty = arg.duty
                           /\ caller = "session" => dev.enable = arg.enable
      BY <3>1, NotPending, NoSteps
    <3>4. res'.name = name /\ res'.arg = arg
      BY <2>1
    <3> QED BY <3>1, <3>2, <3>3, <3>4 DEF OkMeansSet, CcdIs
  <2>5. LampEndsDark'
    BY <1>1, <2>1 DEF BoardsInv, BoardsAreAsTold, LampEndsDark
  <2> QED BY <1>2, <1>3, <2>2, <2>3, <2>4, <2>5 DEF BoardsInv, BoardsAreAsTold
<1>5. CASE p # <<>>
  <2>1. op' = Called(name, arg, p, FALSE) /\ res' = Nothing
    BY <1>5 DEF Calls
  <2>2. op'.name = name /\ op'.arg = arg /\ op'.plan = p
        /\ op' = [name |-> op'.name, arg |-> op'.arg, plan |-> op'.plan, tries |-> op'.tries, leave |-> op'.leave]
    BY <2>1 DEF Called
  <2>3. CallOk(op', caller, dev)
    BY <1>5, <2>2 DEF CallOk
  <2>4. CallIs'
    BY <1>1, <2>1, <2>3 DEF CallIs
  <2>5. WhoCalls' /\ Darkens'
    BY <1>1, <1>5, <2>2 DEF WhoCalls, Darkens, CcdKnown
  <2>6. Coherent'
    <3>1. caller = "session" /\ phase = "open" => Level(<<>>, dev, shadow)
      BY <1>1, NoCallIs DEF BoardsInv, Coherent
    <3> QED BY <1>1, <2>2, <3>1, NoSteps DEF Coherent, Level
  <2>7. OkMeansSet' /\ LampEndsDark'
    BY <1>1, <2>1 DEF BoardsInv, BoardsAreAsTold, OkMeansSet, LampEndsDark, Nothing
  <2> QED BY <1>2, <1>3, <2>4, <2>5, <2>6, <2>7 DEF BoardsInv, BoardsAreAsTold
<1> QED BY <1>4, <1>5

(* The lamp-off begins.                                                    *)
LEMMA LampOffInv == ASSUME BoardsInv, NEW short \in BOOLEAN, LampOff(short) PROVE BoardsInv'
<1>1. op = NoCall /\ UNCHANGED <<caller, phase, dev, shadow, known, lit, loaded, reload, reported>>
      /\ op' = Called("off", {}, OffPlan, short) /\ res' = Nothing
  BY DEF LampOff, NoCallIn, lamp
<1>2. op'.name = "off" /\ op'.arg = {} /\ op'.plan = OffPlan
      /\ op' = [name |-> op'.name, arg |-> op'.arg, plan |-> op'.plan, tries |-> op'.tries, leave |-> op'.leave]
  BY <1>1, CalledIs
<1>3. CallOk(op', caller, dev)
  BY <1>2, OffGoes DEF CallOk
<1>4. CallIs' /\ Registers'
  BY <1>1, <1>3 DEF CallIs, BoardsInv, Registers
<1>5. WhoCalls' /\ Darkens'
  BY <1>1, <1>2, OffGoes DEF WhoCalls, Darkens
<1>6. Coherent'
  <2>1. caller = "session" /\ phase = "open" => Level(<<>>, dev, shadow)
    BY <1>1, NoCallIs DEF BoardsInv, Coherent
  <2> QED BY <1>1, <1>2, <2>1, NoSteps DEF Coherent, Level
<1>7. ShadowsAreTrue' /\ OkMeansSet' /\ LampEndsDark'
  BY <1>1 DEF BoardsInv, BoardsAreAsTold, ShadowsAreTrue, OkMeansSet, LampEndsDark, Nothing
<1> QED BY <1>4, <1>5, <1>6, <1>7 DEF BoardsInv, BoardsAreAsTold

(* The scanner is opened again: its plan writes what the driver forgot.    *)
LEMMA OpenAgainInv == ASSUME BoardsInv, OpenAgain PROVE BoardsInv'
<1>1. op = NoCall /\ UNCHANGED <<caller, dev, lit, loaded, reload, reported>>
      /\ shadow' = NoShadows /\ known' = {} /\ res' = Nothing
  BY DEF OpenAgain, NoCallIn, lamp
<1>2. Registers'
  BY <1>1 DEF BoardsInv, Registers, NoShadows, Regs, CCD
<1>3. ShadowsAreTrue' /\ OkMeansSet' /\ LampEndsDark'
  BY <1>1 DEF BoardsInv, BoardsAreAsTold, ShadowsAreTrue, OkMeansSet, LampEndsDark, Nothing
<1>4. CASE caller = "tool"
  <2>1. op' = NoCall
    BY <1>1, <1>4 DEF OpenAgain
  <2>2. CallIs' /\ WhoCalls' /\ Darkens' /\ Coherent'
    BY <1>1, <1>4, <2>1, NoCallIs DEF CallIs, WhoCalls, Darkens, Coherent
  <2> QED BY <1>2, <1>3, <2>2 DEF BoardsInv, BoardsAreAsTold
<1>5. CASE caller # "tool"
  <2>1. phase' = "closed" /\ op' = Called("open", {}, OpenPlan, FALSE)
    BY <1>5 DEF OpenAgain
  <2>2. op'.name = "open" /\ op'.arg = {} /\ op'.plan = OpenPlan
        /\ op' = [name |-> op'.name, arg |-> op'.arg, plan |-> op'.plan, tries |-> op'.tries, leave |-> op'.leave]
    BY <2>1 DEF Called
  <2>3. CallOk(op', caller, dev)
    BY <2>2, OpenGoes DEF CallOk
  <2>4. CallIs'
    BY <1>1, <2>3 DEF CallIs
  <2>5. caller = "session"
    BY <1>5 DEF BoardsInv, Registers
  <2>6. WhoCalls' /\ Darkens'
    BY <1>1, <2>1, <2>2, <2>5 DEF WhoCalls, Darkens
  <2>7. Coherent'
    BY <2>2, OpenGoes DEF Coherent
  <2> QED BY <1>2, <1>3, <2>4, <2>6, <2>7 DEF BoardsInv, BoardsAreAsTold
<1> QED BY <1>4, <1>5

(* The call that is under way.                                             *)
LEMMA UnderWay ==
  ASSUME BoardsInv, ~NoCallIn
  PROVE  /\ CallOk(op, caller, dev) /\ res = Nothing
         /\ Step = Head(op.plan) /\ Later = Tail(op.plan) /\ IsPlan(Later)
         /\ Sends(op.name, op.arg, op.plan) /\ op.name # "none"
<1>1. CallOk(op, caller, dev) /\ res = Nothing
  BY DEF BoardsInv, CallIs, NoCallIn
<1>2. IsPlan(Tail(op.plan))
  BY <1>1, PlanIs DEF CallOk
<1> QED BY <1>1, <1>2 DEF CallOk, Goes, Step, Later

(* A failed step: the call is over, or goes on with the lamp's off, or     *)
(* with the same step once more.                                           *)
LEMMA FailedCall ==
  ASSUME BoardsInv, ~NoCallIn, NEW final, Retries(final), caller' = caller,
         Goes(op.name, op.arg, caller, op.plan, dev'), DOMAIN dev' = Regs, shadow' = shadow,
         caller = "session" /\ (phase = "open" \/ op.name = "open") => Level(op.plan, dev', shadow),
         known' \subseteq known,
         op.name = "off" => Pending(op.plan, "fifo") \/ reload' \/ ~lit'
  PROVE  /\ Registers' /\ CallIs' /\ WhoCalls' /\ Coherent' /\ Darkens'
         /\ res' = Nothing
<1>1. CallOk(op, caller, dev) /\ res = Nothing
  BY UnderWay
<1>2. Registers'
  BY DEF BoardsInv, Registers
<1>3. CASE op.tries > 1 /\ ~final
  <2>1. op' = [op EXCEPT !.tries = op.tries - 1] /\ UNCHANGED <<res, phase>>
    BY <1>3 DEF Retries
  <2>2. op' = [name |-> op.name, arg |-> op.arg, plan |-> op.plan, tries |-> op.tries - 1, leave |-> op.leave]
    BY <1>1, <2>1 DEF CallOk
  <2>3. op'.name = op.name /\ op'.arg = op.arg /\ op'.plan = op.plan
        /\ op' = [name |-> op'.name, arg |-> op'.arg, plan |-> op'.plan, tries |-> op'.tries, leave |-> op'.leave]
    BY <2>2
  <2>4. CallOk(op', caller, dev')
    BY <1>1, <2>3 DEF CallOk
  <2>5. CallIs' /\ res' = Nothing
    BY <1>1, <2>1, <2>4 DEF CallIs
  <2>6. WhoCalls'
    BY <2>1, <2>3 DEF BoardsInv, WhoCalls
  <2>7. Coherent' /\ Darkens'
    BY <2>1, <2>3 DEF Coherent, Darkens
  <2> QED BY <1>2, <2>5, <2>6, <2>7
<1>4. CASE ~(op.tries > 1 /\ ~final)
  <2>1. StepFails
    BY <1>4 DEF Retries
  <2>2. res' = Nothing /\ (phase' # "open" \/ caller # "session")
    BY <2>1 DEF StepFails
  <2>3. CASE op.name = "open"
    <3>1. op' = Called("bounded", {}, OffPlan, TRUE)
      BY <2>1, <2>3 DEF StepFails
    <3>2. op'.name = "bounded" /\ op'.arg = {} /\ op'.plan = OffPlan
          /\ op' = [name |-> op'.name, arg |-> op'.arg, plan |-> op'.plan, tries |-> op'.tries,
                    leave |-> op'.leave]
      BY <3>1 DEF Called
    <3>3. CallOk(op', caller, dev')
      BY <3>2, OffGoes DEF CallOk
    <3>4. caller = "session" /\ phase' = "closed"
      BY <2>1, <2>3 DEF StepFails, BoardsInv, WhoCalls
    <3>5. CallIs' /\ WhoCalls' /\ Coherent' /\ Darkens'
      BY <2>2, <3>2, <3>3, <3>4 DEF CallIs, WhoCalls, Coherent, Darkens
    <3> QED BY <1>2, <2>2, <3>5
  <2>4. CASE op.name # "open"
    <3>1. op' = NoCall
      BY <2>1, <2>4 DEF StepFails
    <3>2. CallIs' /\ WhoCalls' /\ Coherent' /\ Darkens'
      BY <2>2, <3>1, NoCallIs DEF CallIs, WhoCalls, Coherent, Darkens
    <3> QED BY <1>2, <2>2, <3>2
  <2> QED BY <2>3, <2>4
<1> QED BY <1>3, <1>4

(* A step that went out: the call is over with PK_OK, or goes on.          *)
LEMMA NextStep ==
  ASSUME BoardsInv, ~NoCallIn, GoesOn, caller' = caller, DOMAIN dev' = Regs, DOMAIN shadow' = Regs,
         Goes(op.name, op.arg, caller, Later, dev'),
         caller = "session" /\ (phase = "open" \/ op.name = "open") => Level(Later, dev', shadow'),
         op.name = "ccd" /\ Later # <<>> => "ccd" \notin known',
         op.name = "off" => Pending(Later, "fifo") \/ reload' \/ ~lit'
  PROVE  /\ Registers' /\ CallIs' /\ WhoCalls' /\ Coherent' /\ Darkens'
         /\ Later # <<>> => res' = Nothing
         /\ Later = <<>> => res' = [name |-> op.name, arg |-> op.arg]
<1>1. CallOk(op, caller, dev) /\ res = Nothing /\ Later = Tail(op.plan) /\ IsPlan(Later)
  BY UnderWay
<1>2. Registers'
  BY DEF BoardsInv, Registers
<1>3. CASE Later = <<>>
  <2>1. op' = NoCall /\ res' = [name |-> op.name, arg |-> op.arg]
        /\ phase' = IF op.name = "open" THEN "open" ELSE phase
    BY <1>3 DEF GoesOn, Returns
  <2>2. CallIs' /\ WhoCalls' /\ Darkens'
    BY <2>1, NoCallIs DEF CallIs, WhoCalls, Darkens
  <2>3. Coherent'
    <3>1. caller = "session" /\ phase' = "open" => phase = "open" \/ op.name = "open"
      BY <2>1
    <3> QED BY <1>3, <2>1, <3>1, NoCallIs DEF Coherent
  <2> QED BY <1>2, <1>3, <2>1, <2>2, <2>3
<1>4. CASE Later # <<>>
  <2>1. op' = Called(op.name, op.arg, Later, op.leave) /\ UNCHANGED <<res, phase>>
    BY <1>4 DEF GoesOn
  <2>2. op'.name = op.name /\ op'.arg = op.arg /\ op'.plan = Later
        /\ op' = [name |-> op'.name, arg |-> op'.arg, plan |-> op'.plan, tries |-> op'.tries, leave |-> op'.leave]
    BY <2>1 DEF Called
  <2>3. Ordered(op.name, Later)
    BY <1>1, OrderLeft DEF CallOk
  <2>4. CallOk(op', caller, dev')
    BY <1>1, <1>4, <2>2, <2>3 DEF CallOk
  <2>5. CallIs' /\ res' = Nothing
    BY <1>1, <2>1, <2>4 DEF CallIs
  <2>6. WhoCalls'
    BY <1>4, <2>1, <2>2 DEF BoardsInv, WhoCalls
  <2>7. Coherent' /\ Darkens'
    BY <2>1, <2>2 DEF Coherent, Darkens
  <2> QED BY <1>2, <1>4, <2>5, <2>6, <2>7
<1> QED BY <1>3, <1>4

(* The lamp has no drive without its enable, also while a call is under    *)
(* way: it is enabled first, and its drive zeroed first.                   *)
LEMMA WriteKeepsDark ==
  ASSUME BoardsInv, ~NoCallIn, Real(Step), caller = "session", dev' = Put(dev, Step), dev'.enable = 0
  PROVE  dev'.duty = 0
<1>1. /\ CallOk(op, caller, dev) /\ Step = Head(op.plan)
      /\ Step.reg \in Regs /\ Wants(op.name, op.arg, Step.reg, Step.val)
  BY UnderWay, HeadIs DEF CallOk
<1>2. \A r \in Regs : dev'[r] = IF r = Step.reg THEN Step.val ELSE dev[r]
  BY DEF Put, BoardsInv, Registers
<1>3. dev.enable = 0 => dev.duty = 0
  BY DEF BoardsInv, BoardsAreAsTold, LampEndsDark
<1>4. "duty" \in Regs /\ "enable" \in Regs
  BY SomeRegs
<1>5. CASE Step.reg = "enable"
  <2>1. Step.val = 0 /\ dev'.duty = dev.duty
    BY <1>2, <1>4, <1>5
  <2>2. op.name # "lamp"
    <3>1. op.name = "lamp" => Step.val = op.arg["enable"] /\ op.arg \in LIGHTS
      BY <1>1, <1>5 DEF Wants, CCD, BoardsInv, WhoCalls
    <3> QED BY <2>1, <3>1, BoardsAssumption DEF BoardsAssumption
  <2>3. op.name \in {"off", "bounded", "open"}
    BY <1>1, <1>5, <2>2 DEF Wants, CCD
  <2>4. ~Pending(Tail(op.plan), "duty")
    BY <1>1, <1>5, <2>1, <2>3, OrderLeft DEF CallOk
  <2>5. ~Pending(op.plan, "duty")
    BY <1>1, <1>5, <2>4, PendingLeft DEF CallOk
  <2>6. dev["duty"] = 0
    BY <1>1, <2>3, <2>5, NotPending DEF CallOk
  <2> QED BY <2>1, <2>6
<1>6. CASE Step.reg = "duty"
  <2>1. dev.enable = 0 /\ dev'.duty = Step.val
    BY <1>2, <1>4, <1>6
  <2>2. op.name # "lamp"
    <3>1. SUFFICES ASSUME op.name = "lamp" PROVE FALSE
      OBVIOUS
    <3>2. ~Pending(op.plan, "enable")
      BY <1>1, <1>6, <3>1, OrderLeft, PendingLeft DEF CallOk
    <3>3. dev["enable"] = op.arg["enable"] /\ op.arg \in LIGHTS
      BY <1>1, <3>1, <3>2, NotPending DEF CallOk, BoardsInv, WhoCalls
    <3> QED BY <2>1, <3>3, BoardsAssumption DEF BoardsAssumption
  <2>3. Step.val = 0
    BY <1>1, <1>6, <2>2 DEF Wants, CCD
  <2> QED BY <2>1, <2>3
<1>7. CASE Step.reg \notin {"enable", "duty"}
  BY <1>2, <1>3, <1>4, <1>7
<1> QED BY <1>5, <1>6, <1>7

(* What a write does to the books on the driver's side.                    *)
LEMMA WriteKeepsShadows ==
  ASSUME BoardsInv, ~NoCallIn, Real(Step), Step.reg \in Regs,
         dev' = Put(dev, Step), shadow' = shadow, known' = Spoiled(Step.reg)
  PROVE  ShadowsAreTrue'
<1>1. /\ CallOk(op, caller, dev) /\ Step = Head(op.plan) /\ Wants(op.name, op.arg, Step.reg, Step.val)
  BY UnderWay, HeadIs DEF CallOk
<1>2. \A r \in Regs : dev'[r] = IF r = Step.reg THEN Step.val ELSE dev[r]
  BY DEF Put, BoardsInv, Registers
<1>3. known' = known \ {Step.reg}
  BY DEF Spoiled
<1>4. \A r \in Marked \intersect known' : dev'[r] = shadow'[r]
  <2>1. \A r \in Marked \intersect known' : r \in Regs /\ r # Step.reg /\ r \in Marked \intersect known
    BY <1>3, SomeRegs DEF Marked
  <2> QED BY <1>2, <2>1 DEF BoardsInv, BoardsAreAsTold, ShadowsAreTrue
<1>5. ASSUME "ccd" \in known' PROVE dev'["fixed"] = 1 /\ \A r \in CCD : dev'[r] = shadow'[r]
  <2>1. "ccd" \in known /\ op.name # "ccd"
    BY <1>3, <1>5 DEF BoardsInv, WhoCalls
  <2>2. Step.reg \notin CCD /\ Step.reg # "fixed"
    BY <1>1, <2>1 DEF Wants, CCD
  <2> QED BY <1>2, <2>1, <2>2, SomeRegs DEF BoardsInv, BoardsAreAsTold, ShadowsAreTrue
<1> QED BY <1>4, <1>5 DEF ShadowsAreTrue

(* A write that is known to have gone out: the books follow it.            *)
LEMMA WriteFills ==
  ASSUME BoardsInv, ~NoCallIn, Real(Step), Step.reg \in Regs, dev' = Put(dev, Step),
         Goes(op.name, op.arg, caller, Later, dev'),
         shadow' = Remembered(IF Step.reg \in CCD THEN shadow ELSE [shadow EXCEPT ![Step.reg] = Step.val]),
         known' = NowKnown(IF Step.reg \in Marked THEN known \union {Step.reg} ELSE known)
  PROVE  /\ ShadowsAreTrue' /\ DOMAIN shadow' = Regs
         /\ \A r \in Regs \ CCD : shadow'[r] = Put(shadow, Step)[r]
         /\ op.name = "ccd" /\ Later # <<>> => "ccd" \notin known'
<1>1. /\ CallOk(op, caller, dev) /\ Step = Head(op.plan) /\ Wants(op.name, op.arg, Step.reg, Step.val)
  BY UnderWay, HeadIs DEF CallOk
<1>2. \A r \in Regs : dev'[r] = IF r = Step.reg THEN Step.val ELSE dev[r]
  BY DEF Put, BoardsInv, Registers
<1> DEFINE s == IF Step.reg \in CCD THEN shadow ELSE [shadow EXCEPT ![Step.reg] = Step.val]
           k == IF Step.reg \in Marked THEN known \union {Step.reg} ELSE known
<1>3. DOMAIN s = Regs /\ \A r \in Regs \ CCD : s[r] = IF r = Step.reg THEN Step.val ELSE shadow[r]
  BY DEF BoardsInv, Registers
<1>4. \A r \in CCD : s[r] = shadow[r]
  BY SomeRegs DEF BoardsInv, Registers
<1>5. shadow' = Remembered(s) /\ known' = NowKnown(k)
  OBVIOUS
<1>6. k \subseteq known \union {Step.reg} /\ Step.reg # "ccd" /\ (Step.reg \notin Marked => k = known)
  BY DEF Regs, CCD
<1> HIDE DEF s, k
<1>7. DOMAIN shadow' = Regs /\ \A r \in Regs \ CCD : shadow'[r] = s[r]
  BY <1>3, <1>5 DEF Remembered
<1>8. \A r \in Regs \ CCD : shadow'[r] = Put(shadow, Step)[r]
  BY <1>3, <1>7 DEF Put, BoardsInv, Registers
<1>9. /\ known' \subseteq known \union {Step.reg, "ccd"}
      /\ (Step.reg \notin Marked => known' \subseteq known \union {"ccd"})
  BY <1>5, <1>6 DEF NowKnown
<1>10. \A r \in Marked : r \in Regs \ CCD
  BY SomeRegs DEF Marked, CCD
<1>11. ASSUME NEW r \in Marked \intersect known' PROVE dev'[r] = shadow'[r]
  <2>1. CASE r = Step.reg
    BY <1>2, <1>3, <1>7, <1>10, <1>11, <2>1
  <2>2. CASE r # Step.reg
    <3>1. r \in Marked \intersect known
      BY <1>9, <1>11, <2>2 DEF Marked
    <3>2. dev[r] = shadow[r]
      BY <3>1 DEF BoardsInv, BoardsAreAsTold, ShadowsAreTrue
    <3> QED BY <1>2, <1>3, <1>7, <1>10, <1>11, <2>2, <3>2
  <2> QED BY <2>1, <2>2
<1>12. ASSUME "ccd" \in known' PROVE dev'["fixed"] = 1 /\ \A r \in CCD : dev'[r] = shadow'[r]
  <2>1. CASE op.name = "ccd"
    <3>1. "ccd" \notin k
      BY <1>6, <2>1 DEF BoardsInv, WhoCalls
    <3>2. Later = <<>>
      BY <1>5, <1>12, <3>1 DEF NowKnown
    <3>3. dev'["fixed"] = 1 /\ \A r \in CCD : dev'[r] = op.arg[r]
      BY <2>1, <3>2, NotPending, NoSteps
    <3>4. \A r \in CCD : shadow'[r] = op.arg[r]
      BY <1>3, <1>5, <2>1, <3>2, SomeRegs DEF Remembered
    <3> QED BY <3>3, <3>4
  <2>2. CASE op.name # "ccd"
    <3>1. known' = k /\ shadow' = s
      BY <1>5, <2>2 DEF NowKnown, Remembered
    <3>2. "ccd" \in known
      BY <1>6, <1>12, <3>1
    <3>3. Step.reg \notin CCD /\ Step.reg # "fixed"
      BY <1>1, <2>2 DEF Wants, CCD
    <3>4. dev["fixed"] = 1 /\ \A r \in CCD : dev[r] = shadow[r]
      BY <3>2 DEF BoardsInv, BoardsAreAsTold, ShadowsAreTrue
    <3> QED BY <1>2, <1>4, <3>1, <3>3, <3>4, SomeRegs
  <2> QED BY <2>1, <2>2
<1>13. ASSUME op.name = "ccd", Later # <<>> PROVE "ccd" \notin known'
  <2>1. known' = k
    BY <1>5, <1>13 DEF NowKnown
  <2> QED BY <1>6, <1>13, <2>1 DEF BoardsInv, WhoCalls
<1> QED BY <1>7, <1>8, <1>11, <1>12, <1>13 DEF ShadowsAreTrue

(* A write, whether it takes effect or not and whatever is told of it.     *)
LEMMA SendWriteInv == ASSUME BoardsInv, SendWrite PROVE BoardsInv'
<1>1. ~NoCallIn /\ Real(Step) /\ UNCHANGED <<caller, lit, loaded, reload, reported>>
  BY DEF SendWrite, lamp
<1>2. PICK r \in {"OK", "LOST", "FAIL"}, final \in BOOLEAN :
       /\ dev' = IF Reaches(r) THEN [dev EXCEPT ![Step.reg] = Step.val] ELSE dev
       /\ IF r = "OK"
          THEN /\ shadow' = Remembered(IF Step.reg \in CCD THEN shadow
                                       ELSE [shadow EXCEPT ![Step.reg] = Step.val])
               /\ known' = NowKnown(IF Step.reg \in Marked THEN known \union {Step.reg} ELSE known)
               /\ GoesOn
          ELSE /\ known' = Spoiled(Step.reg)
               /\ Retries(final)
               /\ UNCHANGED shadow
  BY DEF SendWrite
<1>3. /\ CallOk(op, caller, dev) /\ res = Nothing /\ Step = Head(op.plan) /\ Later = Tail(op.plan)
      /\ IsPlan(Later) /\ Step.reg \in Regs /\ Step.reg \notin {"fifo", "confirm"}
  BY <1>1, UnderWay, HeadIs, SomeRegs DEF CallOk
<1>4. IsPlan(op.plan) /\ op.plan # <<>> /\ Goes(op.name, op.arg, caller, op.plan, dev)
  BY <1>3 DEF CallOk
<1>5. DOMAIN dev = Regs /\ DOMAIN shadow = Regs
  BY DEF BoardsInv, Registers
<1> DEFINE e == Put(dev, Step)
<1>6. /\ Goes(op.name, op.arg, caller, Later, e) /\ Goes(op.name, op.arg, caller, op.plan, e) /\ DOMAIN e = Regs
  BY <1>1, <1>3, <1>4, <1>5, StepGoes
<1>7. Pending(op.plan, "fifo") <=> Pending(Later, "fifo")
  BY <1>3, <1>4, PendingLeft
<1>8. op.name = "off" => Pending(op.plan, "fifo") \/ reload' \/ ~lit'
  BY <1>1 DEF BoardsInv, Darkens
<1>9. CASE r = "OK"
  <2>1. /\ dev' = e /\ GoesOn
        /\ shadow' = Remembered(IF Step.reg \in CCD THEN shadow ELSE [shadow EXCEPT ![Step.reg] = Step.val])
        /\ known' = NowKnown(IF Step.reg \in Marked THEN known \union {Step.reg} ELSE known)
    BY <1>2, <1>9 DEF Reaches, Put
  <2> HIDE DEF e
  <2>2. /\ ShadowsAreTrue' /\ DOMAIN shadow' = Regs
        /\ \A q \in Regs \ CCD : shadow'[q] = Put(shadow, Step)[q]
        /\ op.name = "ccd" /\ Later # <<>> => "ccd" \notin known'
    BY <1>1, <1>3, <1>6, <2>1, WriteFills DEF e
  <2>3. caller = "session" /\ (phase = "open" \/ op.name = "open") => Level(Later, dev', shadow')
    <3>1. SUFFICES ASSUME caller = "session", phase = "open" \/ op.name = "open"
                   PROVE  Level(Later, dev', shadow')
      OBVIOUS
    <3>2. Level(op.plan, dev, shadow)
      BY <3>1 DEF BoardsInv, Coherent
    <3>3. "enable" \in Regs \ CCD /\ "l89" \in Regs \ CCD
      BY DEF Regs, CCD
    <3> QED BY <1>3, <1>4, <1>5, <2>1, <2>2, <3>2, <3>3, StaysLevel DEF e
  <2>4. /\ Registers' /\ CallIs' /\ WhoCalls' /\ Coherent' /\ Darkens'
        /\ Later # <<>> => res' = Nothing
        /\ Later = <<>> => res' = [name |-> op.name, arg |-> op.arg]
    BY <1>1, <1>6, <1>7, <1>8, <2>1, <2>2, <2>3, NextStep
  <2>5. OkMeansSet'
    <3>1. CASE Later # <<>>
      BY <2>4, <3>1 DEF OkMeansSet, Nothing
    <3>2. CASE Later = <<>>
      <4>1. Goes(op.name, op.arg, caller, <<>>, dev') /\ res' = [name |-> op.name, arg |-> op.arg]
            /\ caller' = caller
        BY <1>1, <1>6, <2>1, <2>4, <3>2
      <4>2. op.name = "ccd" => /\ \A q \in CCD : dev'[q] = op.arg[q]
                               /\ dev'["fixed"] = 1 /\ dev'["ctrl"].binned = op.arg.binned
                               /\ dev'["ctrl"].ir = op.arg.ir
                               /\ caller = "session" => dev'["l89"] = op.arg["l89"]
        BY <4>1, NotPending, NoSteps
      <4>3. op.name = "lamp" => /\ dev'["levels"] = op.arg["levels"] /\ dev'["duty"] = op.arg["duty"]
                                /\ caller = "session" => dev'["enable"] = op.arg["enable"]
        BY <4>1, NotPending, NoSteps
      <4>4. res'.name = op.name /\ res'.arg = op.arg
        BY <4>1
      <4> QED BY <4>1, <4>2, <4>3, <4>4 DEF OkMeansSet, CcdIs
    <3> QED BY <3>1, <3>2
  <2>6. LampEndsDark'
    <3>1. caller' = "session" /\ dev'.enable = 0 => dev'.duty = 0
      BY <1>1, <2>1, WriteKeepsDark DEF e
    <3>2. ASSUME res'.name = "off" PROVE dev'.duty = 0 /\ dev'.enable = 0 /\ (reload' \/ ~lit')
      <4>1. Later = <<>> /\ op.name = "off"
        BY <2>4, <3>2 DEF Nothing
      <4>2. ~Pending(op.plan, "fifo")
        BY <1>7, <4>1, NoSteps
      <4>3. Goes(op.name, op.arg, caller, <<>>, dev')
        BY <1>6, <2>1, <4>1
      <4>4. dev'["duty"] = 0 /\ dev'["enable"] = 0
        BY <4>1, <4>3, NotPending, NoSteps
      <4> QED BY <1>8, <4>1, <4>2, <4>4
    <3> QED BY <3>1, <3>2 DEF LampEndsDark
  <2> QED BY <2>2, <2>4, <2>5, <2>6 DEF BoardsInv, BoardsAreAsTold
<1>10. CASE r # "OK"
  <2>1. /\ known' = Spoiled(Step.reg) /\ Retries(final) /\ shadow' = shadow
    BY <1>2, <1>10
  <2>2. dev' = e \/ dev' = dev
    BY <1>2 DEF Put
  <2> HIDE DEF e
  <2>3. Goes(op.name, op.arg, caller, op.plan, dev') /\ DOMAIN dev' = Regs
    BY <1>4, <1>5, <1>6, <2>2
  <2>4. caller = "session" /\ (phase = "open" \/ op.name = "open") => Level(op.plan, dev', shadow)
    <3>1. caller = "session" /\ (phase = "open" \/ op.name = "open") => Level(op.plan, dev, shadow)
      BY DEF BoardsInv, Coherent
    <3>2. Level(op.plan, dev, shadow) => Level(op.plan, e, shadow)
      <4>1. HAVE Level(op.plan, dev, shadow)
      <4> DEFINE t == Put(shadow, Step)
      <4>2. t["enable"] = Put(shadow, Head(op.plan))["enable"] /\ t["l89"] = Put(shadow, Head(op.plan))["l89"]
        BY <1>3
      <4> HIDE DEF t
      <4> QED BY <1>3, <1>4, <1>5, <4>1, <4>2, StaysLevel DEF e
    <3> QED BY <2>2, <3>1, <3>2
  <2>5. known' \subseteq known
    BY <2>1 DEF Spoiled
  <2>6. /\ Registers' /\ CallIs' /\ WhoCalls' /\ Coherent' /\ Darkens' /\ res' = Nothing
    BY <1>1, <1>8, <2>1, <2>3, <2>4, <2>5, FailedCall
  <2>7. ShadowsAreTrue'
    <3>1. CASE dev' = e
      BY <1>1, <1>3, <2>1, <3>1, WriteKeepsShadows DEF e
    <3>2. CASE dev' = dev
      BY <2>1, <2>5, <3>2 DEF BoardsInv, BoardsAreAsTold, ShadowsAreTrue
    <3> QED BY <2>2, <3>1, <3>2
  <2>8. OkMeansSet'
    BY <2>6 DEF OkMeansSet, Nothing
  <2>9. LampEndsDark'
    <3>1. caller' = "session" /\ dev'.enable = 0 => dev'.duty = 0
      <4>1. CASE dev' = e
        BY <1>1, <4>1, WriteKeepsDark DEF e
      <4>2. CASE dev' = dev
        BY <1>1, <4>2 DEF BoardsInv, BoardsAreAsTold, LampEndsDark
      <4> QED BY <2>2, <4>1, <4>2
    <3> QED BY <2>6, <3>1 DEF LampEndsDark, Nothing
  <2> QED BY <2>6, <2>7, <2>8, <2>9 DEF BoardsInv, BoardsAreAsTold
<1> QED BY <1>9, <1>10

(* A command or the confirming read: the registers stay as they are.       *)
LEMMA CommandInv ==
  ASSUME BoardsInv, ~NoCallIn, ~Real(Step), UNCHANGED <<caller, dev, shadow, known, lit>>,
         NEW final, (GoesOn /\ (Step.reg = "fifo" => reload')) \/ Retries(final), reload => reload'
  PROVE  BoardsInv'
<1>1. /\ CallOk(op, caller, dev) /\ res = Nothing /\ Step = Head(op.plan) /\ Later = Tail(op.plan)
      /\ IsPlan(Later) /\ op.name \in {"off", "bounded", "open"} /\ Step.reg \in {"fifo", "confirm"}
  BY UnderWay, HeadIs DEF CallOk
<1>2. IsPlan(op.plan) /\ op.plan # <<>> /\ Goes(op.name, op.arg, caller, op.plan, dev)
  BY <1>1 DEF CallOk
<1>3. Goes(op.name, op.arg, caller, Later, dev)
  BY <1>1, <1>2, CommandGoes
<1>4. \A r : Pending(op.plan, r) <=> Step.reg = r \/ Pending(Later, r)
  BY <1>1, <1>2, PendingLeft
<1>5. caller = "session" /\ (phase = "open" \/ op.name = "open")
        => Level(op.plan, dev, shadow) /\ Level(Later, dev, shadow)
  <2>1. Step.reg # "enable" /\ Step.reg # "l89"
    BY <1>1
  <2> QED BY <1>4, <2>1 DEF BoardsInv, Coherent, Level
<1>6. ShadowsAreTrue'
  BY DEF BoardsInv, BoardsAreAsTold, ShadowsAreTrue
<1>7. DOMAIN dev = Regs /\ DOMAIN shadow = Regs
  BY DEF BoardsInv, Registers
<1>8. caller' = "session" /\ dev'.enable = 0 => dev'.duty = 0
  BY DEF BoardsInv, BoardsAreAsTold, LampEndsDark
<1>9. CASE GoesOn /\ (Step.reg = "fifo" => reload')
  <2>1. op.name = "off" => Pending(Later, "fifo") \/ reload' \/ ~lit'
    <3>1. CASE Step.reg = "fifo"
      BY <1>9, <3>1
    <3>2. CASE Step.reg # "fifo"
      <4>1. op.name = "off" => Pending(Later, "fifo") \/ reload \/ ~lit
        BY <1>4, <3>2 DEF BoardsInv, Darkens
      <4>2. ~lit => ~lit'
        OBVIOUS
      <4> QED BY <4>1, <4>2
    <3> QED BY <3>1, <3>2
  <2>2. /\ Registers' /\ CallIs' /\ WhoCalls' /\ Coherent' /\ Darkens'
        /\ Later # <<>> => res' = Nothing
        /\ Later = <<>> => res' = [name |-> op.name, arg |-> op.arg]
    <3>1. Goes(op.name, op.arg, caller, Later, dev') /\ DOMAIN dev' = Regs /\ DOMAIN shadow' = Regs
          /\ (caller = "session" /\ (phase = "open" \/ op.name = "open") => Level(Later, dev', shadow'))
      BY <1>3, <1>5, <1>7
    <3>2. op.name = "ccd" /\ Later # <<>> => "ccd" \notin known'
      BY <1>1
    <3> QED BY <1>9, <2>1, <3>1, <3>2, NextStep
  <2>3. OkMeansSet'
    BY <1>1, <2>2 DEF OkMeansSet, Nothing
  <2>4. ASSUME res'.name = "off" PROVE dev'.duty = 0 /\ dev'.enable = 0 /\ (reload' \/ ~lit')
    <3>1. Later = <<>> /\ op.name = "off"
      BY <2>2, <2>4 DEF Nothing
    <3>2. dev["duty"] = 0 /\ dev["enable"] = 0
      BY <1>3, <3>1, NotPending, NoSteps
    <3> QED BY <2>1, <3>1, <3>2, NoSteps
  <2> QED BY <1>6, <1>8, <2>2, <2>3, <2>4 DEF BoardsInv, BoardsAreAsTold, LampEndsDark
<1>10. CASE Retries(final)
  <2>1. op.name = "off" => Pending(op.plan, "fifo") \/ reload' \/ ~lit'
    <3>1. ~lit => ~lit'
      OBVIOUS
    <3> QED BY <3>1 DEF BoardsInv, Darkens
  <2>2. /\ Registers' /\ CallIs' /\ WhoCalls' /\ Coherent' /\ Darkens' /\ res' = Nothing
    <3>1. Goes(op.name, op.arg, caller, op.plan, dev') /\ DOMAIN dev' = Regs
          /\ (caller = "session" /\ (phase = "open" \/ op.name = "open") => Level(op.plan, dev', shadow))
      BY <1>2, <1>5, <1>7
    <3> QED BY <1>10, <2>1, <3>1, FailedCall
  <2>3. OkMeansSet'
    BY <2>2 DEF OkMeansSet, Nothing
  <2>4. LampEndsDark'
    BY <1>8, <2>2 DEF LampEndsDark, Nothing
  <2> QED BY <1>6, <2>2, <2>3, <2>4 DEF BoardsInv, BoardsAreAsTold
<1> QED BY <1>9, <1>10

(* The firmware's pass: a lamp without drive and enable goes out.          *)
LEMMA PassInv == ASSUME BoardsInv, Pass PROVE BoardsInv'
<1>1. UNCHANGED <<caller, phase, dev, shadow, known, op, res>>
  BY DEF Pass
<1>2. Registers' /\ CallIs' /\ WhoCalls' /\ Coherent' /\ ShadowsAreTrue' /\ OkMeansSet'
  BY <1>1 DEF BoardsInv, BoardsAreAsTold, Registers, CallIs, WhoCalls, Coherent, ShadowsAreTrue, OkMeansSet, CcdIs
<1>3. ASSUME dev.duty = 0, dev.enable = 0, reload \/ ~lit PROVE ~lit'
  <2>1. CASE loaded' = 0
    <3>1. lit' \in {FALSE}
      BY <2>1 DEF Pass
    <3> QED BY <3>1
  <2>2. CASE loaded' # 0
    <3>1. ~reload
      BY <1>3, <2>2 DEF Pass
    <3>2. lit' \in {lit, FALSE}
      BY <1>3, <2>2 DEF Pass
    <3> QED BY <1>3, <3>1, <3>2
  <2> QED BY <2>1, <2>2
<1>4. Darkens'
  <2>1. SUFFICES ASSUME op.name = "off", ~Pending(op.plan, "fifo") PROVE ~lit'
    BY <1>1 DEF Darkens
  <2>2. CallOk(op, caller, dev)
    BY <2>1, NoCallIs DEF BoardsInv, CallIs
  <2>3. ~Pending(op.plan, "duty") /\ ~Pending(op.plan, "enable")
    BY <2>1, <2>2 DEF CallOk, Ordered
  <2>4. dev["duty"] = 0 /\ dev["enable"] = 0
    BY <2>1, <2>2, <2>3, NotPending DEF CallOk
  <2>5. reload \/ ~lit
    BY <2>1 DEF BoardsInv, Darkens
  <2> QED BY <1>3, <2>4, <2>5
<1>5. LampEndsDark'
  <2>1. res.name = "off" => ~lit'
    BY <1>3 DEF BoardsInv, BoardsAreAsTold, LampEndsDark
  <2> QED BY <1>1, <2>1 DEF BoardsInv, BoardsAreAsTold, LampEndsDark
<1> QED BY <1>2, <1>4, <1>5 DEF BoardsInv, BoardsAreAsTold

(* Every step keeps the invariant of the boards.                           *)
LEMMA BoardsNextInv == BoardsInv /\ [BoardsNext]_boardsVars => BoardsInv'
<1> SUFFICES ASSUME BoardsInv, [BoardsNext]_boardsVars PROVE BoardsInv'
  OBVIOUS
<1>0. ASSUME op = NoCall, caller = "session", phase = "open" PROVE Level(<<>>, dev, shadow)
  BY <1>0, NoCallIs DEF BoardsInv, Coherent
<1>1. ASSUME NEW c \in CONFIGS, Configure(c) PROVE BoardsInv'
  <2> DEFINE p == ConfigurePlan(c)
  <2>1. Calls("ccd", c, p) /\ known' = CcdKnown(p) /\ op = NoCall /\ phase = "open"
    BY <1>1 DEF Configure, Calls, NoCallIn
  <2>2. IsPlan(p) /\ Goes("ccd", c, caller, p, dev) /\ Ordered("ccd", p)
    BY <1>0, <2>1, ConfigureGoes
  <2> HIDE DEF p
  <2> QED BY <2>1, <2>2, CallBegins
<1>2. ASSUME NEW c \in CONFIGS, Update(c) PROVE BoardsInv'
  <2> DEFINE p == UpdatePlan(c)
  <2>1. Calls("ccd", c, p) /\ known' = CcdKnown(p) /\ op = NoCall /\ phase = "open"
    BY <1>2 DEF Update, Calls, NoCallIn
  <2>2. IsPlan(p) /\ Goes("ccd", c, caller, p, dev) /\ Ordered("ccd", p)
    BY <1>0, <2>1, UpdateGoes DEF BoardsInv, BoardsAreAsTold
  <2> HIDE DEF p
  <2> QED BY <2>1, <2>2, CallBegins
<1>3. ASSUME NEW on \in BOOLEAN, Acquire(on) PROVE BoardsInv'
  <2> DEFINE v == [shadow.ctrl EXCEPT !.acq = on]
             w == Write("ctrl", v)
             p == <<w>>
  <2>1. Calls("acquire", on, p) /\ known' = known
    BY <1>3 DEF Acquire
  <2> HIDE DEF v
  <2>2. w.reg = "ctrl" /\ Real(w) /\ Wants("acquire", on, "ctrl", w.val)
    BY DEF Write, Real, Wants
  <2> HIDE DEF w
  <2>3. IsPlan(p) /\ StepsOf(p) = {w}
    BY OneStep
  <2> HIDE DEF p
  <2>4. Goes("acquire", on, caller, p, dev) /\ Ordered("acquire", p)
    BY <2>2, <2>3, SomeRegs DEF Goes, Sends, Targets, Ordered
  <2> QED BY <2>1, <2>3, <2>4, CallBegins
<1>4. ASSUME NEW l \in LIGHTS, WarmLamp(l) PROVE BoardsInv'
  <2> DEFINE p == WarmPlan(l)
  <2>1. Calls("lamp", l, p) /\ known' = known
    BY <1>4 DEF WarmLamp
  <2>2. p = <<Write("enable", l.enable)>> \o <<Write("levels", l.levels)>> \o <<Write("duty", l.duty)>>
    BY DEF WarmPlan
  <2> HIDE DEF p
  <2>3. IsPlan(p) /\ Goes("lamp", l, caller, p, dev) /\ Ordered("lamp", p)
    BY <2>2, LampGoes
  <2> QED BY <2>1, <2>3, CallBegins
<1>5. ASSUME NEW l \in LIGHTS, NEW first \in BOOLEAN, SetLamp(l, first) PROVE BoardsInv'
  <2> DEFINE p == LampPlan(l, first)
             e == Unless(shadow.enable = l.enable, Write("enable", l.enable))
             v == Unless("levels" \in known /\ shadow.levels = l.levels, Write("levels", l.levels))
             u == Unless(~first /\ "duty" \in known /\ shadow.duty = l.duty, Write("duty", l.duty))
  <2>1. Calls("lamp", l, p) /\ known' = known /\ op = NoCall /\ phase = "open"
    BY <1>5 DEF SetLamp, Calls, NoCallIn
  <2>2. p = e \o v \o u
    BY DEF LampPlan
  <2>3. e = <<Write("enable", l.enable)>> \/ (e = <<>> /\ (caller = "session" => dev.enable = l.enable))
    BY <1>0, <2>1, NoSteps DEF Level, Unless
  <2>4. /\ v = <<Write("levels", l.levels)>> \/ (v = <<>> /\ dev.levels = l.levels)
        /\ u = <<Write("duty", l.duty)>> \/ (u = <<>> /\ dev.duty = l.duty)
    BY DEF BoardsInv, BoardsAreAsTold, ShadowsAreTrue, Marked, Unless
  <2> HIDE DEF p, e, v, u
  <2>5. IsPlan(p) /\ Goes("lamp", l, caller, p, dev) /\ Ordered("lamp", p)
    BY <2>2, <2>3, <2>4, LampGoes
  <2> QED BY <2>1, <2>5, CallBegins
<1>6. ASSUME NEW short \in BOOLEAN, LampOff(short) PROVE BoardsInv'
  BY <1>6, LampOffInv
<1>7. CASE OpenAgain
  BY <1>7, OpenAgainInv
<1>8. CASE SendWrite
  BY <1>8, SendWriteInv
<1>9. CASE FifoReset
  <2>1. /\ ~NoCallIn /\ ~Real(Step) /\ UNCHANGED <<caller, dev, shadow, known, lit>>
    BY <1>9 DEF FifoReset, Real
  <2>2. PICK host \in {"OK", "LOST", "FAIL"}, light \in {"OK", "LOST", "FAIL"}, final \in BOOLEAN :
           /\ reload' = (reload \/ Reaches(light))
           /\ IF host = "OK" /\ light = "OK" THEN GoesOn ELSE Retries(final)
    BY <1>9 DEF FifoReset
  <2>3. (reload => reload') /\ (light = "OK" => reload')
    BY <2>2 DEF Reaches
  <2>4. CASE host = "OK" /\ light = "OK"
    BY <2>1, <2>2, <2>3, <2>4, CommandInv
  <2>5. CASE ~(host = "OK" /\ light = "OK")
    BY <2>1, <2>2, <2>3, <2>5, CommandInv
  <2> QED BY <2>4, <2>5
<1>10. CASE Confirm
  <2>1. /\ ~NoCallIn /\ ~Real(Step) /\ UNCHANGED <<caller, dev, shadow, known, lit, reload>>
        /\ Step.reg # "fifo"
    BY <1>10 DEF Confirm, Real, lamp
  <2>2. PICK read \in BOOLEAN, final \in BOOLEAN : IF read /\ ~reported THEN GoesOn ELSE Retries(~read /\ final)
    BY <1>10 DEF Confirm
  <2>3. reload => reload'
    BY <2>1
  <2> QED BY <2>1, <2>2, <2>3, CommandInv
<1>11. CASE Pass
  BY <1>11, PassInv
<1>12. CASE UNCHANGED boardsVars
  BY <1>12 DEF boardsVars, lamp, BoardsInv, BoardsAreAsTold, Registers, CallIs, WhoCalls, Coherent, Darkens,
        ShadowsAreTrue, OkMeansSet, CcdIs, LampEndsDark
<1> QED BY <1>1, <1>2, <1>3, <1>4, <1>5, <1>6, <1>7, <1>8, <1>9, <1>10, <1>11, <1>12 DEF BoardsNext

(* What the driver's books and its PK_OKs say of the boards is so, for any *)
(* configurations, lamp settings and number of attempts, in a session and  *)
(* for a tool (host.c, light.c): a shadow that is trusted is right, a call *)
(* that returned PK_OK set the boards, a drive has its enable, and after a *)
(* lamp-off the lamp is dark.                                              *)
THEOREM BoardsStayAsTold == BoardsSpec => []BoardsAreAsTold
<1> HIDE DEF BoardsInit, BoardsNext, boardsVars, BoardsInv, BoardsAreAsTold
<1>1. BoardsInv => BoardsAreAsTold
  BY DEF BoardsInv
<1> QED BY BoardsInitInv, BoardsNextInv, <1>1, PTL DEF BoardsSpec

-----------------------------------------------------------------------------
(* Link                                                                    *)

USE LinkAssumption

(* Writes and commands, and every request of a one-shot call, go out once: *)
(* not before the packet step, and never back to it.                       *)
Once ==
  cur.type \in {"write", "command"} \/ oneshot => sent <= 1 /\ (step \in {"drain", "out"} => sent = 0)

(* A call that leaves or is capped was made one-shot when it began: the    *)
(* leave mode is switched on only while no call is in the link.            *)
Bound ==
  /\ holder # NoThread /\ (leave # "off" \/ holder \in Capped) => oneshot
  /\ oneshot => step \notin {"ping_out", "ping_in"}

CallInv == LinkTypeOK /\ Once /\ Bound

(* At most two replies are ever on the wire: one of the request, one of    *)
(* the ping that followed it.  A link that does not ask for a drain, and   *)
(* is not wedged, has nothing on the wire between two calls, and while a   *)
(* call waits for its reply there is none but its own.                     *)
InFlight == Len(owed) + Len(ep81)

WireInv ==
  /\ InFlight <= 2
  /\ step \in {"in", "ping_out"} => InFlight <= 1
  /\ step = "drain" => InFlight + reads <= 2
  /\ step = "idle" /\ ~need_drain /\ ~wedged => InFlight = 0
  /\ step = "out" => InFlight = 0
  /\ step = "in" => (\A n \in DOMAIN owed : owed[n].own) /\ (\A n \in DOMAIN ep81 : ep81[n].own)
  /\ taken # "stale"

-----------------------------------------------------------------------------
(* What a new packet does to the replies before it: they are late ones,    *)
(* as many as they were.                                                   *)
LEMMA StaleReplies ==
  ASSUME NEW q \in Seq(Reply)
  PROVE  Stale(q) \in Seq(Reply) /\ Len(Stale(q)) = Len(q)
<1>1. DOMAIN q = 1..Len(q) /\ Len(q) \in Nat
  OBVIOUS
<1>2. \A n \in 1..Len(q) : [q[n] EXCEPT !.own = FALSE] \in Reply
  <2>1. TAKE n \in 1..Len(q)
  <2>2. q[n] \in Reply
    OBVIOUS
  <2>3. QED
    BY <2>2 DEF Reply
<1>3. Stale(q) \in [1..Len(q) -> Reply]
  BY <1>1, <1>2 DEF Stale
<1>4. Stale(q) \in Seq(Reply)
  BY <1>1, <1>3, SeqDef
<1>5. QED
  BY <1>1, <1>3, <1>4, LenProperties

(* A board answers a request with its own reply, good or damaged.         *)
LEMMA ReplyTypes ==
  ASSUME NEW r \in Request \union {Ping}, NEW p \in Replies(r)
  PROVE  p \in Reply /\ p.own
<1>1. r.type \in Type
  BY DEF Ping, Type
<1>2. ReplyType(r) \in {1, 3, 7}
  BY <1>1 DEF ReplyType, Type
<1>3. p \in [type : {ReplyType(r)}, addr : {r.addr}, good : BOOLEAN, own : {TRUE}]
  BY DEF Replies
<1>4. p.own = TRUE /\ p.good \in BOOLEAN /\ p.type = ReplyType(r) /\ p.addr = r.addr
  BY <1>3, Zenon
<1>5. p = [type |-> p.type, addr |-> p.addr, good |-> p.good, own |-> p.own]
  BY <1>3
<1>6. r.addr \in {q.addr : q \in Request} \union {HOST}
  BY DEF Ping
<1>7. QED
  BY <1>2, <1>4, <1>5, <1>6 DEF Reply

(* One packet is answered at most once; behind nothing, by its own reply.  *)
LEMMA AnsweredReplies ==
  ASSUME NEW r \in Request \union {Ping}, NEW q \in Seq(Reply), NEW x \in Answered(r, q)
  PROVE  /\ x \in Seq(Reply)
         /\ Len(x) <= Len(q) + 1
         /\ Len(q) = 0 => \A n \in DOMAIN x : x[n].own
<1>1. Stale(q) \in Seq(Reply) /\ Len(Stale(q)) = Len(q) /\ Len(q) \in Nat
  BY StaleReplies, LenProperties
<1>2. CASE x = Stale(q)
  BY <1>1, <1>2, LenProperties
<1>3. ASSUME NEW p \in Replies(r), x = Append(Stale(q), p)
      PROVE  /\ x \in Seq(Reply)
             /\ Len(x) <= Len(q) + 1
             /\ Len(q) = 0 => \A n \in DOMAIN x : x[n].own
  <2>1. p \in Reply /\ p.own
    BY <1>3, ReplyTypes
  <2>2. x \in Seq(Reply) /\ Len(x) = Len(q) + 1 /\ x[Len(q) + 1] = p /\ DOMAIN x = 1..Len(x)
    BY <1>1, <1>3, <2>1, AppendProperties, LenProperties
  <2>3. QED
    BY <1>1, <2>1, <2>2
<1>4. QED
  BY <1>2, <1>3 DEF Answered

-----------------------------------------------------------------------------
(* A call fails: it is tried again from its drain, or returns.             *)
LEMMA FailureKeeps ==
  ASSUME CallInv, NEW s, Fails(s), step \in {"out", "in", "ping_in"},
         sent' \in 0..2, cur.type \in {"write", "command"} \/ oneshot => sent' <= 1,
         UNCHANGED <<wedged, leave, taken>>, owed' \in Seq(Reply), ep81' \in Seq(Reply)
  PROVE  CallInv'
<1>1. \/ /\ MayRetry(s) /\ step' = "drain" /\ attempt' = attempt + 1 /\ reads' = 0
         /\ UNCHANGED <<holder, cur, oneshot>>
      \/ holder' = NoThread /\ step' = "idle" /\ UNCHANGED <<cur, attempt, oneshot, reads>>
  BY DEF Fails, Again, Return, NextAttempt
<1>2. need_drain' \in BOOLEAN
  BY Zenon DEF Fails, NeedDrain
<1>3. MayRetry(s) => cur.type \notin {"write", "command"} /\ attempt < RETRIES /\ ~oneshot
  BY DEF MayRetry, Retried
<1>4. QED
  BY <1>1, <1>2, <1>3 DEF CallInv, LinkTypeOK, Once, Bound

(* Taking the link: the call is one-shot if it leaves or is capped.        *)
LEMMA BeginKeeps ==
  ASSUME CallInv, NEW t \in Thread, NEW r \in Request, Begin(t, r)
  PROVE  CallInv'
<1>1. (oneshot' <=> leave # "off" \/ t \in Capped) /\ oneshot' \in BOOLEAN
  BY Zenon DEF Begin, OneShot
<1>2. step' \in {"drain", "out"}
  BY DEF Begin
<1>3. LinkTypeOK'
  BY <1>1, <1>2 DEF Begin, wire, CallInv, LinkTypeOK
<1>4. Once' /\ Bound'
  BY <1>1, <1>2 DEF Begin, CallInv, LinkTypeOK, Once, Bound
<1>5. QED
  BY <1>3, <1>4 DEF CallInv

(* The drain before a packet.                                              *)
LEMMA DrainKeeps ==
  ASSUME CallInv, DrainTakes \/ DrainDone
  PROVE  CallInv'
<1>1. CASE DrainTakes
  <2>1. Tail(ep81) \in Seq(Reply)
    BY <1>1, HeadTailProperties DEF DrainTakes, CallInv, LinkTypeOK
  <2>2. QED
    BY <1>1, <2>1 DEF DrainTakes, CallInv, LinkTypeOK, Once, Bound
<1>2. CASE DrainDone
  <2>1. need_drain' \in BOOLEAN
    BY <1>2, Zenon DEF DrainDone
  <2>2. owed' \in Seq(Reply)
    BY <1>2, EmptySeq DEF DrainDone, CallInv, LinkTypeOK
  <2>3. QED
    BY <1>2, <2>1, <2>2 DEF DrainDone, Attempt, CallInv, LinkTypeOK, Once, Bound
<1>3. QED
  BY <1>1, <1>2

(* The packet goes out.                                                    *)
LEMMA OutKeeps ==
  ASSUME CallInv, Out
  PROVE  CallInv'
<1>1. /\ step = "out" /\ UNCHANGED <<wedged, leave, taken>>
      /\ sent' \in 0..2 /\ (cur.type \in {"write", "command"} \/ oneshot => sent' <= 1)
  BY DEF Out, SentAgain, CallInv, LinkTypeOK, Once
<1>2. owed' \in Seq(Reply) /\ ep81' \in Seq(Reply)
  BY AnsweredReplies, StaleReplies DEF Out, CallInv, LinkTypeOK, wire
<1>3. ASSUME NEW s, Fails(s) PROVE CallInv'
  BY <1>1, <1>2, <1>3, FailureKeeps
<1>4. CASE Attempt("in") /\ UNCHANGED need_drain
  BY <1>1, <1>2, <1>4 DEF Attempt, CallInv, LinkTypeOK, Once, Bound
<1>5. CASE PingsAfter /\ Attempt("ping_out") /\ need_drain' = NeedDrain
  <2>1. need_drain' \in BOOLEAN
    BY <1>5, Zenon DEF NeedDrain
  <2>2. QED
    BY <1>1, <1>2, <1>5, <2>1 DEF Attempt, PingsAfter, CallInv, LinkTypeOK, Once, Bound
<1>6. QED
  BY <1>3, <1>4, <1>5 DEF Out

(* The reply is awaited, or the leave budget is spent.                     *)
LEMMA InKeeps ==
  ASSUME CallInv, In \/ BudgetSpent
  PROVE  CallInv'
<1>1. CASE BudgetSpent
  BY <1>1, FailureKeeps DEF BudgetSpent, wire, CallInv, LinkTypeOK, Once
<1>2. CASE In
  <2>1. /\ step = "in" /\ UNCHANGED <<sent, wedged, leave, owed>>
        /\ ep81' \in Seq(Reply)
    BY <1>2, HeadTailProperties DEF In, CallInv, LinkTypeOK
  <2>2. ASSUME NEW s, Fails(s), UNCHANGED taken PROVE CallInv'
    BY <2>1, <2>2, FailureKeeps DEF CallInv, LinkTypeOK, Once
  <2>3. CASE taken' \in {"own", "stale"} /\ Return /\ UNCHANGED need_drain
    BY <2>1, <2>3 DEF Return, CallInv, LinkTypeOK, Once, Bound
  <2>4. QED
    BY <1>2, <2>2, <2>3 DEF In
<1>3. QED
  BY <1>1, <1>2

(* The wedge ping, which no one-shot call makes.                           *)
LEMMA PingKeeps ==
  ASSUME CallInv, PingOut \/ PingIn
  PROVE  CallInv'
<1>1. owed' \in Seq(Reply) /\ ep81' \in Seq(Reply)
  <2>1. CASE PingOut
    BY <2>1, AnsweredReplies, StaleReplies DEF PingOut, CallInv, LinkTypeOK, wire
  <2>2. CASE PingIn
    BY <2>2, HeadTailProperties DEF PingIn, CallInv, LinkTypeOK
  <2>3. QED
    BY <2>1, <2>2
<1>2. step \in {"ping_out", "ping_in"} /\ UNCHANGED <<sent, leave, taken>>
  BY DEF PingOut, PingIn
<1>3. CASE Wedges
  <2>1. wedged' \in BOOLEAN
    BY <1>3, Zenon DEF Wedges
  <2>2. QED
    BY <1>1, <1>2, <1>3, <2>1 DEF Wedges, Return, CallInv, LinkTypeOK, Once, Bound
<1>4. CASE PingOut /\ Attempt("ping_in") /\ UNCHANGED <<need_drain, wedged>>
  BY <1>1, <1>2, <1>4 DEF PingOut, Attempt, CallInv, LinkTypeOK, Once, Bound
<1>5. CASE PingIn /\ Fails("TIMEOUT") /\ UNCHANGED wedged
  BY <1>1, <1>2, <1>5, FailureKeeps DEF PingIn, CallInv, LinkTypeOK, Once
<1>6. QED
  BY <1>3, <1>4, <1>5 DEF PingOut, PingIn

(* What happens beside the calls.                                          *)
LEMMA BesideKeeps ==
  ASSUME CallInv, Arrive \/ (\E on \in BOOLEAN : SetLeave(on)) \/ BudgetPasses \/ UNCHANGED lvars
  PROVE  CallInv'
<1>1. CASE Arrive
  <2>1. Append(ep81, Head(owed)) \in Seq(Reply) /\ Tail(owed) \in Seq(Reply)
    BY <1>1, HeadTailProperties, AppendProperties DEF Arrive, CallInv, LinkTypeOK
  <2>2. QED
    BY <1>1, <2>1 DEF Arrive, call, CallInv, LinkTypeOK, Once, Bound
<1>2. ASSUME NEW on \in BOOLEAN, SetLeave(on) PROVE CallInv'
  BY <1>2 DEF SetLeave, call, wire, CallInv, LinkTypeOK, Once, Bound
<1>3. CASE BudgetPasses
  BY <1>3 DEF BudgetPasses, call, wire, CallInv, LinkTypeOK, Once, Bound
<1>4. CASE UNCHANGED lvars
  BY <1>4 DEF lvars, call, wire, CallInv, LinkTypeOK, Once, Bound
<1>5. QED
  BY <1>1, <1>2, <1>3, <1>4

(* Types, and what is promised of one call, whatever the scanner does.     *)
THEOREM CallsAreSound == LinkSpec => []CallInv
<1>1. LinkInit => CallInv
  <2>1. LinkInit => need_drain \in BOOLEAN /\ wedged \in BOOLEAN /\ oneshot \in BOOLEAN
    BY Zenon DEF LinkInit
  <2>2. <<>> \in Seq(Reply)
    BY EmptySeq
  <2>3. QED
    BY <2>1, <2>2 DEF LinkInit, CallInv, LinkTypeOK, Once, Bound
<1>2. CallInv /\ [LinkNext]_lvars => CallInv'
  BY BeginKeeps, DrainKeeps, OutKeeps, InKeeps, PingKeeps, BesideKeeps DEF LinkNext, Exchange
<1>3. QED
  BY <1>1, <1>2, PTL DEF LinkSpec

-----------------------------------------------------------------------------
(* The wire, under PROMPT.  What a step leaves on it is measured here.     *)
LEMMA Lengths ==
  ASSUME CallInv
  PROVE  /\ owed \in Seq(Reply) /\ ep81 \in Seq(Reply)
         /\ Len(owed) \in Nat /\ Len(ep81) \in Nat /\ reads \in Nat
         /\ (owed = <<>> <=> Len(owed) = 0) /\ (ep81 = <<>> <=> Len(ep81) = 0)
BY LenProperties, EmptySeq DEF CallInv, LinkTypeOK

(* A failed call asks for the drain that the next packet waits for.        *)
LEMMA FailureWire ==
  ASSUME CallInv, NEW s, Fails(s), InFlight' <= 2, taken' # "stale",
         owed' \in Seq(Reply), ep81' \in Seq(Reply)
  PROVE  WireInv'
<1>1. need_drain' /\ (step' = "idle" \/ (step' = "drain" /\ reads' = 0))
  BY DEF Fails, Again, Return, NeedDrain
<1>2. InFlight' \in Nat
  BY LenProperties DEF InFlight
<1>3. QED
  BY <1>1, <1>2 DEF WireInv

(* A call begins: with a drain, or on an empty wire.                       *)
LEMMA BeginWire ==
  ASSUME CallInv, WireInv, NEW t \in Thread, NEW r \in Request, Begin(t, r)
  PROVE  WireInv'
<1>1. step = "idle"
  BY DEF Begin, CallInv, LinkTypeOK
<1>2. InFlight' = InFlight /\ InFlight \in Nat /\ reads' = 0
  BY Lengths DEF Begin, wire, InFlight
<1>3. QED
  BY <1>1, <1>2 DEF Begin, wire, WireInv

(* A drain that reads empty has everything, if late replies are prompt;    *)
(* its limit is above what can be there.                                   *)
LEMMA DrainWire ==
  ASSUME PROMPT, CallInv, WireInv, DrainTakes \/ DrainDone
  PROVE  WireInv'
<1>1. CASE DrainTakes
  <2>1. Len(ep81') = Len(ep81) - 1 /\ owed' = owed
    BY <1>1, Lengths, HeadTailProperties DEF DrainTakes
  <2>2. InFlight' = InFlight - 1 /\ reads' = reads + 1 /\ step' = "drain" /\ taken' = taken
    BY <1>1, <2>1, Lengths DEF DrainTakes, InFlight
  <2>3. QED
    BY <1>1, <2>2, Lengths DEF DrainTakes, InFlight, WireInv
<1>2. CASE DrainDone
  <2>1. reads < DRAIN_MAX
    BY <1>2, Lengths DEF DrainDone, WireInv, InFlight
  <2>2. ep81 = <<>> /\ ep81' = ep81 /\ owed' = <<>>
    BY <1>2, <2>1, Lengths DEF DrainDone, DrainEnds
  <2>3. InFlight' = 0
    BY <2>2, EmptySeq DEF InFlight
  <2>4. QED
    BY <1>2, <2>3 DEF DrainDone, Attempt, WireInv
<1>3. QED
  BY <1>1, <1>2

(* The packet meets an empty wire, so what arrives next is its own reply.  *)
LEMMA OutWire ==
  ASSUME CallInv, WireInv, Out
  PROVE  WireInv'
<1>1. step = "out" /\ Len(owed) = 0 /\ Len(ep81) = 0 /\ ep81 = <<>> /\ taken' = taken
  BY Lengths DEF Out, WireInv, InFlight
<1>2. cur \in Request \union {Ping}
  BY DEF CallInv, LinkTypeOK
<1>3. \/ owed' \in Answered(cur, owed) /\ ep81' = Stale(ep81)
      \/ UNCHANGED wire
  BY DEF Out
<1>4. /\ owed' \in Seq(Reply) /\ Len(owed') <= 1 /\ (\A n \in DOMAIN owed' : owed'[n].own)
      /\ ep81' \in Seq(Reply) /\ Len(ep81') = 0 /\ DOMAIN ep81' = {}
  <2>1. CASE owed' \in Answered(cur, owed) /\ ep81' = Stale(ep81)
    <3>1. owed' \in Seq(Reply) /\ Len(owed') <= 1 /\ (\A n \in DOMAIN owed' : owed'[n].own)
      <4>1. owed \in Seq(Reply) /\ owed' \in Answered(cur, owed)
        BY <2>1, Lengths
      <4>2. /\ owed' \in Seq(Reply) /\ Len(owed') <= Len(owed) + 1
            /\ Len(owed) = 0 => \A n \in DOMAIN owed' : owed'[n].own
        BY <1>2, <4>1, AnsweredReplies
      <4>3. QED
        BY <1>1, <4>2
    <3>2. ep81' \in Seq(Reply) /\ Len(ep81') = 0
      BY <1>1, <2>1, Lengths, StaleReplies
    <3>3. QED
      BY <3>1, <3>2, LenProperties
  <2>2. CASE UNCHANGED wire
    BY <1>1, <2>2, Lengths, LenProperties DEF wire
  <2>3. QED
    BY <1>3, <2>1, <2>2
<1>5. InFlight' <= 1 /\ InFlight' \in Nat
  BY <1>4, LenProperties DEF InFlight
<1>6. taken' # "stale"
  BY <1>1 DEF WireInv
<1>7. ASSUME NEW s, Fails(s) PROVE WireInv'
  BY <1>4, <1>5, <1>6, <1>7, FailureWire
<1>8. CASE step' \in {"in", "ping_out"}
  BY <1>4, <1>5, <1>6, <1>8 DEF WireInv
<1>9. QED
  BY <1>7, <1>8 DEF Out, Attempt

(* The reply that is accepted is the packet's own, and was the last on the *)
(* wire.                                                                   *)
LEMMA InWire ==
  ASSUME CallInv, WireInv, In \/ BudgetSpent
  PROVE  WireInv'
<1>1. CASE BudgetSpent
  <2>1. owed' \in Seq(Reply) /\ ep81' \in Seq(Reply) /\ InFlight' = InFlight /\ taken' = taken
    BY <1>1, Lengths DEF BudgetSpent, wire, InFlight
  <2>2. QED
    BY <1>1, <2>1, FailureWire DEF BudgetSpent, WireInv
<1>2. CASE In
  <2>1. step = "in" /\ owed' = owed /\ UNCHANGED wedged
    BY <1>2 DEF In
  <2>2. CASE ep81' = ep81 /\ taken' = taken /\ \E s \in {"TIMEOUT", "TRANSPORT"} : Fails(s)
    <3>1. owed' \in Seq(Reply) /\ ep81' \in Seq(Reply) /\ InFlight' = InFlight
      BY <2>1, <2>2, Lengths DEF InFlight
    <3>2. QED
      BY <2>2, <3>1, FailureWire DEF WireInv
  <2>3. CASE ep81 # <<>> /\ ep81' = Tail(ep81)
    <3>1. ep81' \in Seq(Reply) /\ Len(ep81') = Len(ep81) - 1
      BY <2>3, Lengths, HeadTailProperties
    <3>2. owed' \in Seq(Reply) /\ InFlight' = InFlight - 1 /\ InFlight \in Nat /\ InFlight' \in Nat
      BY <2>1, <3>1, Lengths, LenProperties DEF InFlight
    <3>3. InFlight' = 0
      BY <2>1, <3>2 DEF WireInv
    <3>4. CASE Fails("PROTOCOL") /\ UNCHANGED taken
      BY <3>1, <3>2, <3>3, <3>4, FailureWire DEF WireInv
    <3>5. CASE Return /\ UNCHANGED need_drain /\ taken' = IF Head(ep81).own THEN "own" ELSE "stale"
      <4>1. Head(ep81).own
        BY <2>1, <2>3, Lengths, LenProperties DEF WireInv
      <4>2. QED
        BY <3>3, <3>5, <4>1 DEF Return, WireInv
    <3>6. QED
      BY <1>2, <2>3, <3>4, <3>5, <2>2 DEF In
  <2>4. QED
    BY <1>2, <2>2, <2>3 DEF In
<1>3. QED
  BY <1>1, <1>2

(* A ping adds one reply to the request's; unanswered, nothing follows it. *)
LEMMA PingWire ==
  ASSUME CallInv, WireInv, PingOut \/ PingIn
  PROVE  WireInv'
<1>1. taken' # "stale"
  BY DEF PingOut, PingIn, WireInv
<1>2. owed' \in Seq(Reply) /\ ep81' \in Seq(Reply) /\ InFlight' <= 2 /\ InFlight' \in Nat
  <2>1. CASE PingOut
    <3>1. Len(owed) + Len(ep81) <= 1
      BY <2>1 DEF PingOut, WireInv, InFlight
    <3>2. CASE owed' \in Answered(Ping, owed) /\ ep81' = Stale(ep81)
      <4>1. owed' \in Seq(Reply) /\ Len(owed') <= Len(owed) + 1
        BY <3>2, Lengths, AnsweredReplies
      <4>2. ep81' \in Seq(Reply) /\ Len(ep81') = Len(ep81)
        BY <3>2, Lengths, StaleReplies
      <4>3. QED
        BY <3>1, <4>1, <4>2, Lengths, LenProperties DEF InFlight
    <3>3. CASE UNCHANGED wire
      BY <3>1, <3>3, Lengths DEF wire, InFlight
    <3>4. QED
      BY <2>1, <3>2, <3>3 DEF PingOut
  <2>2. CASE PingIn
    <3>1. owed' = owed /\ InFlight <= 2
      BY <2>2 DEF PingIn, WireInv
    <3>2. ep81' \in Seq(Reply) /\ Len(ep81') <= Len(ep81)
      <4>1. CASE ep81 # <<>> /\ ep81' = Tail(ep81)
        BY <4>1, Lengths, HeadTailProperties
      <4>2. CASE ep81' = ep81
        BY <4>2, Lengths
      <4>3. QED
        BY <2>2, <4>1, <4>2 DEF PingIn
    <3>3. QED
      BY <3>1, <3>2, Lengths, LenProperties DEF InFlight
  <2>3. QED
    BY <2>1, <2>2
<1>3. CASE Wedges
  BY <1>1, <1>2, <1>3 DEF Wedges, Return, WireInv
<1>4. CASE Attempt("ping_in")
  BY <1>1, <1>2, <1>4 DEF Attempt, WireInv
<1>5. CASE Fails("TIMEOUT")
  BY <1>1, <1>2, <1>5, FailureWire
<1>6. QED
  BY <1>3, <1>4, <1>5 DEF PingOut, PingIn

(* A reply arrives; the leave mode changes.                                *)
LEMMA BesideWire ==
  ASSUME CallInv, WireInv, Arrive \/ (\E on \in BOOLEAN : SetLeave(on)) \/ BudgetPasses \/ UNCHANGED lvars
  PROVE  WireInv'
<1>1. CASE Arrive
  <2>1. Head(owed) \in Reply /\ Tail(owed) \in Seq(Reply) /\ Len(Tail(owed)) = Len(owed) - 1
    BY <1>1, Lengths, HeadTailProperties DEF Arrive
  <2>2. Len(Append(ep81, Head(owed))) = Len(ep81) + 1
    BY <2>1, Lengths, AppendProperties
  <2>3. InFlight' = InFlight /\ InFlight # 0
    BY <1>1, <2>1, <2>2, Lengths DEF Arrive, InFlight
  <2>4. step = "in" => (\A n \in DOMAIN owed' : owed'[n].own) /\ (\A n \in DOMAIN ep81' : ep81'[n].own)
    <3>1. SUFFICES ASSUME step = "in"
                   PROVE  (\A n \in DOMAIN owed' : owed'[n].own) /\ (\A n \in DOMAIN ep81' : ep81'[n].own)
      OBVIOUS
    <3>2. (\A n \in DOMAIN owed : owed[n].own) /\ (\A n \in DOMAIN ep81 : ep81[n].own)
      BY <3>1 DEF WireInv
    <3>3. \A n \in DOMAIN owed' : n + 1 \in DOMAIN owed /\ owed'[n] = owed[n + 1]
      BY <1>1, <2>1, Lengths, HeadTailProperties, LenProperties DEF Arrive
    <3>4. Head(owed).own
      BY <1>1, <3>2, Lengths, LenProperties DEF Arrive
    <3>5. \A n \in DOMAIN ep81' : n \in 1..(Len(ep81) + 1)
      BY <1>1, <2>1, <2>2, Lengths, AppendProperties, LenProperties DEF Arrive
    <3>6. \A n \in DOMAIN ep81' : ep81'[n].own
      BY <1>1, <2>1, <3>2, <3>4, <3>5, Lengths, AppendProperties, LenProperties DEF Arrive
    <3>7. QED
      BY <3>2, <3>3, <3>6
  <2>5. QED
    BY <1>1, <2>3, <2>4 DEF Arrive, call, WireInv
<1>2. CASE ~Arrive
  BY <1>2 DEF SetLeave, BudgetPasses, lvars, call, wire, InFlight, WireInv
<1>3. QED
  BY <1>1, <1>2

(* A drain that reads empty has discarded all there ever is: so no answer  *)
(* is a stale one, and a request starts on an empty wire.                  *)
LEMMA WireIsSound ==
  ASSUME PROMPT
  PROVE  LinkSpec => []WireInv
<1>1. LinkInit => WireInv
  BY EmptySeq DEF LinkInit, WireInv, InFlight
<1>2. CallInv /\ WireInv /\ [LinkNext]_lvars => WireInv'
  BY BeginWire, DrainWire, OutWire, InWire, PingWire, BesideWire DEF LinkNext, Exchange
<1>3. QED
  BY <1>1, <1>2, CallsAreSound, PTL DEF LinkSpec

(* Every answer is its request's own, a write goes out once, a leaving or  *)
(* capped call makes one attempt, a request starts on an aligned link      *)
(* (link.c transact, drain, firmware_wedged).                              *)
THEOREM ExchangesSound ==
  ASSUME PROMPT
  PROVE  LinkSpec => []ExchangesAreSound
<1>1. CallInv => LinkTypeOK /\ WriteSentOnce /\ LeaveIsBounded
  BY DEF CallInv, LinkTypeOK, Once, Bound, WriteSentOnce, LeaveIsBounded
<1>2. CallInv /\ WireInv => AnswerIsOwn /\ Aligned
  BY Lengths DEF WireInv, InFlight, AnswerIsOwn, Aligned
<1>3. CallInv /\ WireInv => ExchangesAreSound
  BY <1>1, <1>2 DEF ExchangesAreSound
<1>4. QED
  BY <1>3, CallsAreSound, WireIsSound, PTL

-----------------------------------------------------------------------------
(* Trace: what was recorded is what happened                               *)

(* Calls, what they are told, the lines a recorder writes.                 *)
TracedCalls == LinkCalls \union {"stream"}
TracedAnswers == [ok : BOOLEAN, len : 0..2]
TracedEvents ==
  [thread : THREADS, call : TracedCalls, ok : BOOLEAN, len : 0..2, data : BOOLEAN, hash : BOOLEAN, off : Nat]
TracedLines == TracedEvents \union {Torn}

(* Where the variables of recorder and replay range.                       *)
TraceTypes ==
  /\ mode \in {"recording", "closed", "replaying", "refused"}
  /\ happened \in [THREADS -> Seq(TracedCalls \X TracedAnswers)]
  /\ events \in Seq(TracedLines) /\ bin \in Seq(Nat) /\ streamOff \in Nat
  /\ cursor \in [THREADS -> Nat] /\ answers \in [THREADS -> Seq(TracedCalls \X TracedAnswers)]

(* Line k is the event of its thread's call of that rank, would be loaded, *)
(* and its bytes in stream.bin are its own.                                *)
KeptAs(k) ==
  LET e == events[k]
      n == Rank(e.thread, k)
  IN  /\ n \in 1..Len(happened[e.thread])
      /\ happened[e.thread][n] = <<e.call, [ok |-> e.ok, len |-> e.len]>>
      /\ WellFormed(e)
      /\ e.call = "stream" => e.off + e.len <= Len(bin) /\ \A i \in 1..e.len : bin[e.off + i] = k

(* Each thread's lines have the ranks from one on, no more than happened,  *)
(* and all that happened as long as no write has failed.                   *)
TraceFile ==
  /\ \A k \in 1..Len(events) : events[k] # Torn => KeptAs(k)
  /\ \A t \in THREADS :
       /\ Cardinality(LinesOf(t)) <= Len(happened[t])
       /\ \A n \in 1..Cardinality(LinesOf(t)) : \E k \in LinesOf(t) : Rank(t, k) = n
  /\ failed \/ (~failed_file /\ streamOff = Len(bin) /\ \A k \in 1..Len(events) : events[k] # Torn)
  /\ failed \/ \A t \in THREADS : Cardinality(LinesOf(t)) = Len(happened[t])

(* The replay's cursors stand where the answers that were given end, and a *)
(* timeout was told only behind the last event.                            *)
TraceReplay ==
  /\ mode = "recording" => idle_now = {} /\ \A t \in THREADS : answers[t] = <<>>
  /\ \A n \in idle_now : n <= Len(happened["stream"]) /\ (~failed => n = Len(happened["stream"]))
  /\ \A t \in THREADS :
       /\ cursor[t] = Len(answers[t]) /\ Len(answers[t]) <= Len(happened[t])
       /\ \A i \in 1..Len(answers[t]) : answers[t][i] = happened[t][i]
  /\ ~surprised
  /\ mode = "refused" => failed
TraceInv == TraceTypes /\ TraceFile /\ TraceReplay

(* Lines and their ranks are finite in number.                             *)
LEMMA RanksAre ==
  ASSUME TraceTypes, NEW t \in THREADS
  PROVE  /\ IsFiniteSet(LinesOf(t)) /\ Cardinality(LinesOf(t)) \in Nat
         /\ \A k \in Nat : Rank(t, k) \in Nat /\ Rank(t, k) <= Cardinality(LinesOf(t))
<1>1. Len(events) \in Nat /\ DOMAIN events = 1..Len(events)
  BY DEF TraceTypes
<1>2. LinesOf(t) \subseteq 1..Len(events) /\ IsFiniteSet(1..Len(events))
  BY <1>1, FS_Interval DEF LinesOf
<1>3. IsFiniteSet(LinesOf(t)) /\ Cardinality(LinesOf(t)) \in Nat
  BY <1>2, FS_Subset, FS_CardinalityType
<1>4. ASSUME NEW k \in Nat PROVE Rank(t, k) \in Nat /\ Rank(t, k) <= Cardinality(LinesOf(t))
  <2> DEFINE S == {j \in LinesOf(t) : j <= k}
  <2>1. S \subseteq LinesOf(t)
    OBVIOUS
  <2> HIDE DEF S
  <2>2. IsFiniteSet(S) /\ Cardinality(S) \in Nat /\ Cardinality(S) <= Cardinality(LinesOf(t))
    BY <1>3, <2>1, FS_Subset, FS_CardinalityType
  <2> QED BY <2>2 DEF Rank, S
<1> QED BY <1>3, <1>4

(* One more line: it takes the next rank of its thread.                    *)
LEMMA OneMoreLine ==
  ASSUME TraceTypes, NEW l \in TracedLines, events' = Append(events, l)
  PROVE  /\ events' \in Seq(TracedLines) /\ Len(events') = Len(events) + 1 /\ events'[Len(events) + 1] = l
         /\ \A k \in 1..Len(events) : events'[k] = events[k]
         /\ \A t \in THREADS : \A k \in 1..Len(events) : Rank(t, k)' = Rank(t, k)
         /\ \A t \in THREADS : l.thread # t => LinesOf(t)' = LinesOf(t)
         /\ \A t \in THREADS : l.thread = t =>
              /\ LinesOf(t)' = LinesOf(t) \union {Len(events) + 1}
              /\ Cardinality(LinesOf(t))' = Cardinality(LinesOf(t)) + 1
              /\ \A k \in {Len(events) + 1} : Rank(t, k)' = Cardinality(LinesOf(t)) + 1
<1>0. PICK z \in Nat : z = Len(events) + 1
  BY DEF TraceTypes
<1>1. /\ Len(events) \in Nat /\ DOMAIN events = 1..Len(events) /\ events' \in Seq(TracedLines) /\ Len(events') = z /\ events'[z] = l
      /\ DOMAIN events' = 1..z /\ \A k \in 1..Len(events) : events'[k] = events[k]
  BY <1>0, AppendProperties DEF TraceTypes
<1>2. ASSUME NEW t \in THREADS
      PROVE  /\ l.thread # t => LinesOf(t)' = LinesOf(t)
             /\ l.thread = t => LinesOf(t)' = LinesOf(t) \union {z}
  BY <1>1 DEF LinesOf
<1>3. ASSUME NEW t \in THREADS PROVE LinesOf(t) \subseteq 1..Len(events)
  BY <1>1 DEF LinesOf
<1>4. ASSUME NEW t \in THREADS, NEW k \in 1..Len(events) PROVE Rank(t, k)' = Rank(t, k)
  <2>1. {j \in LinesOf(t)' : j <= k} = {j \in LinesOf(t) : j <= k}
    BY <1>1, <1>2, <1>3
  <2> QED BY <2>1 DEF Rank
<1>5. ASSUME NEW t \in THREADS, l.thread = t
      PROVE  /\ Cardinality(LinesOf(t))' = Cardinality(LinesOf(t)) + 1
             /\ Rank(t, z)' = Cardinality(LinesOf(t)) + 1
  <2>1. z \notin LinesOf(t) /\ IsFiniteSet(LinesOf(t))
    BY <1>1, <1>3, RanksAre
  <2>2. Cardinality(LinesOf(t) \union {z}) = Cardinality(LinesOf(t)) + 1
    BY <2>1, FS_AddElement
  <2>3. {j \in LinesOf(t)' : j <= z} = LinesOf(t)'
    BY <1>1, <1>2, <1>3, <1>5
  <2>4. LinesOf(t)' = LinesOf(t) \union {z}
    BY <1>2, <1>5
  <2> QED BY <2>2, <2>3, <2>4 DEF Rank
<1> QED BY <1>0, <1>1, <1>2, <1>4, <1>5

(* What a line was kept as stays true while the rest grows.                *)
LEMMA KeptStays ==
  ASSUME TraceTypes, TraceTypes', NEW k \in 1..Len(events), events[k] # Torn, KeptAs(k),
         events'[k] = events[k], \A t \in THREADS : Rank(t, k)' = Rank(t, k),
         Len(bin') >= Len(bin), \A i \in 1..Len(bin) : bin'[i] = bin[i],
         \A t \in THREADS : Len(happened'[t]) >= Len(happened[t]) /\ \A i \in 1..Len(happened[t]) : happened'[t][i] = happened[t][i]
  PROVE  KeptAs(k)'
<1>1. events[k] \in TracedEvents /\ Len(bin) \in Nat /\ Len(bin') \in Nat
  BY DEF TraceTypes, TracedLines
<1>0. PICK e \in TracedEvents : e = events[k]
  BY <1>1
<1> DEFINE n == Rank(e.thread, k)
<1>2. e.thread \in THREADS /\ e.off \in Nat /\ e.len \in 0..2 /\ e = events[k] /\ events'[k] = e
  BY <1>0 DEF TracedEvents
<1>3. Len(happened[e.thread]) \in Nat /\ Len(happened'[e.thread]) \in Nat
  BY <1>2, SMTT(30) DEF TraceTypes
<1>4. /\ n \in 1..Len(happened[e.thread]) /\ happened[e.thread][n] = <<e.call, [ok |-> e.ok, len |-> e.len]>> /\ WellFormed(e)
      /\ e.call = "stream" => e.off + e.len <= Len(bin) /\ \A i \in 1..e.len : bin[e.off + i] = k
  BY <1>2 DEF KeptAs
<1> HIDE DEF n
<1>5. Rank(e.thread, k)' = n
  BY <1>2 DEF n
<1>6. n \in 1..Len(happened'[e.thread]) /\ happened'[e.thread][n] = <<e.call, [ok |-> e.ok, len |-> e.len]>>
  BY <1>2, <1>3, <1>4, SMTT(30)
<1>7. e.call = "stream" => e.off + e.len <= Len(bin') /\ \A i \in 1..e.len : bin'[e.off + i] = k
  <2> SUFFICES ASSUME e.call = "stream", NEW i \in 1..e.len PROVE e.off + e.len <= Len(bin') /\ bin'[e.off + i] = k
    BY <1>1, <1>2, <1>4
  <2>1. i \in Nat /\ i >= 1 /\ i <= e.len /\ e.len \in Nat
    BY <1>2
  <2>2. e.off + i \in 1..Len(bin)
    BY <1>1, <1>2, <1>4, <2>1, SMTT(30)
  <2> QED BY <1>1, <1>2, <1>4, <2>2, SMTT(30)
<1>8. WellFormed(e)'
  <2>1. e.call \in TracedCalls
    BY DEF TracedEvents
  <2>2. CASE e.call = "stream"
    BY <1>1, <1>2, <1>4, <1>7, <2>2 DEF WellFormed
  <2>3. CASE e.call \in LinkCalls
    BY <1>4, <2>3 DEF WellFormed, LinkCalls
  <2> QED BY <2>1, <2>2, <2>3 DEF TracedCalls
<1> QED BY <1>2, <1>5, <1>6, <1>7, <1>8 DEF KeptAs

(* Bytes behind those that are there.                                      *)
LEMMA BytesFollow ==
  ASSUME NEW b \in Seq(Nat), NEW u \in Seq(Nat)
  PROVE  /\ b \o u \in Seq(Nat) /\ Len(b \o u) = Len(b) + Len(u)
         /\ \A i \in 1..Len(b) : (b \o u)[i] = b[i]
         /\ \A i \in 1..Len(u) : (b \o u)[Len(b) + i] = u[i]
BY ConcatProperties

(* So many bytes of one event.                                             *)
LEMMA BytesAre ==
  ASSUME NEW n \in 0..2, NEW x \in Nat
  PROVE  [k \in 1..n |-> x] \in Seq(Nat) /\ Len([k \in 1..n |-> x]) = n
OBVIOUS

(* The event of a call is what the caller was told, and would be loaded.   *)
LEMMA EventIs ==
  ASSUME TraceTypes, NEW t \in THREADS, NEW c \in CallsOf(t), NEW given \in Answers(c)
  PROVE  /\ c \in TracedCalls /\ Told(c, given) \in TracedAnswers
         /\ Event(t, c, Told(c, given)) \in TracedEvents /\ Event(t, c, Told(c, given)).thread = t
         /\ Event(t, c, Told(c, given)).call = c
         /\ [ok |-> Event(t, c, Told(c, given)).ok, len |-> Event(t, c, Told(c, given)).len] = Told(c, given)
         /\ c = "stream" => Event(t, c, Told(c, given)).off = streamOff
         /\ Event(t, c, Told(c, given)).len = Told(c, given).len
         /\ \A e \in {Event(t, c, Told(c, given))} :
              (c = "stream" => streamOff + Told(c, given).len <= Len(bin')) => WellFormed(e)'
<1>1. c \in TracedCalls /\ (c = "stream" \/ c \in LinkCalls)
  BY DEF CallsOf, TracedCalls
<1>2. given \in TracedAnswers /\ (c \notin {"in", "stream"} => given.len = LengthOf(c))
  BY DEF Answers, TracedAnswers, LengthOf
<1>3. PICK a \in TracedAnswers : a = Told(c, given)
  <2>1. Told(c, given) \in TracedAnswers
    BY <1>2 DEF Told, TracedAnswers
  <2> QED BY <2>1
<1>4. a.ok \in BOOLEAN /\ a.len \in 0..2 /\ a = [ok |-> a.ok, len |-> a.len] /\ (c \in {"in", "stream"} /\ ~a.ok => a.len = 0)
  <2>1. a.ok \in BOOLEAN /\ a.len \in 0..2 /\ a = [ok |-> a.ok, len |-> a.len]
    BY DEF TracedAnswers
  <2>2. ASSUME c \in {"in", "stream"}, ~a.ok PROVE a.len = 0
    <3>1. CASE given.ok
      BY <1>2, <1>3, <2>2, <3>1 DEF Told
    <3>2. CASE ~given.ok
      <4>1. a = [given EXCEPT !.len = 0]
        BY <1>3, <2>2, <3>2 DEF Told
      <4> QED BY <1>2, <4>1 DEF TracedAnswers
    <3> QED BY <3>1, <3>2
  <2> QED BY <2>1, <2>2
<1>5. c \notin {"in", "stream"} => a.len = LengthOf(c)
  BY <1>2, <1>3 DEF Told
<1>6. PICK e \in TracedEvents : e = Event(t, c, a)
  <2> DEFINE d == a.len > 0 /\ c \notin {"download", "stream", "reopen"} /\ (c = "control_in" => a.ok)
             o == IF c = "stream" THEN streamOff ELSE 0
  <2>1. d \in BOOLEAN
    OBVIOUS
  <2>2. o \in Nat
    BY DEF TraceTypes
  <2>3. Event(t, c, a) = [thread |-> t, call |-> c, ok |-> a.ok, len |-> a.len, data |-> d, hash |-> c = "download", off |-> o]
    BY DEF Event
  <2> HIDE DEF d, o
  <2>4. Event(t, c, a) \in TracedEvents
    BY <1>1, <1>4, <2>1, <2>2, <2>3 DEF TracedEvents
  <2> QED BY <2>4
<1>7. /\ e.thread = t /\ e.call = c /\ e.ok = a.ok /\ e.len = a.len /\ (c = "stream" => e.off = streamOff) /\ (e.hash <=> c = "download")
      /\ (e.data <=> a.len > 0 /\ c \notin {"download", "stream", "reopen"} /\ (c = "control_in" => a.ok))
  BY <1>6 DEF Event
<1>8. e # Torn
  <2>1. Torn.thread = "none" /\ "none" \notin THREADS
    BY DEF Torn, THREADS
  <2> QED BY <1>7, <2>1
<1>9. ASSUME c = "stream" => streamOff + a.len <= Len(bin') PROVE \A x \in {Event(t, c, a)} : WellFormed(x)'
  <2> SUFFICES WellFormed(e)'
    BY <1>6
  <2>1. CASE c = "stream"
    BY <1>4, <1>7, <1>8, <1>9, <2>1 DEF WellFormed
  <2>2. CASE c \in LinkCalls
    <3>1. CASE c \in {"out", "control_out", "download"}
      BY <1>4, <1>5, <1>7, <1>8, <3>1 DEF WellFormed
    <3>2. CASE c = "in"
      BY <1>4, <1>7, <1>8, <3>2 DEF WellFormed
    <3>3. CASE c = "control_in"
      BY <1>4, <1>7, <1>8, <3>3 DEF WellFormed
    <3>4. CASE c = "reopen"
      BY <1>4, <1>7, <1>8, <3>4 DEF WellFormed
    <3> QED BY <2>2, <3>1, <3>2, <3>3, <3>4 DEF LinkCalls
  <2> QED BY <1>1, <2>1, <2>2
<1> QED BY <1>1, <1>3, <1>4, <1>6, <1>7, <1>9

(* After a failure the file grows at most by what is not loaded.           *)
LEMMA FileStays ==
  ASSUME TraceTypes, TraceFile, TraceTypes', failed', events' = events \/ events' = Append(events, Torn),
         Len(bin') >= Len(bin), \A i \in 1..Len(bin) : bin'[i] = bin[i],
         \A t \in THREADS : Len(happened'[t]) >= Len(happened[t]) /\ \A i \in 1..Len(happened[t]) : happened'[t][i] = happened[t][i]
  PROVE  TraceFile'
<1>1. Torn.thread \notin THREADS /\ Torn \in TracedLines
  BY DEF Torn, THREADS, TracedLines
<1>2. /\ Len(events) \in Nat /\ Len(events') \in {Len(events), Len(events) + 1} /\ \A k \in 1..Len(events) : events'[k] = events[k]
      /\ \A t \in THREADS : LinesOf(t)' = LinesOf(t) /\ \A k \in 1..Len(events) : Rank(t, k)' = Rank(t, k)
      /\ \A k \in 1..Len(events') : k \in 1..Len(events) \/ events'[k] = Torn
  <2>0. Len(events) \in Nat
    BY DEF TraceTypes
  <2>1. CASE events' = events
    BY <2>0, <2>1 DEF Rank, LinesOf
  <2>2. CASE events' = Append(events, Torn)
    <3>1. /\ Len(events') = Len(events) + 1 /\ events'[Len(events) + 1] = Torn
          /\ \A k \in 1..Len(events) : events'[k] = events[k]
          /\ \A t \in THREADS : \A k \in 1..Len(events) : Rank(t, k)' = Rank(t, k)
          /\ \A t \in THREADS : LinesOf(t)' = LinesOf(t)
      BY <1>1, <2>2, OneMoreLine
    <3> QED BY <2>0, <3>1
  <2> QED BY <2>1, <2>2
<1>3. ASSUME NEW k \in 1..Len(events'), events'[k] # Torn PROVE KeptAs(k)'
  <2>1. k \in 1..Len(events) /\ events'[k] = events[k] /\ \A t \in THREADS : Rank(t, k)' = Rank(t, k)
    BY <1>2, <1>3
  <2>2. KeptAs(k) /\ events[k] # Torn
    BY <1>3, <2>1 DEF TraceFile
  <2> QED BY <2>1, <2>2, KeptStays
<1>4. ASSUME NEW t \in THREADS
      PROVE  /\ Cardinality(LinesOf(t))' <= Len(happened[t])'
             /\ \A n \in 1..Cardinality(LinesOf(t))' : \E k \in LinesOf(t)' : Rank(t, k)' = n
  <2>1. Len(happened[t]) \in Nat /\ Len(happened'[t]) \in Nat /\ Cardinality(LinesOf(t)) \in Nat /\ LinesOf(t) \subseteq 1..Len(events)
    <3>1. Cardinality(LinesOf(t)) \in Nat
      BY RanksAre
    <3> QED BY <3>1 DEF TraceTypes, LinesOf
  <2>2. LinesOf(t)' = LinesOf(t) /\ \A k \in LinesOf(t) : Rank(t, k)' = Rank(t, k)
    BY <1>2, <2>1
  <2> QED BY <2>1, <2>2 DEF TraceFile
<1> QED BY <1>3, <1>4 DEF TraceFile

(* A call recorded: the event is its thread's next.                        *)
LEMMA WrittenKeeps ==
  ASSUME TraceTypes, TraceFile, TraceTypes', NEW t \in THREADS, NEW c \in CallsOf(t), NEW given \in Answers(c),
         happened' = [happened EXCEPT ![t] = Append(@, <<c, Told(c, given)>>)],
         Written(t, c, Told(c, given))
  PROVE  TraceFile'
<1>1. PICK a \in TracedAnswers : a = Told(c, given)
  BY EventIs
<1>2. PICK l \in TracedEvents :
        /\ l = Event(t, c, a) /\ l.thread = t /\ l.call = c /\ [ok |-> l.ok, len |-> l.len] = a /\ l.len = a.len
        /\ c = "stream" => l.off = streamOff
        /\ (c = "stream" => streamOff + a.len <= Len(bin')) => WellFormed(l)'
  <2>1. Event(t, c, a) \in TracedEvents
    BY <1>1, EventIs
  <2>2. PICK e \in TracedEvents : e = Event(t, c, a)
    BY <2>1
  <2>3. e.thread = t /\ e.call = c /\ [ok |-> e.ok, len |-> e.len] = a /\ e.len = a.len /\ (c = "stream" => e.off = streamOff)
    BY <1>1, <2>2, EventIs
  <2>4. (c = "stream" => streamOff + a.len <= Len(bin')) => WellFormed(e)'
    BY <1>1, <2>2, EventIs
  <2> QED BY <2>2, <2>3, <2>4
<1>3. c \in TracedCalls /\ a.len \in 0..2
  BY <1>1, EventIs DEF TracedAnswers
<1>4. PICK z \in Nat : z = Len(events) + 1
  BY DEF TraceTypes
<1>5. PICK u \in Seq(Nat) : /\ bin' = bin \o u /\ streamOff' = streamOff + Len(u)
                            /\ c = "stream" => Len(u) = a.len /\ \A i \in 1..a.len : u[i] = z
  <2> DEFINE w == IF c = "stream" THEN [k \in 1..a.len |-> z] ELSE <<>>
  <2>1. bin' = bin \o w /\ streamOff' = streamOff + Len(w)
    BY <1>1, <1>4 DEF Written
  <2>2. w \in Seq(Nat) /\ (c = "stream" => Len(w) = a.len /\ \A i \in 1..a.len : w[i] = z)
    BY <1>3, <1>4, BytesAre
  <2> QED BY <2>1, <2>2
<1>6. events' = Append(events, l) /\ ~failed /\ failed' = failed /\ failed_file' = failed_file
  BY <1>1, <1>2 DEF Written
<1>7. /\ Len(bin) \in Nat /\ Len(u) \in Nat /\ Len(bin') = Len(bin) + Len(u) /\ streamOff = Len(bin) /\ streamOff' = Len(bin')
      /\ \A i \in 1..Len(bin) : bin'[i] = bin[i]
      /\ \A i \in 1..Len(u) : bin'[Len(bin) + i] = u[i]
  <2>1. bin \in Seq(Nat) /\ Len(bin) \in Nat /\ Len(u) \in Nat
    BY DEF TraceTypes
  <2>2. streamOff = Len(bin)
    BY <1>6 DEF TraceFile
  <2>3. /\ Len(bin') = Len(bin) + Len(u) /\ \A i \in 1..Len(bin) : bin'[i] = bin[i]
        /\ \A i \in 1..Len(u) : bin'[Len(bin) + i] = u[i]
    BY <1>5, <2>1, BytesFollow
  <2>4. streamOff' = Len(bin')
    BY <1>5, <2>2, <2>3
  <2> QED BY <2>1, <2>2, <2>3, <2>4
<1>8. /\ Len(events') = z /\ events'[z] = l /\ \A k \in 1..Len(events) : events'[k] = events[k]
      /\ \A s \in THREADS : \A k \in 1..Len(events) : Rank(s, k)' = Rank(s, k)
      /\ \A s \in THREADS : s # t => LinesOf(s)' = LinesOf(s)
      /\ LinesOf(t)' = LinesOf(t) \union {z} /\ Cardinality(LinesOf(t))' = Cardinality(LinesOf(t)) + 1
      /\ Rank(t, z)' = Cardinality(LinesOf(t)) + 1
  BY <1>2, <1>4, <1>6, OneMoreLine DEF TracedLines
<1>9. \A s \in THREADS : Cardinality(LinesOf(s)) = Len(happened[s]) /\ Cardinality(LinesOf(s)) \in Nat /\ LinesOf(s) \subseteq 1..Len(events)
  <2>1. \A s \in THREADS : Cardinality(LinesOf(s)) \in Nat
    BY RanksAre
  <2>2. \A s \in THREADS : LinesOf(s) \subseteq 1..Len(events)
    BY SMTT(30) DEF LinesOf, TraceTypes
  <2> QED BY <1>6, <2>1, <2>2 DEF TraceFile
<1>10. /\ Len(happened'[t]) = Len(happened[t]) + 1 /\ happened'[t][Len(happened[t]) + 1] = <<c, a>>
       /\ \A s \in THREADS : s # t => happened'[s] = happened[s]
       /\ \A s \in THREADS : Len(happened'[s]) >= Len(happened[s]) /\ \A i \in 1..Len(happened[s]) : happened'[s][i] = happened[s][i]
  <2>1. <<c, a>> \in TracedCalls \X TracedAnswers /\ happened[t] \in Seq(TracedCalls \X TracedAnswers)
    BY <1>3 DEF TraceTypes
  <2>2. happened'[t] = Append(happened[t], <<c, a>>) /\ \A s \in THREADS : s # t => happened'[s] = happened[s]
    BY <1>1 DEF TraceTypes
  <2>3. \A s \in THREADS : Len(happened[s]) \in Nat
    BY DEF TraceTypes
  <2> QED BY <2>1, <2>2, <2>3, AppendProperties
<1>11. KeptAs(z)'
  <2>1. Rank(t, z)' = Len(happened[t]) + 1 /\ Len(happened[t]) \in Nat
    BY <1>8, <1>9
  <2>2. ASSUME c = "stream" PROVE l.off + l.len <= Len(bin') /\ \A i \in 1..l.len : bin'[l.off + i] = z
    <3>1. l.off = Len(bin) /\ l.len = a.len /\ Len(u) = a.len /\ \A i \in 1..a.len : u[i] = z
      BY <1>2, <1>5, <1>7, <2>2
    <3>2. Len(bin') = l.off + l.len
      BY <1>7, <3>1
    <3>3. ASSUME NEW i \in 1..l.len PROVE bin'[l.off + i] = z
      <4>1. bin'[Len(bin) + i] = u[i] /\ u[i] = z
        BY <1>7, <3>1
      <4> QED BY <3>1, <4>1
    <3>4. l.off + l.len <= Len(bin')
      BY <1>7, <3>2
    <3> QED BY <3>3, <3>4
  <2>3. WellFormed(l)'
    BY <1>2, <1>5, <1>7
  <2>4. Rank(t, z)' \in 1..Len(happened'[t]) /\ happened'[t][Rank(t, z)'] = <<l.call, [ok |-> l.ok, len |-> l.len]>>
    BY <1>2, <1>10, <2>1
  <2> QED BY <1>2, <1>8, <2>2, <2>3, <2>4 DEF KeptAs
<1>12. Len(bin') >= Len(bin)
  BY <1>7
<1>13. Torn.thread # t
  BY DEF Torn, THREADS
<1>14. ASSUME NEW k \in 1..Len(events') PROVE events'[k] # Torn /\ KeptAs(k)'
  <2>1. CASE k = z
    BY <1>2, <1>8, <1>11, <1>13, <2>1
  <2>2. CASE k # z
    <3>1. k \in 1..Len(events)
      BY <1>4, <1>8, <2>2
    <3>2. events[k] # Torn /\ KeptAs(k) /\ events'[k] = events[k]
      BY <1>6, <1>8, <3>1 DEF TraceFile
    <3> QED BY <1>7, <1>8, <1>10, <1>12, <3>1, <3>2, KeptStays
  <2> QED BY <2>1, <2>2
<1>15. ASSUME NEW s \in THREADS
       PROVE  /\ Cardinality(LinesOf(s))' = Len(happened[s])'
              /\ Cardinality(LinesOf(s))' \in Nat
              /\ \A n \in 1..Cardinality(LinesOf(s))' : \E k \in LinesOf(s)' : Rank(s, k)' = n
  <2>1. \A n \in 1..Cardinality(LinesOf(s)) : \E k \in LinesOf(s) : Rank(s, k)' = n
    <3>1. \A k \in LinesOf(s) : Rank(s, k)' = Rank(s, k)
      BY <1>8, <1>9
    <3> QED BY <3>1 DEF TraceFile
  <2>2. CASE s = t
    <3> SUFFICES ASSUME NEW n \in 1..(Cardinality(LinesOf(s)) + 1) PROVE \E k \in LinesOf(s)' : Rank(s, k)' = n
      <4>1. Cardinality(LinesOf(s))' = Cardinality(LinesOf(s)) + 1 /\ Cardinality(LinesOf(s)) \in Nat
        BY <1>8, <1>9, <2>2
      <4>2. Len(happened[s])' = Cardinality(LinesOf(s)) + 1
        BY <1>9, <1>10, <2>2
      <4>3. \A n \in 1..Cardinality(LinesOf(s))' : n \in 1..(Cardinality(LinesOf(s)) + 1)
        BY <4>1
      <4> QED BY <4>1, <4>2, <4>3
    <3>1. CASE n = Cardinality(LinesOf(s)) + 1
      BY <1>8, <2>2, <3>1
    <3>2. CASE n # Cardinality(LinesOf(s)) + 1
      <4>1. n \in 1..Cardinality(LinesOf(s))
        BY <1>9, <3>2
      <4> QED BY <1>8, <2>1, <2>2, <4>1
    <3> QED BY <3>1, <3>2
  <2>3. CASE s # t
    BY <1>8, <1>9, <1>10, <2>1, <2>3
  <2> QED BY <2>2, <2>3
<1>16. \A s \in THREADS : Cardinality(LinesOf(s))' <= Len(happened[s])'
  BY <1>15
<1>17. ~failed_file'
  BY <1>6 DEF TraceFile
<1> QED BY <1>7, <1>14, <1>15, <1>16, <1>17 DEF TraceFile

(* A call is recorded, or one is not any more.                             *)
LEMMA RecordingKeeps == ASSUME TraceInv, NEW t \in THREADS, Records(t) PROVE TraceInv'
<1>1. PICK c \in CallsOf(t) : \E given \in Answers(c) :
        /\ happened' = [happened EXCEPT ![t] = Append(@, <<c, Told(c, given)>>)]
        /\ Written(t, c, Told(c, given)) \/ NotWritten(t, c, Told(c, given)) \/ AfterFailure
  BY DEF Records
<1>0. PICK given \in Answers(c) :
        /\ happened' = [happened EXCEPT ![t] = Append(@, <<c, Told(c, given)>>)]
        /\ Written(t, c, Told(c, given)) \/ NotWritten(t, c, Told(c, given)) \/ AfterFailure
  BY <1>1
<1>2. mode = "recording" /\ mode' = mode /\ cursor' = cursor /\ answers' = answers /\ surprised' = surprised /\ idle_now' = idle_now
  BY DEF Records, Replaying
<1>3. TraceTypes /\ TraceFile /\ TraceReplay
  BY DEF TraceInv
<1>4. PICK a \in TracedAnswers : a = Told(c, given)
  BY <1>3, EventIs
<1>5. c \in TracedCalls /\ a.len \in 0..2
  BY <1>3, EventIs DEF TracedAnswers
<1>6. /\ happened' \in [THREADS -> Seq(TracedCalls \X TracedAnswers)]
      /\ \A s \in THREADS : Len(happened'[s]) >= Len(happened[s]) /\ \A i \in 1..Len(happened[s]) : happened'[s][i] = happened[s][i]
  <2>1. <<c, a>> \in TracedCalls \X TracedAnswers /\ happened[t] \in Seq(TracedCalls \X TracedAnswers)
    BY <1>3, <1>5 DEF TraceTypes
  <2>2. PICK h \in Seq(TracedCalls \X TracedAnswers) : h = Append(happened[t], <<c, a>>)
    BY <2>1, AppendProperties
  <2>3. happened' = [happened EXCEPT ![t] = h]
    BY <1>0, <1>4, <2>2
  <2>4. happened'[t] = h /\ \A s \in THREADS : s # t => happened'[s] = happened[s]
    BY <1>3, <2>3 DEF TraceTypes
  <2>5. \A s \in THREADS : Len(happened[s]) \in Nat
    BY <1>3 DEF TraceTypes
  <2>6. Len(h) = Len(happened[t]) + 1 /\ \A i \in 1..Len(happened[t]) : h[i] = happened[t][i]
    BY <2>1, <2>2, AppendProperties
  <2> QED BY <1>3, <2>3, <2>4, <2>5, <2>6 DEF TraceTypes
<1>7. TraceReplay'
  <2>1. \A s \in THREADS : answers[s] = <<>> /\ cursor[s] = Len(answers[s])
    BY <1>2, <1>3 DEF TraceReplay
  <2>2. \A s \in THREADS : Len(happened'[s]) \in Nat
    BY <1>6
  <2>3. \A s \in THREADS : Len(answers[s]) = 0
    BY <2>1
  <2> QED BY <1>2, <1>3, <2>1, <2>2, <2>3 DEF TraceReplay
<1> DEFINE Bytes(z) == IF c = "stream" THEN [k \in 1..a.len |-> z] ELSE <<>>
<1>8. Torn \in TracedLines /\ \A z \in Nat : Bytes(z) \in Seq(Nat)
  <2>1. \A z \in Nat : [k \in 1..a.len |-> z] \in Seq(Nat)
    BY <1>5, BytesAre
  <2>2. <<>> \in Seq(Nat)
    OBVIOUS
  <2> QED BY <2>1, <2>2 DEF TracedLines
<1>9. ASSUME Written(t, c, a) PROVE TraceTypes' /\ TraceFile'
  <2>1. PICK l \in TracedLines : events' = Append(events, l)
    BY <1>3, <1>4, <1>9, EventIs DEF Written, TracedLines
  <2>2. events' \in Seq(TracedLines) /\ Len(events) + 1 \in Nat
    BY <1>3, <2>1, AppendProperties DEF TraceTypes
  <2>3. PICK u \in Seq(Nat) : bin' = bin \o u /\ streamOff' = streamOff + Len(u)
    <3>1. bin' = bin \o Bytes(Len(events) + 1) /\ streamOff' = streamOff + Len(Bytes(Len(events) + 1))
      BY <1>9 DEF Written
    <3> HIDE DEF Bytes
    <3> QED BY <1>8, <2>2, <3>1
  <2>4. bin' \in Seq(Nat) /\ streamOff' \in Nat
    BY <1>3, <2>3, BytesFollow DEF TraceTypes
  <2>5. TraceTypes'
    BY <1>2, <1>3, <1>6, <2>2, <2>4 DEF TraceTypes
  <2> QED BY <1>0, <1>3, <1>4, <1>9, <2>5, WrittenKeeps
<1>10. ASSUME NotWritten(t, c, a) PROVE TraceTypes' /\ TraceFile'
  <2>1. failed' /\ (events' = events \/ events' = Append(events, Torn))
    BY <1>10 DEF NotWritten, Latched
  <2>2. PICK u \in Seq(Nat) : bin' = bin \o u /\ streamOff' \in {streamOff, streamOff + Len(u)}
    <3>1. CASE bin' = bin /\ streamOff' = streamOff
      <4>1. <<>> \in Seq(Nat) /\ bin = bin \o <<>>
        BY <1>3, ConcatEmptySeq DEF TraceTypes
      <4> QED BY <3>1, <4>1
    <3>2. CASE bin' = Append(bin, 0) /\ streamOff' = streamOff
      <4>1. <<0>> \in Seq(Nat) /\ Append(bin, 0) = bin \o <<0>>
        BY <1>3, AppendIsConcat DEF TraceTypes
      <4> QED BY <3>2, <4>1
    <3>3. CASE bin' = bin \o Bytes(0) /\ streamOff' = streamOff + Len(Bytes(0))
      <4> HIDE DEF Bytes
      <4> QED BY <1>8, <3>3
    <3> QED BY <1>10, <3>1, <3>2, <3>3 DEF NotWritten
  <2>3. bin' \in Seq(Nat) /\ streamOff' \in Nat /\ Len(bin') >= Len(bin) /\ \A i \in 1..Len(bin) : bin'[i] = bin[i]
    <3>1. Len(u) \in Nat /\ Len(bin) \in Nat /\ bin \in Seq(Nat) /\ streamOff \in Nat
      BY <1>3 DEF TraceTypes
    <3> QED BY <2>2, <3>1, BytesFollow
  <2>4. events' \in Seq(TracedLines)
    <3>1. events \in Seq(TracedLines) /\ Torn \in TracedLines
      BY <1>3, <1>8 DEF TraceTypes
    <3>2. Append(events, Torn) \in Seq(TracedLines)
      BY <3>1, AppendProperties
    <3> QED BY <2>1, <3>1, <3>2
  <2>5. TraceTypes'
    BY <1>2, <1>3, <1>6, <2>3, <2>4 DEF TraceTypes
  <2> QED BY <1>3, <1>6, <2>1, <2>3, <2>5, FileStays
<1>11. ASSUME AfterFailure PROVE TraceTypes' /\ TraceFile'
  <2>1. failed' /\ events' = events /\ bin' = bin /\ streamOff' = streamOff /\ Len(bin) \in Nat
    BY <1>3, <1>11 DEF AfterFailure, TraceTypes
  <2>2. TraceTypes'
    BY <1>2, <1>3, <1>6, <2>1 DEF TraceTypes
  <2>3. Len(bin') >= Len(bin) /\ \A i \in 1..Len(bin) : bin'[i] = bin[i]
    BY <2>1
  <2> QED BY <1>3, <1>6, <2>1, <2>2, <2>3, FileStays
<1> QED BY <1>0, <1>4, <1>7, <1>9, <1>10, <1>11 DEF TraceInv

(* The queue of a thread is what happened to it, as far as it was kept.    *)
LEMMA QueueIs ==
  ASSUME TraceTypes, TraceFile, NEW t \in THREADS
  PROVE  /\ Cardinality(LinesOf(t)) \in Nat /\ DOMAIN Queue(t) = 1..Cardinality(LinesOf(t))
         /\ Len(Queue(t)) = Cardinality(LinesOf(t)) /\ Len(Queue(t)) <= Len(happened[t])
         /\ failed \/ Len(Queue(t)) = Len(happened[t])
         /\ \A n \in 1..Len(Queue(t)) :
              /\ Queue(t)[n].len \in 0..2 /\ (Queue(t)[n].call = "stream" => Intact(Queue(t)[n]))
              /\ happened[t][n] = <<Queue(t)[n].call, [ok |-> Queue(t)[n].ok, len |-> Queue(t)[n].len]>>
<1>1. Cardinality(LinesOf(t)) \in Nat
  BY RanksAre
<1>2. DOMAIN Queue(t) = 1..Cardinality(LinesOf(t)) /\ Len(Queue(t)) = Cardinality(LinesOf(t))
  BY <1>1 DEF Queue
<1>3. ASSUME NEW n \in 1..Cardinality(LinesOf(t))
      PROVE  /\ Queue(t)[n].len \in 0..2 /\ (Queue(t)[n].call = "stream" => Intact(Queue(t)[n]))
             /\ happened[t][n] = <<Queue(t)[n].call, [ok |-> Queue(t)[n].ok, len |-> Queue(t)[n].len]>>
  <2>1. \E k \in LinesOf(t) : Rank(t, k) = n
    BY DEF TraceFile
  <2>2. PICK k \in LinesOf(t) : Rank(t, k) = n /\ k = CHOOSE j \in LinesOf(t) : Rank(t, j) = n
    BY <2>1
  <2>3. Queue(t)[n] = events[k]
    BY <2>2 DEF Queue
  <2>4. k \in 1..Len(events) /\ events[k].thread = t
    BY <2>2 DEF LinesOf, TraceTypes
  <2>5. Torn.thread # t
    BY DEF Torn, THREADS
  <2>6. KeptAs(k) /\ events[k] \in TracedEvents
    BY <2>4, <2>5 DEF TraceFile, TraceTypes, TracedLines
  <2>7. PICK e \in TracedEvents : e = events[k]
    BY <2>6
  <2>8. e.len \in 0..2 /\ e.thread = t /\ happened[t][n] = <<e.call, [ok |-> e.ok, len |-> e.len]>>
        /\ (e.call = "stream" => \A i \in 1..e.len : bin[e.off + i] = k)
    BY <2>2, <2>4, <2>6, <2>7 DEF KeptAs, TracedEvents
  <2>9. ASSUME e.call = "stream" PROVE Intact(e)
    <3>1. DOMAIN BytesOf(e) = 1..e.len /\ \A i \in 1..e.len : BytesOf(e)[i] = k
      BY <2>8, <2>9 DEF BytesOf
    <3>2. k # 0
      BY <2>4
    <3> QED BY <3>1, <3>2 DEF Intact
  <2> QED BY <2>3, <2>7, <2>8, <2>9
<1> QED BY <1>1, <1>2, <1>3 DEF TraceFile

(* The file rests once it is closed.                                       *)
LEMMA FileRests ==
  ASSUME TraceTypes, TraceFile, UNCHANGED <<happened, events, bin, streamOff, failed, failed_file>>
  PROVE  TraceFile'
<1>1. \A t \in THREADS \union {"none"} : LinesOf(t)' = LinesOf(t)
  BY DEF LinesOf
<1>2. \A t \in THREADS \union {"none"} : \A k \in Nat : Rank(t, k)' = Rank(t, k)
  BY <1>1 DEF Rank
<1>3. \A e \in TracedLines : WellFormed(e)' <=> WellFormed(e)
  BY DEF WellFormed
<1>4. ASSUME NEW k \in 1..Len(events) PROVE KeptAs(k)' <=> KeptAs(k)
  <2>1. PICK e \in TracedLines : e = events[k] /\ e = events'[k]
    BY DEF TraceTypes
  <2>2. e.thread \in THREADS \union {"none"}
    BY <2>1 DEF TracedLines, TracedEvents, Torn
  <2>3. Rank(e.thread, k)' = Rank(e.thread, k) /\ (WellFormed(e)' <=> WellFormed(e))
    <3>1. k \in Nat
      BY DEF TraceTypes
    <3> QED BY <1>2, <1>3, <2>2, <3>1
  <2> QED BY <2>1, <2>3 DEF KeptAs
<1>5. ASSUME NEW t \in THREADS
      PROVE  \A n \in 1..Cardinality(LinesOf(t)) : \E k \in LinesOf(t)' : Rank(t, k)' = n
  <2>1. \A k \in LinesOf(t) : k \in Nat
    BY DEF LinesOf, TraceTypes
  <2> QED BY <1>1, <1>2, <2>1 DEF TraceFile
<1> QED BY <1>1, <1>4, <1>5 DEF TraceFile

(* A caller repeats its call and is answered from its queue.               *)
LEMMA RepeatKeeps == ASSUME TraceInv, NEW t \in THREADS, Repeats(t) PROVE TraceInv'
<1>1. TraceTypes /\ TraceFile /\ TraceReplay
  BY DEF TraceInv
<1> DEFINE i == Len(answers[t]) + 1
           c == happened[t][i][1]
           a == Answer(t, c)
           e == Queue(t)[i]
<1>2. /\ mode = "replaying" /\ mode' = mode /\ UNCHANGED <<happened, events, bin, streamOff, failed, failed_file, idle_now>>
      /\ Len(answers[t]) < Len(happened[t]) /\ cursor[t] = Len(answers[t]) /\ Len(answers[t]) \in Nat /\ Len(happened[t]) \in Nat
      /\ cursor' = [cursor EXCEPT ![t] = IF Advances(t, c) THEN @ + 1 ELSE @]
      /\ IF Advances(t, c) /\ a # Mismatch
         THEN answers' = [answers EXCEPT ![t] = Append(@, <<c, a>>)] /\ UNCHANGED surprised
         ELSE surprised' = (surprised \/ ~failed) /\ UNCHANGED answers
  BY <1>1 DEF Repeats, TraceReplay, TraceTypes, Recorded
<1>3. /\ Len(Queue(t)) \in Nat /\ (failed \/ Len(Queue(t)) = Len(happened[t]))
      /\ \A n \in 1..Len(Queue(t)) :
              /\ Queue(t)[n].len \in 0..2 /\ (Queue(t)[n].call = "stream" => Intact(Queue(t)[n]))
              /\ happened[t][n] = <<Queue(t)[n].call, [ok |-> Queue(t)[n].ok, len |-> Queue(t)[n].len]>>
  BY <1>1, QueueIs
<1>4. happened[t][i] \in TracedCalls \X TracedAnswers
  BY <1>1, <1>2 DEF TraceTypes
<1>5. TraceFile'
  BY <1>1, <1>2, FileRests
<1>6. CASE cursor[t] < Len(Queue(t))
  <2>1. i \in 1..Len(Queue(t)) /\ i = cursor[t] + 1 /\ i <= Len(happened[t])
    BY <1>2, <1>3, <1>6
  <2>2. e.len \in 0..2 /\ (e.call = "stream" => Intact(e)) /\ happened[t][i] = <<e.call, [ok |-> e.ok, len |-> e.len]>> /\ c = e.call
    BY <1>3, <2>1, SMTT(30)
  <2> HIDE DEF e, c
  <2>3. Advances(t, c)
    BY <1>6, <2>1, <2>2 DEF Advances, e
  <2>4. a = [ok |-> e.ok, len |-> e.len]
    <3>1. ~(cursor[t] >= Len(Queue(t))) /\ Queue(t)[cursor[t] + 1] = e
      BY <1>1, <1>3, <1>6, <2>1 DEF e, TraceTypes
    <3>2. ~(e.call # c \/ (c = "stream" /\ e.ok /\ ~Intact(e)))
      BY <2>2
    <3> QED BY <3>1, <3>2 DEF Answer
  <2>5. a # Mismatch
    <3>1. a.len \in 0..2 /\ Mismatch.len = -1
      BY <2>2, <2>4 DEF Mismatch
    <3> QED BY <3>1
  <2> HIDE DEF a
  <2>6. <<c, a>> = happened[t][i]
    BY <2>2, <2>4
  <2> HIDE DEF i
  <2>7. answers' = [answers EXCEPT ![t] = Append(@, happened[t][i])] /\ surprised' = surprised /\ cursor' = [cursor EXCEPT ![t] = @ + 1]
    BY <1>2, <2>3, <2>5, <2>6
  <2>8. PICK q \in Seq(TracedCalls \X TracedAnswers) : q = Append(answers[t], happened[t][i])
    BY <1>1, <1>4, AppendProperties DEF TraceTypes
  <2>9. answers[t] \in Seq(TracedCalls \X TracedAnswers)
    BY <1>1 DEF TraceTypes
  <2>10. Len(q) = Len(answers[t]) + 1 /\ q[Len(answers[t]) + 1] = happened[t][i] /\ \A n \in 1..Len(answers[t]) : q[n] = answers[t][n]
    BY <1>4, <2>8, <2>9, AppendProperties
  <2>11. \A n \in 1..Len(q) : q[n] = happened[t][n]
    <3> SUFFICES ASSUME NEW n \in 1..Len(q) PROVE q[n] = happened[t][n]
      OBVIOUS
    <3>1. CASE n = Len(answers[t]) + 1
      BY <2>10, <3>1 DEF i
    <3>2. CASE n # Len(answers[t]) + 1
      <4>1. n \in 1..Len(answers[t])
        BY <1>2, <2>10, <3>2
      <4> QED BY <1>1, <2>10, <4>1 DEF TraceReplay
    <3> QED BY <3>1, <3>2
  <2>12. answers' = [answers EXCEPT ![t] = q]
    BY <2>7, <2>8
  <2>13. answers'[t] = q /\ cursor'[t] = Len(q) /\ Len(q) <= Len(happened[t]) /\ \A s \in THREADS : s # t => answers'[s] = answers[s] /\ cursor'[s] = cursor[s]
    BY <1>1, <1>2, <2>1, <2>7, <2>10, <2>12 DEF TraceTypes, i
  <2>14. TraceTypes'
    BY <1>1, <1>2, <2>7, <2>12 DEF TraceTypes
  <2>15. TraceReplay'
    BY <1>1, <1>2, <2>7, <2>11, <2>13 DEF TraceReplay
  <2> QED BY <1>5, <2>14, <2>15 DEF TraceInv
<1>7. CASE ~(cursor[t] < Len(Queue(t)))
  <2> HIDE DEF i, c, a, e
  <2>1. ~Advances(t, c) /\ failed
    BY <1>2, <1>3, <1>7 DEF Advances
  <2>2. answers' = answers /\ (surprised' <=> surprised) /\ cursor' = cursor
    BY <1>1, <1>2, <2>1 DEF TraceTypes
  <2>3. TraceTypes' /\ TraceReplay'
    BY <1>1, <1>2, <2>2 DEF TraceTypes, TraceReplay
  <2> QED BY <1>5, <2>3 DEF TraceInv
<1> QED BY <1>6, <1>7

(* A reader is told a timeout: all that its thread recorded has been told. *)
LEMMA IdleKeeps == ASSUME TraceInv, IdlesAgain PROVE TraceInv'
<1>1. TraceTypes /\ TraceFile /\ TraceReplay
  BY DEF TraceInv
<1> DEFINE n == Len(answers["stream"])
<1>2. /\ mode = "replaying" /\ Answer("stream", "stream") = TimedOut /\ idle_now' = idle_now \union {n}
      /\ UNCHANGED <<mode, happened, events, bin, streamOff, failed, failed_file, cursor, answers, surprised>>
  BY DEF IdlesAgain, Recorded
<1>3. "stream" \in THREADS
  BY DEF THREADS
<1>4. /\ Len(Queue("stream")) \in Nat /\ (failed \/ Len(Queue("stream")) = Len(happened["stream"]))
      /\ \A k \in 1..Len(Queue("stream")) : Queue("stream")[k].len \in 0..2
  BY <1>1, <1>3, QueueIs
<1>5. /\ cursor["stream"] = n /\ n \in Nat /\ n <= Len(happened["stream"]) /\ Len(happened["stream"]) \in Nat
  BY <1>1, <1>3 DEF TraceReplay, TraceTypes
<1>6. n >= Len(Queue("stream"))
  <2> SUFFICES ASSUME ~(n >= Len(Queue("stream"))) PROVE FALSE
    OBVIOUS
  <2>1. n + 1 \in 1..Len(Queue("stream"))
    BY <1>4, <1>5
  <2>2. PICK e : e = Queue("stream")[n + 1]
    OBVIOUS
  <2>3. TimedOut = Mismatch \/ TimedOut = [ok |-> e.ok, len |-> e.len]
    BY <1>2, <1>5, <2>2 DEF Answer
  <2>4. TimedOut.len = -2 /\ Mismatch.len = -1 /\ e.len \in 0..2
    BY <1>4, <2>1, <2>2 DEF TimedOut, Mismatch
  <2> QED BY <2>3, <2>4
<1>7. n <= Len(happened["stream"]) /\ (~failed => n = Len(happened["stream"]))
  BY <1>4, <1>5, <1>6
<1> HIDE DEF n
<1>8. TraceFile'
  BY <1>1, <1>2, FileRests
<1>9. TraceTypes' /\ TraceReplay'
  BY <1>1, <1>2, <1>7 DEF TraceTypes, TraceReplay
<1> QED BY <1>8, <1>9 DEF TraceInv

(* The recorder ends or is told a timeout, the trace is loaded, a caller   *)
(* deviates.                                                               *)
LEMMA RestKeeps == ASSUME TraceInv, Ends \/ Idles \/ Load \/ Deviates \/ UNCHANGED traceVars PROVE TraceInv'
<1>1. TraceTypes /\ TraceFile /\ TraceReplay
  BY DEF TraceInv
<1>2. UNCHANGED <<happened, events, bin, streamOff, failed, failed_file, cursor, answers, surprised, idle_now>>
  BY DEF Ends, Idles, Load, Deviates, traceVars, Recorded, Replaying
<1>3. TraceFile'
  BY <1>1, <1>2, FileRests
<1>4. /\ mode' \in {"recording", "closed", "replaying", "refused"} /\ (mode' = "recording" => mode = "recording")
      /\ mode' = "refused" => mode = "refused" \/ ~Accepted
  BY <1>1 DEF Ends, Idles, Load, Deviates, traceVars, TraceTypes
<1>5. ASSUME ~failed PROVE Accepted
  <2>1. DOMAIN events = 1..Len(events)
    BY <1>1 DEF TraceTypes
  <2>2. ASSUME NEW k \in 1..Len(events) PROVE WellFormed(events[k])
    <3>1. KeptAs(k)
      BY <1>1, <1>5 DEF TraceFile
    <3> QED BY <3>1 DEF KeptAs
  <2> QED BY <1>1, <1>5, <2>1, <2>2 DEF TraceFile, Accepted
<1>6. TraceTypes'
  BY <1>1, <1>2, <1>4 DEF TraceTypes
<1>7. TraceReplay'
  BY <1>1, <1>2, <1>4, <1>5 DEF TraceReplay
<1> QED BY <1>3, <1>6, <1>7 DEF TraceInv

(* At first nothing has happened.                                          *)
LEMMA TraceInvInit == TraceInit => TraceInv
<1> SUFFICES ASSUME TraceInit PROVE TraceInv
  OBVIOUS
<1>1. /\ mode = "recording" /\ happened = [t \in THREADS |-> <<>>] /\ events = <<>> /\ bin = <<>> /\ streamOff = 0 /\ failed = FALSE
      /\ failed_file = FALSE /\ cursor = [t \in THREADS |-> 0] /\ answers = [t \in THREADS |-> <<>>] /\ surprised = FALSE /\ idle_now = {}
  BY DEF TraceInit
<1>2. TraceTypes
  BY <1>1 DEF TraceTypes
<1>3. \A t \in THREADS : LinesOf(t) = {}
  BY <1>1 DEF LinesOf
<1>4. \A t \in THREADS : Cardinality(LinesOf(t)) = 0 /\ Len(happened[t]) = 0
  BY <1>1, <1>3, FS_EmptySet
<1>5. Len(events) = 0 /\ Len(bin) = 0
  BY <1>1
<1>6. TraceFile
  BY <1>1, <1>4, <1>5 DEF TraceFile
<1>7. TraceReplay
  BY <1>1, <1>4 DEF TraceReplay
<1> QED BY <1>2, <1>6, <1>7 DEF TraceInv

(* At every step it stays so.                                              *)
LEMMA TraceInvNext == TraceInv /\ [TraceNext]_traceVars => TraceInv'
BY RecordingKeeps, RepeatKeeps, IdleKeeps, RestKeeps DEF TraceNext

(* When one sequence is the beginning of another.                          *)
LEMMA PrefixIs ==
  ASSUME NEW S, NEW s \in Seq(S), NEW u \in Seq(S), Len(s) <= Len(u), \A i \in 1..Len(s) : s[i] = u[i]
  PROVE  IsPrefix(s, u)
<1>1. Len(s) \in Nat /\ Len(u) \in Nat /\ \A i \in 1..Len(s) : s[i] \in S /\ u[i] \in S
  OBVIOUS
<1>2. /\ SubSeq(s, 1, Len(s)) \in Seq(S) /\ Len(SubSeq(s, 1, Len(s))) = Len(s)
      /\ \A i \in 1..Len(s) : SubSeq(s, 1, Len(s))[i] = s[i]
  BY <1>1, SubSeqProperties
<1>3. /\ SubSeq(u, 1, Len(s)) \in Seq(S) /\ Len(SubSeq(u, 1, Len(s))) = Len(s)
      /\ \A i \in 1..Len(s) : SubSeq(u, 1, Len(s))[i] = u[i]
  BY <1>1, SubSeqProperties
<1>4. SubSeq(s, 1, Len(s)) = SubSeq(u, 1, Len(s))
  BY <1>2, <1>3, SeqEqual
<1> QED BY <1>4 DEF IsPrefix

(* And that is what a faithful replay is.                                  *)
LEMMA KeptIsFaithful == TraceInv => ReplayIsFaithful
<1> SUFFICES ASSUME TraceInv PROVE ReplayIsFaithful
  OBVIOUS
<1>1. TraceTypes /\ TraceFile /\ TraceReplay
  BY DEF TraceInv
<1>2. ReplayIsTheRecording
  <2> SUFFICES ASSUME NEW t \in THREADS PROVE IsPrefix(answers[t], happened[t])
    BY <1>1 DEF TraceReplay, ReplayIsTheRecording
  <2>1. Len(answers[t]) \in Nat /\ Len(answers[t]) <= Len(happened[t]) /\ \A i \in 1..Len(answers[t]) : answers[t][i] = happened[t][i]
    BY <1>1 DEF TraceTypes, TraceReplay
  <2>2. answers[t] \in Seq(TracedCalls \X TracedAnswers) /\ happened[t] \in Seq(TracedCalls \X TracedAnswers)
    BY <1>1 DEF TraceTypes
  <2> QED BY <2>1, <2>2, PrefixIs
<1>3. AcceptedIsPrefix
  <2> DEFINE kept(t) == [k \in DOMAIN Queue(t) |-> <<Queue(t)[k].call, [ok |-> Queue(t)[k].ok, len |-> Queue(t)[k].len]>>]
  <2>1. ASSUME NEW t \in THREADS PROVE IsPrefix(kept(t), happened[t]) /\ (failed \/ kept(t) = happened[t])
    <3>1. /\ Len(Queue(t)) \in Nat /\ DOMAIN Queue(t) = 1..Len(Queue(t)) /\ Len(Queue(t)) <= Len(happened[t]) /\ (failed \/ Len(Queue(t)) = Len(happened[t]))
          /\ \A n \in 1..Len(Queue(t)) : happened[t][n] = <<Queue(t)[n].call, [ok |-> Queue(t)[n].ok, len |-> Queue(t)[n].len]>>
      BY <1>1, QueueIs
    <3>2. happened[t] \in Seq(TracedCalls \X TracedAnswers)
      BY <1>1 DEF TraceTypes
    <3>3. kept(t) = [n \in 1..Len(Queue(t)) |-> happened[t][n]]
      BY <3>1
    <3>4. Len(kept(t)) = Len(Queue(t)) /\ \A n \in 1..Len(Queue(t)) : kept(t)[n] = happened[t][n]
      BY <3>1, <3>3
    <3> HIDE DEF kept
    <3>5. IsPrefix(kept(t), happened[t])
      <4>1. kept(t) \in Seq(TracedCalls \X TracedAnswers)
        BY <3>1, <3>2, <3>3 DEF kept
      <4> QED BY <3>1, <3>2, <3>4, <4>1, PrefixIs
    <3>6. failed \/ kept(t) = happened[t]
      <4>1. happened[t] = [n \in 1..Len(happened[t]) |-> happened[t][n]]
        BY <3>2
      <4>2. failed \/ Len(Queue(t)) = Len(happened[t])
        BY <3>1
      <4> QED BY <3>3, <4>1, <4>2
    <3> QED BY <3>5, <3>6
  <2> HIDE DEF kept
  <2>2. mode = "refused" => failed
    BY <1>1 DEF TraceReplay
  <2>3. /\ mode = "replaying" => \A t \in THREADS : IsPrefix(kept(t), happened[t])
        /\ (mode \in {"replaying", "refused"} /\ ~failed) => mode = "replaying" /\ \A t \in THREADS : kept(t) = happened[t]
    BY <2>1, <2>2
  <2> QED BY <2>3 DEF AcceptedIsPrefix, kept
<1> QED BY <1>2, <1>3 DEF ReplayIsFaithful

(* Of each thread a trace that loads holds a prefix of what happened, all  *)
(* of it when no write failed, and callers that repeat their calls are     *)
(* answered what was answered then, for any number of calls; only the      *)
(* stream's timeouts are no events, and are told behind the last event     *)
(* (record.c rec_stream, replay.c rp_stream).                              *)
THEOREM ReplayStaysFaithful == TraceSpec => []ReplayIsFaithful
<1> QED BY TraceInvInit, TraceInvNext, KeptIsFaithful, PTL DEF TraceSpec
=============================================================================
