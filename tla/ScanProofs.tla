------------------------------- MODULE ScanProofs -------------------------------
(***************************************************************************)
(* Proofs about a roll's scan (Scan): what the sidecar says of the film,   *)
(* in memory and on disk, for any number of strips and any lines.  The     *)
(* detector runs in the stream's reader thread and the files are written   *)
(* by the worker; the invariant says how far apart the two may be.         *)
(* Then the budget an accepted configuration gives the scan (Config), and  *)
(* the file both are written to (Sidecar).                                 *)
(* Last, where the strips go when the roll is opened (Frame): what the     *)
(* detector returns can be read out, on any strip.                         *)
(***************************************************************************)
EXTENDS Scan, Config, Sidecar, Frame, SequenceTheorems, FiniteSetTheorems, WellFoundedInduction, TLAPS

(* The detector's record, and the numbers in it.                           *)
DetIs(d) ==
  /\ d = [seg |-> d.seg, film |-> d.film, white |-> d.white, sum_left |-> d.sum_left, sum |-> d.sum,
          budget |-> d.budget, started |-> d.started, ended |-> d.ended, no_film |-> d.no_film, hit |-> d.hit,
          start |-> d.start, end |-> d.end]
  /\ d.seg \in Nat /\ d.film \in Int /\ d.white \in Int /\ d.sum_left \in Int /\ d.sum \in Int
  /\ d.budget \in Nat /\ d.start \in Nat /\ d.end \in Nat

(* What a detector that was handed the lines ls knows of them: where the   *)
(* strip lies, and what is left of its budget.                             *)
DetOk(d, ls) ==
  /\ DetIs(d)
  /\ ~d.started => /\ d.budget = LINES_PER_STRIP /\ ~d.hit
                   /\ d.ended <=> d.no_film
  /\ d.started =>
       /\ ~d.no_film
       /\ d.start >= 1 /\ d.start <= d.end /\ d.end <= Len(ls)
       /\ \A n \in d.start..d.end : ls[n].seg = d.seg
  /\ d.started /\ ~d.ended =>
       /\ d.end = Len(ls) /\ d.budget = LINES_PER_STRIP - (d.end - d.start + 1)
       /\ d.budget >= 1 /\ ~d.hit
  /\ d.started /\ d.ended =>
       /\ d.budget = LINES_PER_STRIP - (d.end - d.start + 1) - 1
       /\ d.hit <=> d.budget = 0

(* One of the two truth values.                                            *)
IsFlag(v) == v = TRUE \/ v = FALSE

(* The detector: armed for the segment the worker reads, it knows what that*)
(* segment's lines say (unless the deadline has ended it), which is more   *)
(* than StripsOfTheirSegments says of a strip once it is recorded.         *)
DetInv ==
  /\ DetOk(det, lines) /\ det.seg = segment /\ IsFlag(late)
  /\ det.no_film \/ det = SeenIn(lines, det.seg)

(* The stream's segment never passes the worker's: no line of a segment    *)
(* comes before the detector is armed for it, and a re-arm in flight is the*)
(* one the worker asked for.                                               *)
SegInv ==
  /\ segment \in Nat /\ st_seg \in Nat /\ st_seg <= segment
  /\ rearm => st_seg + 1 <= segment
  /\ pc = "rearm" => st_seg + 1 <= segment /\ ~rearm
  /\ lines \in Seq([seg : Nat, level : LEVELS])
  /\ \A n \in 1..Len(lines) : lines[n].seg <= st_seg

(* Where the worker may be, and where the run is over.                     *)
PCs == {"gate", "open", "prepare", "loop", "look", "flush", "finish", "keep", "arm", "rearm",
        "end", "last", "recheck", "returned", "crashed"}
AfterStrips == {"end", "last", "recheck", "returned", "crashed"}

(* How far the worker is: the strips it has recorded, the segment it reads,*)
(* whether a strip is in progress and what its status may be.  A strip is  *)
(* finished, and the next one armed, only after the detector has seen its  *)
(* lines.                                                                  *)
WorkInv ==
  /\ pc \in PCs /\ done \in Nat
  /\ pc \in {"keep", "arm"} => done = segment + 1
  /\ pc \notin {"keep", "arm"} \cup AfterStrips => done = segment
  /\ done \in {segment, segment + 1}
  /\ pc \in {"gate", "open", "prepare"} => done = 0 /\ ~open
  /\ open => det.started /\ done = segment
  /\ pc \in {"finish", "keep", "arm"} => det.started /\ det.ended
  /\ fatal \in {"OK", "LOST_SYNC", "NOMEM", "IO"}
  /\ pc \notin AfterStrips => run = "OK"
  /\ run = "OK" /\ pc \in AfterStrips \ {"crashed"} => done > 0 /\ ~open /\ sc.error # "none"
  /\ pc \notin {"gate", "open"} \cup AfterStrips => sc.error # "none"

(* A strip of the sidecar.                                                 *)
Marks == {"incomplete", "max_film_length", "film_end"}
StripType == [seg : Nat, start : Nat, end : Nat, ended_by : Marks]

(* A sidecar, in memory or on disk.                                        *)
FileIs(f) ==
  /\ f = [complete |-> f.complete, error |-> f.error, strips |-> f.strips]
  /\ f.strips \in Seq(StripType)

(* What StripsOfTheirSegments says of a finished strip at place k.         *)
StripOk(s, k, ls) ==
  /\ s.seg = k - 1 /\ 1 <= s.start /\ s.end <= Len(ls) /\ \A n \in s.start..s.end : ls[n].seg = s.seg
  /\ s.end - s.start + 1 < LINES_PER_STRIP
  /\ s.ended_by = "max_film_length" <=> s.end - s.start + 2 = LINES_PER_STRIP

(* The strips in memory are the finished ones, in order and as they lie in *)
(* the lines, and at most the one in progress; those finished on disk are  *)
(* the same, and all of them but for the moment before the write that keeps*)
(* the last.                                                               *)
StripInv ==
  /\ FileIs(sc) /\ FileIs(disk)
  /\ Len(sc.strips) \in {done, done + 1}
  /\ \A k \in 1..Len(sc.strips) :
       /\ k <= done <=> Finished(sc.strips[k])
       /\ k <= done => StripOk(sc.strips[k], k, lines)
  /\ \A k \in FinishedIn(disk) : k <= done /\ disk.strips[k] = sc.strips[k]
  /\ pc \notin {"keep"} \cup AfterStrips => FinishedIn(disk) = 1..done

(* The last words: nothing says complete before them, and they say it of a *)
(* whole roll.                                                             *)
EndInv ==
  /\ pc \notin {"recheck", "returned", "crashed"} => ~disk.complete /\ ~sc.complete
  /\ disk.complete => /\ disk.error = "OK" /\ Len(disk.strips) = done /\ done > 0
                      /\ \A k \in 1..done : Finished(disk.strips[k])
  /\ pc \in {"recheck", "returned"} /\ run = "OK" => disk.complete

(* The inductive invariant.                                                *)
ScanInv == SegInv /\ DetInv /\ WorkInv /\ StripInv /\ EndInv

-----------------------------------------------------------------------------

(* A step of SeenIn, and the function it is the last value of.             *)
See(ls, seg, d, n) == IF ls[n].seg = seg /\ ~d.ended THEN Sensed(d, n, ls[n].level, FALSE) ELSE d
IsSeen(f, ls, seg, m) == f = [n \in 0..m |-> IF n = 0 THEN Armed(seg) ELSE See(ls, seg, f[n - 1], n)]

(* SeenIn's recursive function is one that IsSeen describes.               *)
LEMMA SeenInIs ==
  ASSUME NEW ls, NEW seg
  PROVE  SeenIn(ls, seg) = (CHOOSE f : IsSeen(f, ls, seg, Len(ls)))[Len(ls)]
BY Zenon DEF SeenIn, IsSeen, See

(* What such a function is at each line.                                   *)
LEMMA SeenAt ==
  ASSUME NEW f, NEW ls, NEW seg, NEW m \in Nat, IsSeen(f, ls, seg, m)
  PROVE  f[0] = Armed(seg) /\ \A n \in 1..m : f[n] = See(ls, seg, f[n - 1], n)
<1>1. \A n \in 0..m : f[n] = IF n = 0 THEN Armed(seg) ELSE See(ls, seg, f[n - 1], n)
  BY Zenon DEF IsSeen
<1> HIDE DEF IsSeen
<1> QED BY <1>1

(* There is one for every number of lines: by induction.                   *)
LEMMA Exists ==
  ASSUME NEW ls, NEW seg
  PROVE  \A m \in Nat : \E f : IsSeen(f, ls, seg, m)
<1> DEFINE Bad == {m \in Nat : ~ \E f : IsSeen(f, ls, seg, m)}
<1> SUFFICES ASSUME Bad # {} PROVE FALSE
  OBVIOUS
<1>1. Bad \in SUBSET Nat
  OBVIOUS
<1> HIDE DEF Bad
<1>2. \E x \in Bad : \A y \in Bad : ~ (<<y, x>> \in OpToRel(<, Nat))
  BY <1>1, NatLessThanWellFounded, WFMin
<1>3. PICK m \in Bad : \A y \in Bad : ~ (<<y, m>> \in OpToRel(<, Nat))
  BY <1>2
<1> USE DEF Bad
<1>4. m \in Nat /\ ~ \E f : IsSeen(f, ls, seg, m)
  OBVIOUS
<1> HIDE DEF Bad
<1>5. CASE m = 0
  <2> DEFINE f == [n \in 0..0 |-> Armed(seg)]
  <2>1. \A n \in 0..0 : n = 0
    OBVIOUS
  <2>2. f = [n \in 0..0 |-> IF n = 0 THEN Armed(seg) ELSE See(ls, seg, f[n - 1], n)]
    BY <2>1, Zenon
  <2>3. IsSeen(f, ls, seg, m)
    BY <2>2, <1>5, Zenon DEF IsSeen
  <2> QED BY <2>3, <1>4
<1>6. CASE m # 0
  <2>1. m - 1 \in Nat /\ m - 1 < m
    BY <1>4, <1>6
  <2>2. m - 1 \notin Bad
    <3>1. SUFFICES ASSUME m - 1 \in Bad PROVE FALSE
      OBVIOUS
    <3>2. <<m - 1, m>> \in OpToRel(<, Nat)
      BY <2>1, <1>4 DEF OpToRel
    <3> QED BY <3>1, <3>2, <1>3
  <2>3. PICK g : IsSeen(g, ls, seg, m - 1)
    BY <2>1, <2>2 DEF Bad
  <2>4. g[0] = Armed(seg) /\ \A n \in 1..(m - 1) : g[n] = See(ls, seg, g[n - 1], n)
    BY <2>3, <2>1, SeenAt
  <2> DEFINE f == [n \in 0..m |-> IF n = m THEN See(ls, seg, g[m - 1], m) ELSE g[n]]
  <2>5. \A n \in 0..m : f[n] = IF n = m THEN See(ls, seg, g[m - 1], m) ELSE g[n]
    OBVIOUS
  <2>6. f = [n \in 0..m |-> f[n]]
    OBVIOUS
  <2> HIDE DEF f
  <2>7. ASSUME NEW n \in 0..m
        PROVE  f[n] = IF n = 0 THEN Armed(seg) ELSE See(ls, seg, f[n - 1], n)
    <3>1. CASE n = 0
      <4>1. f[0] = g[0]
        BY <3>1, <2>5, <1>6, <2>1
      <4> QED BY <4>1, <3>1, <2>4
    <3>2. CASE n # 0
      <4>1. n - 1 \in 0..m /\ n - 1 # m
        BY <3>2, <2>1, <1>4
      <4>2. f[n - 1] = g[n - 1]
        BY <4>1, <2>5
      <4>3. CASE n = m
        BY <4>3, <4>2, <2>5, <3>2
      <4>4. CASE n # m
        <5>1. n \in 1..(m - 1)
          BY <4>4, <3>2, <2>1, <1>4
        <5> QED BY <5>1, <4>2, <4>4, <2>4, <2>5, <3>2
      <4> QED BY <4>3, <4>4
    <3> QED BY <3>1, <3>2
  <2>8. IsSeen(f, ls, seg, m)
    BY <2>6, <2>7, Zenon DEF IsSeen
  <2> QED BY <2>8, <1>4
<1> QED BY <1>5, <1>6

(* Two of them agree as far as the lines do: by induction.                 *)
LEMMA Agree ==
  ASSUME NEW f, NEW g, NEW ls, NEW hs, NEW seg, NEW m \in Nat, NEW k \in Nat, m <= k,
         IsSeen(f, ls, seg, m), IsSeen(g, hs, seg, k), \A n \in 1..m : ls[n] = hs[n]
  PROVE  f[m] = g[m]
<1> DEFINE Bad == {n \in Nat : n <= m /\ f[n] # g[n]}
<1>1. f[0] = Armed(seg) /\ \A n \in 1..m : f[n] = See(ls, seg, f[n - 1], n)
  BY SeenAt
<1>2. g[0] = Armed(seg) /\ \A n \in 1..k : g[n] = See(hs, seg, g[n - 1], n)
  BY SeenAt
<1> SUFFICES ASSUME f[m] # g[m] PROVE FALSE
  OBVIOUS
<1>3. Bad \in SUBSET Nat /\ Bad # {}
  OBVIOUS
<1> HIDE DEF Bad
<1>4. \E x \in Bad : \A y \in Bad : ~ (<<y, x>> \in OpToRel(<, Nat))
  BY <1>3, NatLessThanWellFounded, WFMin
<1>5. PICK x \in Bad : \A y \in Bad : ~ (<<y, x>> \in OpToRel(<, Nat))
  BY <1>4
<1>6. x \in Nat /\ x <= m /\ f[x] # g[x]
  BY DEF Bad
<1>7. x # 0
  BY <1>6, <1>1, <1>2
<1>8. x - 1 \in Nat /\ x - 1 < x /\ x - 1 <= m /\ x \in 1..m /\ x \in 1..k
  BY <1>6, <1>7
<1>9. f[x - 1] = g[x - 1]
  <2>1. SUFFICES ASSUME x - 1 \in Bad PROVE FALSE
    BY <1>8 DEF Bad
  <2>2. <<x - 1, x>> \in OpToRel(<, Nat)
    BY <1>8, <1>6 DEF OpToRel
  <2> QED BY <2>1, <2>2, <1>5
<1>10. ls[x] = hs[x]
  BY <1>8
<1>11. See(ls, seg, f[x - 1], x) = See(hs, seg, g[x - 1], x)
  BY <1>9, <1>10, Zenon DEF See
<1> QED BY <1>1, <1>2, <1>6, <1>8, <1>11

(* One more line is one more step.                                         *)
LEMMA SeenAppend ==
  ASSUME NEW S, NEW ls \in Seq(S), NEW l \in S, NEW seg
  PROVE  SeenIn(Append(ls, l), seg) =
           IF l.seg = seg /\ ~SeenIn(ls, seg).ended
           THEN Sensed(SeenIn(ls, seg), Len(ls) + 1, l.level, FALSE) ELSE SeenIn(ls, seg)
<1> DEFINE hs == Append(ls, l)
<1>1. /\ Len(ls) \in Nat /\ Len(hs) = Len(ls) + 1 /\ hs[Len(ls) + 1] = l
      /\ \A n \in 1..Len(ls) : ls[n] = hs[n]
  BY LenProperties, AppendProperties
<1> HIDE DEF hs
<1>2. PICK f : f = CHOOSE q : IsSeen(q, ls, seg, Len(ls))
  OBVIOUS
<1>3. IsSeen(f, ls, seg, Len(ls))
  BY <1>2, <1>1, Exists, Zenon
<1>4. PICK g : g = CHOOSE q : IsSeen(q, hs, seg, Len(hs))
  OBVIOUS
<1>5. IsSeen(g, hs, seg, Len(hs))
  <2>1. Len(hs) \in Nat
    BY <1>1
  <2> QED BY <1>4, <2>1, Exists, Zenon
<1>6. SeenIn(ls, seg) = f[Len(ls)] /\ SeenIn(hs, seg) = g[Len(hs)]
  BY <1>2, <1>4, SeenInIs, Zenon
<1>7. g[Len(hs)] = See(hs, seg, g[Len(hs) - 1], Len(hs))
  BY <1>1, <1>5, SeenAt
<1>8. Len(hs) - 1 = Len(ls) /\ Len(ls) <= Len(hs) /\ Len(hs) \in Nat
  BY <1>1
<1>9. f[Len(ls)] = g[Len(ls)]
  BY <1>1, <1>3, <1>5, <1>8, Agree
<1>10. SeenIn(hs, seg) = See(hs, seg, SeenIn(ls, seg), Len(ls) + 1)
  BY <1>1, <1>6, <1>7, <1>8, <1>9
<1> QED BY <1>10, <1>1, Zenon DEF See, hs

(* The lines of other segments are not seen.                               *)
LEMMA SeenNone ==
  ASSUME NEW S, NEW ls \in Seq(S), NEW seg, \A n \in 1..Len(ls) : ls[n].seg # seg
  PROVE  SeenIn(ls, seg) = Armed(seg)
<1>1. Len(ls) \in Nat
  BY LenProperties
<1>2. PICK f : f = CHOOSE q : IsSeen(q, ls, seg, Len(ls))
  OBVIOUS
<1>3. IsSeen(f, ls, seg, Len(ls))
  BY <1>2, <1>1, Exists, Zenon
<1>4. SeenIn(ls, seg) = f[Len(ls)]
  BY <1>2, SeenInIs, Zenon
<1>5. f[0] = Armed(seg) /\ \A n \in 1..Len(ls) : f[n] = See(ls, seg, f[n - 1], n)
  BY <1>1, <1>3, SeenAt
<1>6. \A n \in 1..Len(ls) : f[n] = f[n - 1]
  BY <1>5, Zenon DEF See
<1> DEFINE Bad == {n \in Nat : n <= Len(ls) /\ f[n] # Armed(seg)}
<1> SUFFICES ASSUME f[Len(ls)] # Armed(seg) PROVE FALSE
  BY <1>4
<1>7. Bad \in SUBSET Nat /\ Bad # {}
  BY <1>1
<1> HIDE DEF Bad
<1>8. \E x \in Bad : \A y \in Bad : ~ (<<y, x>> \in OpToRel(<, Nat))
  BY <1>7, NatLessThanWellFounded, WFMin
<1>9. PICK x \in Bad : \A y \in Bad : ~ (<<y, x>> \in OpToRel(<, Nat))
  BY <1>8
<1>10. x \in Nat /\ x <= Len(ls) /\ f[x] # Armed(seg)
  BY DEF Bad
<1>11. x # 0
  BY <1>10, <1>5
<1>12. x - 1 \in Nat /\ x - 1 < x /\ x - 1 <= Len(ls) /\ x \in 1..Len(ls)
  BY <1>1, <1>10, <1>11
<1>13. x - 1 \in Bad
  BY <1>6, <1>10, <1>12 DEF Bad
<1>14. <<x - 1, x>> \in OpToRel(<, Nat)
  BY <1>12, <1>10 DEF OpToRel
<1> QED BY <1>13, <1>14, <1>9

-----------------------------------------------------------------------------

(* A strip's budget is two lines at least.                                 *)
LEMMA BudgetIs == LINES_PER_STRIP \in Nat /\ LINES_PER_STRIP >= 2
<1>1. LINES_PER_STRIP \in Nat /\ LINES_PER_STRIP # 0 /\ LINES_PER_STRIP # 1
  BY ScanAssumption
<1> QED BY <1>1

(* det_begin: nothing is known yet.                                        *)
LEMMA ArmedIs ==
  ASSUME NEW seg \in Nat, NEW ls
  PROVE  DetOk(Armed(seg), ls) /\ Armed(seg).seg = seg /\ ~Armed(seg).ended /\ ~Armed(seg).started
BY ScanAssumption DEF DetOk, DetIs, Armed, DETECT_FILM_G, DETECT_WHITE_G, SENSE_SUM_LINES

(* The thresholds' sum changes nothing else of the detector.               *)
LEMMA SummedIs ==
  ASSUME NEW d, DetIs(d), NEW g \in Nat
  PROVE  /\ DetIs(Summed(d, g)) /\ Summed(d, g).seg = d.seg /\ Summed(d, g).budget = d.budget
         /\ Summed(d, g).started = d.started /\ Summed(d, g).ended = d.ended /\ Summed(d, g).hit = d.hit
         /\ Summed(d, g).no_film = d.no_film
<1> DEFINE sum == d.sum + g
           white == sum \div SENSE_SUM_LINES - REBASE_MARGIN
           film == white - (d.white - d.film)
<1>1. sum \in Int /\ white \in Int /\ film \in Int
  BY DEF DetIs, SENSE_SUM_LINES, REBASE_MARGIN
<1>2. CASE d.sum_left = 0
  BY <1>2 DEF Summed
<1>3. CASE d.sum_left # 0
  <2> DEFINE s == [d EXCEPT !.sum_left = @ - 1, !.sum = sum]
  <2>1. s = [seg |-> d.seg, film |-> d.film, white |-> d.white, sum_left |-> d.sum_left - 1, sum |-> sum,
          budget |-> d.budget, started |-> d.started, ended |-> d.ended, no_film |-> d.no_film, hit |-> d.hit,
          start |-> d.start, end |-> d.end]
    <3> DEFINE k == d.sum_left - 1
    <3>1. s = [[d EXCEPT !.sum_left = k] EXCEPT !.sum = sum]
      BY Zenon
    <3> HIDE DEF s, k, sum
    <3>2. [d EXCEPT !.sum_left = k] = [seg |-> d.seg, film |-> d.film, white |-> d.white, sum_left |-> k, sum |-> d.sum,
          budget |-> d.budget, started |-> d.started, ended |-> d.ended, no_film |-> d.no_film, hit |-> d.hit,
          start |-> d.start, end |-> d.end]
      BY DEF DetIs
    <3>3. s = [seg |-> d.seg, film |-> d.film, white |-> d.white, sum_left |-> k, sum |-> sum,
          budget |-> d.budget, started |-> d.started, ended |-> d.ended, no_film |-> d.no_film, hit |-> d.hit,
          start |-> d.start, end |-> d.end]
      BY <3>1, <3>2
    <3> QED BY <3>3 DEF k
  <2>2. PICK w \in Int, f \in Int : Summed(d, g) = [seg |-> d.seg, film |-> f, white |-> w, sum_left |-> d.sum_left - 1, sum |-> sum,
          budget |-> d.budget, started |-> d.started, ended |-> d.ended, no_film |-> d.no_film, hit |-> d.hit,
          start |-> d.start, end |-> d.end]
    <3>1. CASE d.sum_left = 1 /\ d.film < g
      <4>1. Summed(d, g) = [s EXCEPT !.white = white, !.film = film]
        BY <3>1, <1>3, Zenon DEF Summed
      <4> HIDE DEF sum, white, film, s
      <4>2. Summed(d, g) = [seg |-> d.seg, film |-> film, white |-> white, sum_left |-> d.sum_left - 1, sum |-> sum,
          budget |-> d.budget, started |-> d.started, ended |-> d.ended, no_film |-> d.no_film, hit |-> d.hit,
          start |-> d.start, end |-> d.end]
        BY <4>1, <2>1
      <4> QED BY <4>2, <1>1
    <3>2. CASE ~(d.sum_left = 1 /\ d.film < g)
      <4>1. Summed(d, g) = s
        BY <3>2, <1>3, Zenon DEF Summed
      <4>2. d.film \in Int /\ d.white \in Int
        BY DEF DetIs
      <4> HIDE DEF sum, s
      <4> QED BY <4>1, <4>2, <2>1
    <3> QED BY <3>1, <3>2
  <2> HIDE DEF sum
  <2>3. d.sum_left - 1 \in Int
    BY DEF DetIs
  <2> DEFINE x == Summed(d, g)
  <2>4. /\ x.seg = d.seg /\ x.film = f /\ x.white = w
        /\ x.sum_left = d.sum_left - 1 /\ x.sum = sum
    BY <2>2
  <2>5. /\ x.budget = d.budget /\ x.start = d.start /\ x.end = d.end
        /\ x.started = d.started /\ x.ended = d.ended /\ x.hit = d.hit
        /\ x.no_film = d.no_film
    BY <2>2
  <2>6. x = [seg |-> x.seg, film |-> x.film, white |-> x.white, sum_left |-> x.sum_left, sum |-> x.sum,
          budget |-> x.budget, started |-> x.started, ended |-> x.ended, no_film |-> x.no_film, hit |-> x.hit,
          start |-> x.start, end |-> x.end]
    BY <2>2
  <2>7. DetIs(x)
    BY <2>3, <2>4, <2>5, <2>6, <1>1, Zenon DEF DetIs
  <2> QED BY <2>4, <2>5, <2>7
<1> QED BY <1>2, <1>3

(* A line of the strip: it is the strip's new end, or the line that ends   *)
(* it.  The deadline plays no part.                                        *)
LEMMA SensedStarted ==
  ASSUME NEW S, NEW ls \in Seq(S), NEW l \in S, l.level \in Nat, NEW d, NEW past,
         DetOk(d, ls), d.started, ~d.ended, l.seg = d.seg
  PROVE  /\ DetOk(Sensed(d, Len(ls) + 1, l.level, past), Append(ls, l))
         /\ Sensed(d, Len(ls) + 1, l.level, past).seg = d.seg
         /\ Sensed(d, Len(ls) + 1, l.level, past) = Sensed(d, Len(ls) + 1, l.level, FALSE)
         /\ Sensed(d, Len(ls) + 1, l.level, past).started
<1> DEFINE n == Len(ls) + 1
           left == d.budget - 1
           over == left = 0 \/ l.level >= d.white
           e == IF over THEN d.end ELSE n
           hs == Append(ls, l)
           x == Sensed(d, n, l.level, past)
<1>1. DetIs(d) /\ d.end = Len(ls) /\ d.budget = LINES_PER_STRIP - (d.end - d.start + 1) /\ d.budget >= 1 /\ ~d.no_film
      /\ d.start >= 1 /\ d.start <= d.end /\ \A i \in d.start..d.end : ls[i].seg = d.seg
  BY DEF DetOk
<1>2. /\ Len(ls) \in Nat /\ Len(hs) = n /\ hs[n] = l
      /\ \A i \in 1..Len(ls) : ls[i] = hs[i]
  BY LenProperties, AppendProperties
<1>3. n \in Nat /\ left \in Nat /\ e \in Nat /\ e <= Len(hs)
  BY <1>1, <1>2 DEF DetIs
<1>4. x = [d EXCEPT !.budget = left, !.hit = left = 0, !.ended = over, !.end = e]
  BY Zenon DEF Sensed
<1>5. x = Sensed(d, n, l.level, FALSE)
  BY Zenon DEF Sensed
<1> HIDE DEF n, left, over, e, hs, x
<1>6. x = [seg |-> d.seg, film |-> d.film, white |-> d.white, sum_left |-> d.sum_left, sum |-> d.sum,
          budget |-> left, started |-> d.started, ended |-> over, no_film |-> d.no_film, hit |-> (left = 0),
          start |-> d.start, end |-> e]
  BY <1>4, <1>1 DEF DetIs
<1>7. /\ x.seg = d.seg /\ x.film = d.film /\ x.white = d.white /\ x.sum_left = d.sum_left /\ x.sum = d.sum
      /\ x.budget = left /\ x.started = d.started /\ x.no_film = d.no_film /\ x.start = d.start /\ x.end = e
      /\ x.ended <=> over
      /\ x.hit <=> left = 0
  BY <1>6, Zenon
<1>8. x = [seg |-> x.seg, film |-> x.film, white |-> x.white, sum_left |-> x.sum_left, sum |-> x.sum,
          budget |-> x.budget, started |-> x.started, ended |-> x.ended, no_film |-> x.no_film, hit |-> x.hit,
          start |-> x.start, end |-> x.end]
  BY <1>6
<1>9. DetIs(x)
  BY <1>8, <1>7, <1>3, <1>1, Zenon DEF DetIs
<1>10. \A i \in x.start..x.end : hs[i].seg = x.seg
  <2> SUFFICES ASSUME NEW i \in d.start..e PROVE hs[i].seg = d.seg
    BY <1>7
  <2>1. CASE i = n
    BY <2>1, <1>2
  <2>2. CASE i # n
    <3>1. i \in 1..Len(ls) /\ i \in d.start..d.end
      BY <2>2, <1>1, <1>2, <1>3 DEF e, n, DetIs
    <3> QED BY <3>1, <1>1, <1>2
  <2> QED BY <2>1, <2>2
<1>11. x.start >= 1 /\ x.start <= x.end /\ x.end <= Len(hs) /\ x.end \in Nat
  BY <1>1, <1>2, <1>3, <1>7 DEF e, n, DetIs
<1>12. ~over => x.end = Len(hs) /\ left = LINES_PER_STRIP - (x.end - x.start + 1) /\ left >= 1 /\ ~x.hit
  <2> SUFFICES ASSUME ~over PROVE x.end = Len(hs) /\ left = LINES_PER_STRIP - (x.end - x.start + 1) /\ left >= 1 /\ ~x.hit
    OBVIOUS
  <2>1. left # 0 /\ e = n
    BY DEF over, e
  <2>2. ~x.hit
    BY <2>1, <1>7
  <2>3. left >= 1 /\ x.end = Len(hs)
    BY <2>1, <1>2, <1>3, <1>7
  <2>4. left = LINES_PER_STRIP - (x.end - x.start + 1)
    <3>1. d.start \in Nat /\ Len(ls) \in Nat /\ d.end = Len(ls) /\ x.start = d.start
      BY <1>1, <1>7, <1>2 DEF DetIs
    <3>2. x.end = Len(ls) + 1
      BY <2>1, <1>7 DEF n
    <3> QED BY <3>1, <3>2, <1>1, BudgetIs DEF left
  <2> QED BY <2>2, <2>3, <2>4
<1>13. over => left = LINES_PER_STRIP - (x.end - x.start + 1) - 1
  BY <1>1, <1>2, <1>3, <1>7, BudgetIs DEF left, e, DetIs
<1>14. DetOk(x, hs)
  <2>1. ~(~x.started)
    BY <1>7
  <2>2. x.started /\ ~x.no_film
    BY <1>7, <1>1
  <2>3. ~x.ended => x.end = Len(hs) /\ x.budget = LINES_PER_STRIP - (x.end - x.start + 1) /\ x.budget >= 1 /\ ~x.hit
    BY <1>7, <1>12
  <2>4. x.ended => x.budget = LINES_PER_STRIP - (x.end - x.start + 1) - 1
    BY <1>7, <1>13
  <2>5. x.hit <=> x.budget = 0
    BY <1>7
  <2> QED BY <1>9, <1>10, <1>11, <2>1, <2>2, <2>3, <2>4, <2>5 DEF DetOk
<1> QED BY <1>5, <1>7, <1>14 DEF x, hs, n

(* A detector that waits for film and is handed a line of its segment.     *)
Waits(d, ls, l) == DetOk(d, ls) /\ ~d.started /\ ~d.ended /\ l.seg = d.seg /\ l.level \in Nat

(* The strip starts with the line, or it waits on; only the deadline makes *)
(* it differ from SeenIn.                                                  *)
LEMMA SensedWaiting ==
  ASSUME NEW S, NEW ls \in Seq(S), NEW l \in S, NEW d, NEW past, IsFlag(past), Waits(d, ls, l)
  PROVE  /\ DetOk(Sensed(d, Len(ls) + 1, l.level, past), Append(ls, l))
         /\ Sensed(d, Len(ls) + 1, l.level, past).seg = d.seg
         /\ \/ Sensed(d, Len(ls) + 1, l.level, past).no_film
            \/ Sensed(d, Len(ls) + 1, l.level, past) = Sensed(d, Len(ls) + 1, l.level, FALSE)
<1> DEFINE n == Len(ls) + 1
           left == d.budget - 1
           hs == Append(ls, l)
           s == Summed(d, l.level)
           x == Sensed(d, n, l.level, past)
<1>0. DetOk(d, ls) /\ ~d.started /\ ~d.ended /\ l.seg = d.seg /\ l.level \in Nat
  BY DEF Waits
<1>1. DetIs(d) /\ d.budget = LINES_PER_STRIP /\ ~d.hit /\ ~d.no_film
  BY <1>0 DEF DetOk
<1>2. /\ Len(ls) \in Nat /\ Len(hs) = n /\ hs[n] = l
      /\ \A i \in 1..Len(ls) : ls[i] = hs[i]
  BY LenProperties, AppendProperties
<1>3. n \in Nat /\ n >= 1 /\ left \in Nat /\ left >= 1 /\ left = LINES_PER_STRIP - 1
  BY <1>1, <1>2, BudgetIs
<1>4. /\ DetIs(s) /\ s.seg = d.seg /\ s.budget = d.budget /\ s.started = d.started /\ s.ended = d.ended
      /\ s.hit = d.hit /\ s.no_film = d.no_film
  BY <1>0, <1>1, SummedIs
<1>5. CASE l.level < s.film
  <2>1. x = [s EXCEPT !.started = TRUE, !.sum_left = 0, !.budget = left, !.start = n, !.end = n]
    BY <1>0, <1>5, Zenon DEF Sensed
  <2>2. x = Sensed(d, n, l.level, FALSE)
    BY <1>0, <1>5, Zenon DEF Sensed
  <2> HIDE DEF n, left, hs, x, s
  <2>3. x = [seg |-> s.seg, film |-> s.film, white |-> s.white, sum_left |-> 0, sum |-> s.sum,
          budget |-> left, started |-> TRUE, ended |-> s.ended, no_film |-> s.no_film, hit |-> s.hit,
          start |-> n, end |-> n]
    BY <2>1, <1>4 DEF DetIs
  <2>4. /\ x.seg = s.seg /\ x.film = s.film /\ x.white = s.white /\ x.sum_left = 0 /\ x.sum = s.sum
        /\ x.budget = left /\ x.started /\ x.ended = s.ended /\ x.no_film = s.no_film /\ x.start = n /\ x.end = n
        /\ x.hit = s.hit
    BY <2>3, Zenon
  <2>5. x = [seg |-> x.seg, film |-> x.film, white |-> x.white, sum_left |-> x.sum_left, sum |-> x.sum,
          budget |-> x.budget, started |-> x.started, ended |-> x.ended, no_film |-> x.no_film, hit |-> x.hit,
          start |-> x.start, end |-> x.end]
    BY <2>3
  <2>6. 0 \in Int
    OBVIOUS
  <2>7. DetIs(x)
    BY <2>4, <2>5, <2>6, <1>3, <1>4, Zenon DEF DetIs
  <2>8. \A i \in x.start..x.end : hs[i].seg = x.seg
    <3> SUFFICES ASSUME NEW i \in n..n PROVE hs[i].seg = d.seg
      BY <1>4, <2>4
    <3>1. i = n
      BY <1>3
    <3> QED BY <3>1, <1>0, <1>2
  <2>9. x.end = Len(hs) /\ x.start >= 1 /\ x.start <= x.end /\ x.end <= Len(hs)
    BY <1>2, <1>3, <2>4
  <2>10. x.budget = LINES_PER_STRIP - (x.end - x.start + 1) /\ x.budget >= 1
    BY <1>3, <2>4, BudgetIs
  <2>11. ~x.hit /\ ~x.no_film /\ ~x.ended /\ x.seg = d.seg
    BY <1>0, <1>1, <1>4, <2>4
  <2>12. DetOk(x, hs)
    BY <2>4, <2>7, <2>8, <2>9, <2>10, <2>11 DEF DetOk
  <2> QED BY <2>2, <2>11, <2>12 DEF x, hs, n
<1>6. CASE ~(l.level < s.film)
  <2>1. x = [s EXCEPT !.no_film = past, !.ended = past]
    BY <1>0, <1>6, Zenon DEF Sensed
  <2>2. Sensed(d, n, l.level, FALSE) = [s EXCEPT !.no_film = FALSE, !.ended = FALSE]
    BY <1>0, <1>6, Zenon DEF Sensed
  <2> HIDE DEF n, left, hs, x, s
  <2>3. x = [seg |-> s.seg, film |-> s.film, white |-> s.white, sum_left |-> s.sum_left, sum |-> s.sum,
          budget |-> s.budget, started |-> s.started, ended |-> past, no_film |-> past, hit |-> s.hit,
          start |-> s.start, end |-> s.end]
    BY <2>1, <1>4 DEF DetIs
  <2>4. /\ x.seg = s.seg /\ x.film = s.film /\ x.white = s.white /\ x.sum_left = s.sum_left /\ x.sum = s.sum
        /\ x.budget = s.budget /\ x.started = s.started /\ x.ended = past /\ x.no_film = past /\ x.start = s.start
        /\ x.end = s.end /\ x.hit = s.hit
    BY <2>3, Zenon
  <2>5. x = [seg |-> x.seg, film |-> x.film, white |-> x.white, sum_left |-> x.sum_left, sum |-> x.sum,
          budget |-> x.budget, started |-> x.started, ended |-> x.ended, no_film |-> x.no_film, hit |-> x.hit,
          start |-> x.start, end |-> x.end]
    BY <2>3
  <2>7. DetIs(x)
    BY <2>4, <2>5, <1>4, Zenon DEF DetIs
  <2>8. ~x.started /\ x.budget = LINES_PER_STRIP /\ ~x.hit
    BY <1>0, <1>1, <1>4, <2>4
  <2>9. x.ended <=> x.no_film
    BY <2>4
  <2>10. DetOk(x, hs)
    BY <2>7, <2>8, <2>9 DEF DetOk
  <2>11. x.no_film \/ x = Sensed(d, n, l.level, FALSE)
    <3> SUFFICES ASSUME ~x.no_film PROVE x = Sensed(d, n, l.level, FALSE)
      OBVIOUS
    <3>1. ~past
      BY <2>4
    <3> QED BY <2>2, <2>1, <3>1 DEF IsFlag
  <2> QED BY <1>4, <2>4, <2>10, <2>11 DEF x, hs, n
<1> QED BY <1>5, <1>6

-----------------------------------------------------------------------------

(* strip_obj's strip, and what it says of how the strip ended.             *)
LEMMA StripIs ==
  ASSUME NEW d, DetIs(d), NEW partial
  PROVE  /\ Strip(d, partial) \in StripType
         /\ Finished(Strip(d, partial)) <=> ~partial
         /\ Strip(d, partial).seg = d.seg /\ Strip(d, partial).start = d.start /\ Strip(d, partial).end = d.end
         /\ ~partial => (Strip(d, partial).ended_by = "max_film_length" <=> d.hit)
<1>1. d.seg \in Nat /\ d.start \in Nat /\ d.end \in Nat
  BY DEF DetIs
<1> QED BY <1>1 DEF Strip, StripType, Marks, Finished

(* FileIs in two parts.                                                    *)
LEMMA FileStrips ==
  ASSUME NEW f
  PROVE  FileIs(f) <=> /\ f = [complete |-> f.complete, error |-> f.error, strips |-> f.strips]
                       /\ f.strips \in Seq(StripType)
BY Zenon DEF FileIs

(* pk_sidecar_truncate_strips keeps the finished strips.                   *)
LEMMA KeptIs ==
  ASSUME NEW s, FileIs(s), done \in Nat, done <= Len(s.strips)
  PROVE  Kept(s) \in Seq(StripType) /\ Len(Kept(s)) = done /\ \A k \in 1..done : Kept(s)[k] = s.strips[k]
<1>1. s.strips \in Seq(StripType)
  BY FileStrips
<1>2. Len(s.strips) \in Nat
  BY <1>1, LenProperties
<1>3. 1 \in 1..(Len(s.strips) + 1) /\ done \in 0..Len(s.strips)
  BY <1>2
<1>4. 1 - 1 = 0
  OBVIOUS
<1> QED BY <1>1, <1>3, <1>4, SubSeqProperties DEF Kept

(* A strip put at the next place.                                          *)
LEMMA WithStripIs ==
  ASSUME NEW s, FileIs(s), done \in Nat, done <= Len(s.strips), NEW entry \in StripType
  PROVE  /\ FileIs(WithStrip(s, entry))
         /\ WithStrip(s, entry).complete = s.complete /\ WithStrip(s, entry).error = s.error
         /\ Len(WithStrip(s, entry).strips) = done + 1
         /\ \A k \in 1..done : WithStrip(s, entry).strips[k] = s.strips[k]
         /\ WithStrip(s, entry).strips[done + 1] = entry
<1> DEFINE ks == Kept(s)
           as == Append(ks, entry)
           x == WithStrip(s, entry)
<1>1. ks \in Seq(StripType) /\ Len(ks) = done /\ \A k \in 1..done : ks[k] = s.strips[k]
  BY KeptIs
<1>2. x = [s EXCEPT !.strips = as]
  BY Zenon DEF WithStrip
<1> HIDE DEF ks, x
<1>3. as \in Seq(StripType) /\ Len(as) = done + 1 /\ as[done + 1] = entry /\ \A k \in 1..done : as[k] = ks[k]
  BY <1>1, AppendProperties
<1> HIDE DEF as
<1>4. x = [complete |-> s.complete, error |-> s.error, strips |-> as]
  BY <1>2 DEF FileIs
<1>5. x.complete = s.complete /\ x.error = s.error /\ x.strips = as
  BY <1>4
<1>6. FileIs(x)
  BY <1>3, <1>4, <1>5, FileStrips
<1> QED BY <1>1, <1>3, <1>5, <1>6 DEF x

(* What a flush writes: the finished strips and at most one that is not.   *)
LEMMA FlushedIs ==
  ASSUME NEW s, FileIs(s), done \in Nat, done <= Len(s.strips), DetIs(det)
  PROVE  /\ FileIs(Flushed(s))
         /\ Flushed(s).complete = s.complete /\ Flushed(s).error = s.error
         /\ Len(Flushed(s).strips) \in {done, done + 1}
         /\ ~open => Len(Flushed(s).strips) = done
         /\ \A k \in 1..done : Flushed(s).strips[k] = s.strips[k]
         /\ Len(Flushed(s).strips) = done + 1 => ~Finished(Flushed(s).strips[done + 1])
<1>1. CASE open /\ det.started
  <2>1. Strip(det, TRUE) \in StripType /\ ~Finished(Strip(det, TRUE))
    BY StripIs
  <2>2. Flushed(s) = WithStrip(s, Strip(det, TRUE))
    BY <1>1 DEF Flushed
  <2> DEFINE t == Strip(det, TRUE)
  <2>3. t \in StripType /\ ~Finished(t) /\ Flushed(s) = WithStrip(s, t)
    BY <2>1, <2>2
  <2> HIDE DEF t
  <2>4. /\ FileIs(Flushed(s)) /\ Flushed(s).complete = s.complete /\ Flushed(s).error = s.error
        /\ Len(Flushed(s).strips) = done + 1
        /\ \A k \in 1..done : Flushed(s).strips[k] = s.strips[k]
        /\ Flushed(s).strips[done + 1] = t
    BY <2>3, WithStripIs
  <2> QED BY <1>1, <2>3, <2>4
<1>2. CASE ~(open /\ det.started)
  <2> DEFINE ks == Kept(s)
  <2>1. Flushed(s) = [s EXCEPT !.strips = ks]
    BY <1>2, Zenon DEF Flushed
  <2>2. ks \in Seq(StripType) /\ Len(ks) = done /\ \A k \in 1..done : ks[k] = s.strips[k]
    BY KeptIs
  <2> HIDE DEF ks
  <2>3. Flushed(s) = [complete |-> s.complete, error |-> s.error, strips |-> ks]
    BY <2>1 DEF FileIs
  <2>4. Flushed(s).complete = s.complete /\ Flushed(s).error = s.error /\ Flushed(s).strips = ks
    BY <2>3
  <2>5. FileIs(Flushed(s))
    BY <2>2, <2>3, <2>4, FileStrips
  <2>6. done # done + 1
    OBVIOUS
  <2> QED BY <2>2, <2>4, <2>5, <2>6
<1> QED BY <1>1, <1>2

(* A write, whole or failed, of a sidecar with the finished strips of the  *)
(* one in memory: they stay, on disk as well, and a whole write brings all *)
(* of them there.                                                          *)
LEMMA WriteIs ==
  ASSUME NEW s, FileIs(s), done \in Nat, DetIs(det), StripInv, done <= Len(s.strips),
         \A k \in 1..done : s.strips[k] = sc.strips[k],
         Writes(s) \/ (WriteFails(s) /\ pc' \in {"keep"} \cup AfterStrips), UNCHANGED <<done, lines>>
  PROVE  /\ StripInv'
         /\ sc'.complete = s.complete /\ sc'.error = s.error
         /\ Writes(s) \/ disk' # disk =>
              /\ disk'.complete = s.complete /\ disk'.error = s.error
              /\ FinishedIn(disk') = 1..done
              /\ ~open => Len(disk'.strips) = done
         /\ \A k \in FinishedIn(disk) : k \in FinishedIn(disk') /\ disk'.strips[k] = disk.strips[k]
<1> DEFINE x == Flushed(s)
<1>1. /\ FileIs(x) /\ x.complete = s.complete /\ x.error = s.error
      /\ Len(x.strips) \in {done, done + 1}
      /\ ~open => Len(x.strips) = done
      /\ \A k \in 1..done : x.strips[k] = s.strips[k]
      /\ Len(x.strips) = done + 1 => ~Finished(x.strips[done + 1])
  BY FlushedIs
<1>2. sc' = x
  BY DEF Writes, WriteFails
<1>3. disk' = x \/ disk' = disk
  BY DEF Writes, WriteFails
<1>31. /\ Writes(s) \/ disk' # disk => disk' = x
       /\ disk' = x \/ pc' \in {"keep"} \cup AfterStrips
  BY DEF Writes, WriteFails
<1> HIDE DEF x
<1>4. \A k \in 1..done : x.strips[k] = sc.strips[k]
  BY <1>1
<1>5. /\ FileIs(sc) /\ FileIs(disk) /\ Len(sc.strips) \in {done, done + 1}
      /\ \A k \in 1..Len(sc.strips) : (k <= done <=> Finished(sc.strips[k])) /\ (k <= done => StripOk(sc.strips[k], k, lines))
      /\ \A k \in FinishedIn(disk) : k <= done /\ disk.strips[k] = sc.strips[k]
  BY DEF StripInv
<1>6. \A k \in 1..done : Finished(x.strips[k]) /\ StripOk(x.strips[k], k, lines)
  BY <1>4, <1>5
<1>7. \A k \in 1..Len(x.strips) : k \in 1..done \/ (k = done + 1 /\ Len(x.strips) = done + 1)
  BY <1>1
<1>8. \A k \in 1..Len(x.strips) : (k <= done <=> Finished(x.strips[k])) /\ (k <= done => StripOk(x.strips[k], k, lines))
  <2> TAKE k \in 1..Len(x.strips)
  <2>1. CASE k \in 1..done
    BY <2>1, <1>6
  <2>2. CASE k = done + 1 /\ Len(x.strips) = done + 1
    <3>1. ~(k <= done)
      BY <2>2
    <3> QED BY <3>1, <2>2, <1>1
  <2> QED BY <2>1, <2>2, <1>7
<1>9. FinishedIn(x) = 1..done
  <2>1. 1..done \subseteq 1..Len(x.strips)
    BY <1>1
  <2> QED BY <2>1, <1>6, <1>7, <1>1 DEF FinishedIn
<1>10. \A k \in FinishedIn(disk) : k \in 1..done /\ disk.strips[k] = sc.strips[k]
  BY <1>5 DEF FinishedIn
<1>11. \A k \in FinishedIn(disk) : k \in FinishedIn(disk') /\ disk'.strips[k] = disk.strips[k]
  BY <1>3, <1>4, <1>9, <1>10
<1>12. StripInv'
  <2>1. FileIs(sc)' /\ FileIs(disk)'
    BY <1>1, <1>2, <1>3, <1>5
  <2>2. /\ Len(sc'.strips) \in {done', done' + 1}
        /\ \A k \in 1..Len(sc'.strips) : (k <= done' <=> Finished(sc'.strips[k])) /\ (k <= done' => StripOk(sc'.strips[k], k, lines'))
    BY <1>1, <1>2, <1>8
  <2>3. \A k \in FinishedIn(disk') : k <= done' /\ disk'.strips[k] = sc'.strips[k]
    <3>1. CASE disk' = x
      BY <3>1, <1>2, <1>9
    <3>2. CASE disk' = disk
      BY <3>2, <1>2, <1>4, <1>10
    <3> QED BY <3>1, <3>2, <1>3
  <2>4. pc' \notin {"keep"} \cup AfterStrips => FinishedIn(disk') = 1..done'
    BY <1>9, <1>31
  <2> QED BY <2>1, <2>2, <2>3, <2>4 DEF StripInv
<1> QED BY <1>1, <1>2, <1>3, <1>31, <1>9, <1>11, <1>12

(* Each part of the invariant under a step that leaves what it is about.   *)
LEMMA SameStrips ==
  ASSUME StripInv, UNCHANGED <<sc, disk, done, lines>>,
         pc' \notin {"keep"} \cup AfterStrips => FinishedIn(disk) = 1..done
  PROVE  StripInv'
BY Zenon DEF StripInv

(* The detector, the lines it missed and the segment.                      *)
LEMMA SameDet ==
  ASSUME DetInv, UNCHANGED <<det, late, lines, segment>>
  PROVE  DetInv'
BY Zenon DEF DetInv

(* The segment and the re-arm asked for.                                   *)
LEMMA SameSeg ==
  ASSUME SegInv, UNCHANGED <<segment, st_seg, rearm, lines>>, pc' = "rearm" => pc = "rearm"
  PROVE  SegInv'
BY DEF SegInv

(* The markers, and how the run returns.                                   *)
LEMMA SameEnd ==
  ASSUME EndInv, UNCHANGED <<disk, sc, done>>,
         pc' \notin {"recheck", "returned", "crashed"} => ~disk.complete /\ ~sc.complete,
         pc' \in {"recheck", "returned"} /\ run' = "OK" => disk.complete
  PROVE  EndInv'
BY DEF EndInv

-----------------------------------------------------------------------------

(* The lines' green means are numbers.                                     *)
LEMMA LevelsAre == \A g \in LEVELS : g \in Nat
<1>1. LEVELS \subseteq 0..GREEN_MAX
  BY ScanAssumption
<1>2. GREEN_MAX \in Nat
  BY DEF GREEN_MAX
<1>3. \A g \in 0..GREEN_MAX : g \in Nat
  BY <1>2
<1> QED BY <1>1, <1>3

(* A line reaches the detector: if it is not one of its segment the strip  *)
(* has ended, or has not begun.                                            *)
LEMMA LineSeen ==
  ASSUME SegInv, DetInv, LineArrives, WorkInv
  PROVE  /\ DetInv' /\ SegInv' /\ UNCHANGED <<segment, late>>
         /\ det.started => det'.started
         /\ det.ended => det'.ended
         /\ Len(lines) \in Nat /\ Len(lines') = Len(lines) + 1 /\ \A n \in 1..Len(lines) : lines'[n] = lines[n]
<1> DEFINE L == [seg : Nat, level : LEVELS]
<1>1. PICK g \in LEVELS : LET l == [seg |-> st_seg, level |-> g]
                          IN lines' = Append(lines, l) /\ det' = DetLine(det, Len(lines) + 1, l, late)
  BY DEF LineArrives
<1>2. PICK l : l = [seg |-> st_seg, level |-> g]
  OBVIOUS
<1>3. lines' = Append(lines, l) /\ det' = DetLine(det, Len(lines) + 1, l, late)
  BY <1>1, <1>2
<1>4. /\ UNCHANGED <<late, st_seg, rearm, segment, pc>>
      /\ segment \in Nat /\ st_seg \in Nat /\ st_seg <= segment /\ lines \in Seq(L)
      /\ \A n \in 1..Len(lines) : lines[n].seg <= st_seg
  BY DEF LineArrives, ByReader, strips, SegInv
<1>5. l \in L /\ l.seg = st_seg /\ l.level \in Nat
  <2>1. g \in Nat
    BY <1>1, LevelsAre
  <2> QED BY <1>2, <1>4, <2>1
<1>6. /\ lines' \in Seq(L) /\ Len(lines) \in Nat /\ Len(lines') = Len(lines) + 1 /\ lines'[Len(lines) + 1] = l
      /\ \A n \in 1..Len(lines) : lines'[n] = lines[n]
  BY <1>3, <1>4, <1>5, LenProperties, AppendProperties
<1>7. \A n \in 1..Len(lines') : lines'[n].seg <= st_seg
  <2> TAKE n \in 1..Len(lines')
  <2>1. n = Len(lines) + 1 \/ n \in 1..Len(lines)
    BY <1>6
  <2>2. CASE n = Len(lines) + 1
    <3>1. lines'[n].seg = st_seg
      BY <2>2, <1>5, <1>6
    <3> QED BY <3>1, <1>4
  <2>3. CASE n \in 1..Len(lines)
    BY <2>3, <1>4, <1>6
  <2> QED BY <2>1, <2>2, <2>3
<1>8. SegInv'
  BY <1>4, <1>6, <1>7 DEF SegInv
<1>9. DetOk(det, lines) /\ det.seg = segment /\ IsFlag(late) /\ (det.no_film \/ det = SeenIn(lines, det.seg))
  BY DEF DetInv
<1> DEFINE x == Sensed(det, Len(lines) + 1, l.level, late)
           y == Sensed(det, Len(lines) + 1, l.level, FALSE)
<1>10. CASE l.seg = det.seg /\ ~det.ended
  <2>1. det' = x
    BY <1>3, <1>10 DEF DetLine, IsForIt
  <2>2. /\ DetOk(x, lines') /\ x.seg = det.seg /\ (x.no_film \/ x = y)
        /\ det.started => x.started
    <3> DEFINE z(p) == Sensed(det, Len(lines) + 1, l.level, p)
    <3>1. PICK p : p = late
      OBVIOUS
    <3>2. IsFlag(p)
      BY <3>1, <1>9
    <3>3. z(p) = x /\ z(FALSE) = y
      BY <3>1
    <3>4. l \in L /\ lines \in Seq(L) /\ l.level \in Nat /\ DetOk(det, lines) /\ l.seg = det.seg /\ ~det.ended
      BY <1>4, <1>5, <1>9, <1>10
    <3>5. CASE det.started
      <4>1. /\ DetOk(z(p), Append(lines, l)) /\ z(p).seg = det.seg /\ z(p) = z(FALSE) /\ z(p).started
        <5> HIDE DEF L
        <5> QED BY <3>4, <3>5, SensedStarted
      <4> HIDE DEF z, x, y
      <4> QED BY <4>1, <3>3, <1>3
    <3>6. CASE ~det.started
      <4>1. /\ DetOk(z(p), Append(lines, l)) /\ z(p).seg = det.seg /\ (z(p).no_film \/ z(p) = z(FALSE))
        <5> HIDE DEF L, z, x, y
        <5>1. /\ DetOk(Sensed(det, Len(lines) + 1, l.level, p), Append(lines, l))
              /\ Sensed(det, Len(lines) + 1, l.level, p).seg = det.seg
              /\ \/ Sensed(det, Len(lines) + 1, l.level, p).no_film
                 \/ Sensed(det, Len(lines) + 1, l.level, p) = Sensed(det, Len(lines) + 1, l.level, FALSE)
          <6>1. Waits(det, lines, l)
            BY <3>4, <3>6 DEF Waits
          <6>2. l \in L /\ lines \in Seq(L)
            BY <3>4
          <6> QED BY <3>2, <6>1, <6>2, SensedWaiting, ZenonT(60)
        <5> QED BY <5>1 DEF z
      <4> HIDE DEF z, x, y
      <4> QED BY <4>1, <3>3, <3>6, <1>3
    <3> QED BY <3>5, <3>6
  <2>3. ~det.no_film
    BY <1>9, <1>10 DEF DetOk
  <2>4. SeenIn(lines', det.seg) = y
    <3>1. det = SeenIn(lines, det.seg)
      BY <1>9, <2>3
    <3> HIDE DEF L, y
    <3>2. SeenIn(Append(lines, l), det.seg) =
           IF l.seg = det.seg /\ ~SeenIn(lines, det.seg).ended
           THEN Sensed(SeenIn(lines, det.seg), Len(lines) + 1, l.level, FALSE) ELSE SeenIn(lines, det.seg)
      BY <1>4, <1>5, SeenAppend
    <3> QED BY <3>1, <3>2, <1>3, <1>10 DEF y
  <2> HIDE DEF x, y
  <2>5. DetInv'
    BY <1>4, <1>9, <2>1, <2>2, <2>4, Zenon DEF DetInv
  <2> QED BY <1>4, <1>6, <1>8, <1>10, <2>1, <2>2, <2>5
<1>11. CASE ~(l.seg = det.seg /\ ~det.ended)
  <2>1. det' = det
    BY <1>3, <1>11 DEF DetLine, IsForIt
  <2>2. det.no_film \/ det = SeenIn(lines', det.seg)
    <3> SUFFICES ASSUME ~det.no_film PROVE det = SeenIn(lines', det.seg)
      OBVIOUS
    <3>1. det = SeenIn(lines, det.seg)
      BY <1>9
    <3> HIDE DEF L
    <3>2. SeenIn(Append(lines, l), det.seg) =
           IF l.seg = det.seg /\ ~SeenIn(lines, det.seg).ended
           THEN Sensed(SeenIn(lines, det.seg), Len(lines) + 1, l.level, FALSE) ELSE SeenIn(lines, det.seg)
      BY <1>4, <1>5, SeenAppend
    <3>3. ~(l.seg = det.seg /\ ~SeenIn(lines, det.seg).ended)
      BY <3>1, <1>11
    <3> QED BY <3>1, <3>2, <3>3, <1>3, Zenon
  <2>3. DetOk(det, lines')
    <3>1. ~(det.started /\ ~det.ended)
      <4> SUFFICES ASSUME det.started, ~det.ended PROVE FALSE
        OBVIOUS
      <4>1. det.end \in 1..Len(lines) /\ lines[det.end].seg = det.seg
        BY <1>9, <1>6, SMTT(30) DEF DetOk, DetIs
      <4>2. det.seg <= st_seg
        BY <4>1, <1>4
      <4>3. st_seg = det.seg
        BY <4>2, <1>4, <1>9
      <4> QED BY <4>3, <1>5, <1>11
    <3>2. det.started => \A n \in det.start..det.end : n \in 1..Len(lines)
      BY <1>9, <1>6 DEF DetOk, DetIs
    <3>3. det.started => det.end <= Len(lines')
      BY <1>9, <1>6 DEF DetOk, DetIs
    <3>4. det.started => \A n \in det.start..det.end : lines'[n].seg = det.seg
      BY <3>2, <1>6, <1>9 DEF DetOk
    <3> QED BY <3>1, <3>3, <3>4, <1>9 DEF DetOk
  <2>4. DetInv'
    BY <1>4, <1>9, <2>1, <2>2, <2>3, Zenon DEF DetInv
  <2> QED BY <1>4, <1>6, <1>8, <2>1, <2>4
<1> QED BY <1>10, <1>11

(* The finished strips lie in lines that stay.                             *)
LEMMA MoreLines ==
  ASSUME StripInv, UNCHANGED <<sc, disk, done, pc>>, Len(lines) \in Nat, Len(lines') = Len(lines) + 1,
         \A n \in 1..Len(lines) : lines'[n] = lines[n]
  PROVE  StripInv'
<1>1. /\ FileIs(sc) /\ FileIs(disk) /\ Len(sc.strips) \in {done, done + 1}
      /\ \A k \in 1..Len(sc.strips) : /\ k <= done <=> Finished(sc.strips[k])
                                      /\ k <= done => StripOk(sc.strips[k], k, lines)
      /\ \A k \in FinishedIn(disk) : k <= done /\ disk.strips[k] = sc.strips[k]
      /\ pc \notin {"keep"} \cup AfterStrips => FinishedIn(disk) = 1..done
  BY DEF StripInv
<1>2. ASSUME NEW k \in 1..Len(sc.strips), k <= done
      PROVE  StripOk(sc.strips[k], k, lines')
  <2>1. PICK s : s = sc.strips[k]
    OBVIOUS
  <2>2. StripOk(s, k, lines)
    BY <1>1, <1>2, <2>1
  <2>3. s.start \in Nat /\ s.end \in Nat
    <3>1. sc.strips \in Seq(StripType)
      BY <1>1, FileStrips
    <3>2. s \in StripType
      BY <2>1, <3>1, ElementOfSeq
    <3> QED BY <3>2 DEF StripType
  <2>4. \A n \in s.start..s.end : n \in 1..Len(lines)
    BY <2>2, <2>3 DEF StripOk
  <2>5. \A n \in s.start..s.end : lines'[n].seg = s.seg
    BY <2>2, <2>4 DEF StripOk
  <2>6. s.end <= Len(lines')
    BY <2>2, <2>3 DEF StripOk
  <2>7. StripOk(s, k, lines')
    BY <2>2, <2>5, <2>6, Zenon DEF StripOk
  <2> QED BY <2>1, <2>7
<1>3. \A k \in 1..Len(sc'.strips) : (k <= done' <=> Finished(sc'.strips[k])) /\ (k <= done' => StripOk(sc'.strips[k], k, lines'))
  BY <1>1, <1>2
<1> HIDE <1>2
<1> QED BY <1>1, <1>3, Zenon DEF StripInv

(* LineArrives keeps the invariant.                                        *)
LEMMA LineStep ==
  ASSUME ScanInv, LineArrives
  PROVE  ScanInv'
<1> USE DEF ScanInv
<1>1. /\ DetInv' /\ SegInv' /\ UNCHANGED <<segment, late>>
      /\ (det.started => det'.started) /\ (det.ended => det'.ended)
      /\ Len(lines) \in Nat /\ Len(lines') = Len(lines) + 1 /\ \A n \in 1..Len(lines) : lines'[n] = lines[n]
  BY LineSeen
<1>2. UNCHANGED <<pc, open, done, segment, run, sc, disk, cancel, fatal>>
  BY DEF LineArrives, ByReader, strips, files
<1>3. WorkInv'
  BY <1>1, <1>2 DEF WorkInv
<1>4. StripInv'
  BY <1>1, <1>2, MoreLines
<1>5. EndInv'
  BY <1>2 DEF EndInv, ScanInv
<1> QED BY <1>1, <1>3, <1>4, <1>5

(* The stream takes the re-arm.                                            *)
LEMMA RearmTakenStep ==
  ASSUME ScanInv, RearmTaken
  PROVE  ScanInv'
<1>1. /\ UNCHANGED <<pc, open, done, segment, run, sc, disk, cancel, fatal, det, late, lines>>
      /\ rearm /\ ~rearm' /\ st_seg' = st_seg + 1
  BY DEF RearmTaken, ByReader, strips, files, detector
<1>2. SegInv'
  <2>1. /\ segment \in Nat /\ st_seg \in Nat /\ st_seg + 1 <= segment /\ pc # "rearm"
        /\ lines \in Seq([seg : Nat, level : LEVELS])
        /\ \A n \in 1..Len(lines) : lines[n].seg <= st_seg
    BY <1>1 DEF ScanInv, SegInv
  <2>2. \A n \in 1..Len(lines) : lines[n].seg <= st_seg + 1
    <3> TAKE n \in 1..Len(lines)
    <3>1. lines[n] \in [seg : Nat, level : LEVELS]
      BY <2>1, ElementOfSeq
    <3>2. lines[n].seg \in Nat /\ lines[n].seg <= st_seg
      BY <3>1, <2>1
    <3> QED BY <3>2, <2>1
  <2> QED BY <1>1, <2>1, <2>2 DEF SegInv
<1>3. DetInv'
  BY <1>1, SameDet DEF ScanInv
<1>4. WorkInv' /\ EndInv'
  BY <1>1 DEF ScanInv, WorkInv, EndInv
<1>5. StripInv'
  BY <1>1, SameStrips DEF ScanInv, StripInv
<1> QED BY <1>2, <1>3, <1>4, <1>5 DEF ScanInv

(* A failure of the reader or the writer, the deadline, a cancel.          *)
LEMMA OtherStep ==
  ASSUME ScanInv, ReaderFails \/ RawFails \/ DeadlinePasses \/ Cancels
  PROVE  ScanInv'
<1>1. UNCHANGED <<pc, open, done, segment, run, sc, disk, det, lines, st_seg, rearm>>
  BY DEF ReaderFails, RawFails, DeadlinePasses, Cancels, ByReader, strips, files, detector, stream
<1>2. (late' = TRUE \/ late' = late) /\ (fatal' = fatal \/ fatal' \in {"LOST_SYNC", "NOMEM", "IO"})
  BY DEF ReaderFails, RawFails, DeadlinePasses, Cancels, ByReader, strips, files, detector, stream, First
<1>3. SegInv'
  BY <1>1, SameSeg DEF ScanInv
<1>4. DetInv'
  BY <1>1, <1>2, Zenon DEF ScanInv, DetInv, IsFlag
<1>5. WorkInv' /\ EndInv'
  BY <1>1, <1>2 DEF ScanInv, WorkInv, EndInv
<1>6. StripInv'
  BY <1>1, SameStrips DEF ScanInv, StripInv
<1> QED BY <1>3, <1>4, <1>5, <1>6 DEF ScanInv

(* The process dies.                                                       *)
LEMMA DiesStep ==
  ASSUME ScanInv, Dies
  PROVE  ScanInv'
<1>1. /\ UNCHANGED <<open, done, segment, run, sc, disk, det, late, lines, st_seg, rearm, fatal>>
      /\ pc' = "crashed"
  BY DEF Dies, strips, files, detector
<1>2. SegInv' /\ DetInv'
  BY <1>1, SameSeg, SameDet DEF ScanInv
<1>3. WorkInv'
  BY <1>1 DEF ScanInv, WorkInv, PCs, AfterStrips
<1>4. EndInv'
  BY <1>1 DEF ScanInv, EndInv
<1>5. StripInv'
  BY <1>1, SameStrips DEF ScanInv, AfterStrips
<1> QED BY <1>2, <1>3, <1>4, <1>5 DEF ScanInv

(* The worker goes on to the sidecar, or around the loop.                  *)
LEMMA PlainStep ==
  ASSUME ScanInv, Gate \/ LoopPasses
  PROVE  ScanInv'
<1>1. /\ UNCHANGED <<open, done, segment, run, sc, disk, det, late, lines, st_seg, rearm, fatal>>
      /\ \/ pc = "gate" /\ pc' = "open"
         \/ pc = "loop" /\ pc' = "look"
  BY DEF Gate, LoopPasses, Steps, Goes, strips, files, detector, stream
<1>2. SegInv' /\ DetInv'
  BY <1>1, SameSeg, SameDet DEF ScanInv
<1>3. WorkInv'
  BY <1>1 DEF ScanInv, WorkInv, PCs, AfterStrips
<1>4. EndInv'
  BY <1>1 DEF ScanInv, EndInv
<1>5. StripInv'
  BY <1>1, SameStrips DEF ScanInv, StripInv, AfterStrips
<1> QED BY <1>2, <1>3, <1>4, <1>5 DEF ScanInv

(* The run ends with an error.                                             *)
FailsAt(from) ==
  \E st \in {"DEVICE", "CANCELLED", "FILM_IN_GUIDES", "LOST_SYNC", "NOMEM", "IO", "TIMEOUT"} : Fails(from, st)

(* ... which leaves everything but the place and the status.               *)
LEMMA FailStep ==
  ASSUME ScanInv, NEW from \in {"gate", "prepare", "loop", "finish", "arm"}, FailsAt(from)
  PROVE  ScanInv'
<1>1. /\ UNCHANGED <<open, done, segment, sc, disk, det, late, lines, st_seg, rearm, fatal>>
      /\ pc \in {"gate", "prepare", "loop", "finish", "arm"} /\ pc' = "end" /\ run' # "OK"
  BY DEF FailsAt, Fails, Goes, strips, files, detector, stream
<1>2. SegInv' /\ DetInv'
  BY <1>1, SameSeg, SameDet DEF ScanInv
<1>3. WorkInv'
  BY <1>1 DEF ScanInv, WorkInv, PCs, AfterStrips
<1>4. EndInv'
  BY <1>1 DEF ScanInv, EndInv
<1>5. StripInv'
  BY <1>1, SameStrips DEF ScanInv, AfterStrips
<1> QED BY <1>2, <1>3, <1>4, <1>5 DEF ScanInv

(* The actions that are one of those.                                      *)
LEMMA FailActions ==
  ASSUME ScanInv, GateRefuses \/ PrepareFails \/ LoopEnds \/ DrainFails \/ ArmFails
  PROVE  ScanInv'
<1>1. fatal \in {"OK", "LOST_SYNC", "NOMEM", "IO"}
  BY DEF ScanInv, WorkInv
<1>2. \E from \in {"gate", "prepare", "loop", "finish", "arm"} : FailsAt(from)
  <2>1. CASE GateRefuses
    BY <2>1, Zenon DEF GateRefuses, FailsAt
  <2>2. CASE PrepareFails
    BY <2>2, Zenon DEF PrepareFails, FailsAt
  <2>3. CASE LoopEnds
    BY <2>3, <1>1, Zenon DEF LoopEnds, FailsAt
  <2>4. CASE DrainFails \/ ArmFails
    BY <2>4, Zenon DEF DrainFails, ArmFails, FailsAt
  <2> QED BY <2>1, <2>2, <2>3, <2>4
<1> QED BY <1>2, FailStep

-----------------------------------------------------------------------------

(* FinishedIsKept's first part: no finished strip leaves the disk or       *)
(* changes there.                                                          *)
DiskKept == \A k \in FinishedIn(disk) : k \in FinishedIn(disk') /\ disk'.strips[k] = disk.strips[k]

(* What the writes need of the invariant.                                  *)
LEMMA StripFacts ==
  ASSUME ScanInv
  PROVE  /\ FileIs(sc) /\ done \in Nat /\ DetIs(det) /\ Len(sc.strips) \in Nat /\ done <= Len(sc.strips)
         /\ StripInv /\ segment \in Nat
<1>1. FileIs(sc) /\ done \in Nat /\ DetIs(det) /\ Len(sc.strips) \in {done, done + 1} /\ StripInv /\ segment \in Nat
  BY DEF ScanInv, StripInv, WorkInv, DetInv, DetOk, SegInv
<1> QED BY <1>1

(* The sidecar that sidecar_open starts.                                   *)
LEMMA OpenedIs == FileIs(Opened) /\ Opened.error = "null" /\ ~Opened.complete /\ Len(Opened.strips) = 0
<1>1. Opened = [complete |-> FALSE, error |-> "null", strips |-> <<>>]
  <2>1. NoFile = [complete |-> FALSE, error |-> "none", strips |-> <<>>]
    BY DEF NoFile
  <2>2. Opened = [NoFile EXCEPT !.error = "null"]
    BY Zenon DEF Opened
  <2> QED BY <2>1, <2>2, Zenon
<1>2. <<>> \in Seq(StripType) /\ Len(<<>>) = 0
  BY EmptySeq
<1> HIDE DEF StripType
<1>3. Opened.strips = <<>> /\ Opened.error = "null" /\ ~Opened.complete
  BY <1>1
<1>4. Opened = [complete |-> Opened.complete, error |-> Opened.error, strips |-> Opened.strips]
  BY <1>1
<1> QED BY <1>2, <1>3, <1>4, FileStrips

(* The sidecar is created, or is not.                                      *)
LEMMA OpenStep ==
  ASSUME ScanInv, OpensSidecar \/ OpenFails
  PROVE  ScanInv' /\ DiskKept
<1>1. /\ UNCHANGED <<open, done, segment, det, late, lines, st_seg, rearm, fatal>>
      /\ pc = "open"
      /\ \/ pc' = "prepare" /\ Writes(Opened) /\ UNCHANGED run
         \/ pc' = "end" /\ WriteFails(Opened) /\ run' = "IO"
  BY DEF OpensSidecar, OpenFails, Goes, strips, detector, stream
<1>2. done = 0 /\ ~open /\ run = "OK" /\ ~disk.complete /\ ~sc.complete
  BY <1>1 DEF ScanInv, WorkInv, EndInv, AfterStrips
<1>3. /\ StripInv' /\ sc'.complete = Opened.complete /\ sc'.error = Opened.error /\ DiskKept
      /\ disk'.complete = disk.complete \/ disk'.complete = Opened.complete
  <2>1. done <= Len(Opened.strips) /\ \A k \in 1..done : Opened.strips[k] = sc.strips[k]
    BY <1>2, OpenedIs
  <2>2. Writes(Opened) \/ (WriteFails(Opened) /\ pc' \in {"keep"} \cup AfterStrips)
    BY <1>1 DEF AfterStrips
  <2> QED BY <1>1, <2>1, <2>2, OpenedIs, StripFacts, WriteIs DEF DiskKept
<1>4. SegInv' /\ DetInv'
  BY <1>1, SameSeg, SameDet DEF ScanInv
<1>5. WorkInv'
  BY <1>1, <1>2, <1>3, OpenedIs DEF ScanInv, WorkInv, PCs, AfterStrips
<1>6. EndInv'
  BY <1>1, <1>2, <1>3, OpenedIs DEF EndInv
<1> QED BY <1>3, <1>4, <1>5, <1>6 DEF ScanInv

-----------------------------------------------------------------------------

(* Steps that do not write.                                                *)
LEMMA NotWritten ==
  ASSUME UNCHANGED disk
  PROVE  DiskKept
BY DEF DiskKept

(* The boards are made ready, or fail after the stream has started.        *)
LEMMA PrepareStep ==
  ASSUME ScanInv, Prepare
  PROVE  ScanInv'
<1>1. /\ UNCHANGED <<open, done, segment, sc, disk, det, late, lines, st_seg, rearm, fatal>>
      /\ pc = "prepare"
      /\ \/ pc' = "loop" /\ UNCHANGED run
         \/ pc' = "end" /\ run' = "DEVICE"
  BY DEF Prepare, Goes, strips, files, detector
<1>2. SegInv' /\ DetInv'
  BY <1>1, SameSeg, SameDet DEF ScanInv
<1>3. WorkInv'
  BY <1>1 DEF ScanInv, WorkInv, PCs, AfterStrips
<1>4. EndInv'
  BY <1>1 DEF ScanInv, EndInv
<1>5. StripInv'
  BY <1>1, SameStrips DEF ScanInv, StripInv, AfterStrips
<1> QED BY <1>2, <1>3, <1>4, <1>5 DEF ScanInv

(* det_check_deadline ends only a strip that has not begun.                *)
LEMMA OverdueIs ==
  ASSUME DetInv, NEW d, d = Overdue(det, late)
  PROVE  /\ DetOk(d, lines) /\ d.seg = segment
         /\ d.no_film \/ d = SeenIn(lines, d.seg)
         /\ d = det \/ (~det.started /\ d.no_film)
         /\ d.started <=> det.started
<1>1. DetOk(det, lines) /\ det.seg = segment /\ (det.no_film \/ det = SeenIn(lines, det.seg))
  BY DEF DetInv
<1>2. CASE late /\ ~det.started /\ ~det.ended
  <2>1. d = [det EXCEPT !.no_film = TRUE, !.ended = TRUE]
    BY <1>2, Zenon DEF Overdue
  <2>2. DetIs(det) /\ det.budget = LINES_PER_STRIP /\ ~det.hit
    BY <1>1, <1>2 DEF DetOk
  <2>3. d = [seg |-> det.seg, film |-> det.film, white |-> det.white, sum_left |-> det.sum_left, sum |-> det.sum,
          budget |-> det.budget, started |-> det.started, ended |-> TRUE, no_film |-> TRUE, hit |-> det.hit,
          start |-> det.start, end |-> det.end]
    BY <2>1, <2>2 DEF DetIs
  <2>40. /\ d.seg = det.seg /\ d.film = det.film /\ d.white = det.white /\ d.sum_left = det.sum_left
         /\ d.sum = det.sum /\ d.budget = det.budget
    BY <2>3
  <2>41. d.start = det.start /\ d.end = det.end /\ d.hit = det.hit /\ d.started = det.started
    BY <2>3
  <2>42. d.ended /\ d.no_film
    BY <2>3
  <2>4. /\ d.seg = det.seg /\ d.film = det.film /\ d.white = det.white /\ d.sum_left = det.sum_left /\ d.sum = det.sum
        /\ d.budget = det.budget /\ d.started = det.started /\ d.ended /\ d.no_film /\ d.start = det.start
        /\ d.end = det.end /\ d.hit = det.hit
    BY <2>40, <2>41, <2>42
  <2>5. d = [seg |-> d.seg, film |-> d.film, white |-> d.white, sum_left |-> d.sum_left, sum |-> d.sum,
          budget |-> d.budget, started |-> d.started, ended |-> d.ended, no_film |-> d.no_film, hit |-> d.hit,
          start |-> d.start, end |-> d.end]
    BY <2>3
  <2>6. DetIs(d)
    BY <2>2, <2>4, <2>5, Zenon DEF DetIs
  <2>7. ~d.started /\ d.budget = LINES_PER_STRIP /\ ~d.hit
    BY <1>2, <2>2, <2>4
  <2>8. DetOk(d, lines)
    BY <2>4, <2>6, <2>7 DEF DetOk
  <2> QED BY <1>1, <1>2, <2>4, <2>8
<1>3. CASE ~(late /\ ~det.started /\ ~det.ended)
  <2>1. d = det
    BY <1>3 DEF Overdue
  <2> QED BY <1>1, <2>1
<1> QED BY <1>2, <1>3

(* The worker's look at the detector.                                      *)
LEMMA LookStep ==
  ASSUME ScanInv, Look
  PROVE  ScanInv'
<1>1. PICK d : d = Overdue(det, late)
  OBVIOUS
<1>2. /\ UNCHANGED <<done, segment, sc, disk, late, lines, st_seg, rearm, fatal>>
      /\ pc = "look" /\ det' = d /\ open' = (open \/ d.started)
      /\ \/ ~d.ended /\ pc' \in {"loop", "flush"} /\ UNCHANGED run
         \/ d.ended /\ ~d.no_film /\ pc' = "finish" /\ UNCHANGED run
         \/ d.ended /\ d.no_film /\ pc' = "end" /\ run' = IF done = 0 THEN "NO_FILM" ELSE "OK"
  BY <1>1 DEF Look, files, stream
<1>3. /\ DetOk(d, lines) /\ d.seg = segment
      /\ d.no_film \/ d = SeenIn(lines, d.seg)
      /\ d = det \/ (~det.started /\ d.no_film)
      /\ d.started <=> det.started
  <2>1. DetInv
    BY DEF ScanInv
  <2> QED BY <1>1, <2>1, OverdueIs
<1>4. DetInv'
  BY <1>2, <1>3, Zenon DEF ScanInv, DetInv
<1>5. SegInv'
  BY <1>2, SameSeg DEF ScanInv
<1>6. WorkInv'
  <2>1. (open' <=> open \/ d.started) /\ (d.ended /\ ~d.no_film => d.started) /\ (d.no_film => ~d.started)
    BY <1>2, <1>3 DEF DetOk
  <2>2. (open => det.started /\ done = segment) /\ done = segment /\ done \in Nat /\ run = "OK"
        /\ fatal \in {"OK", "LOST_SYNC", "NOMEM", "IO"} /\ sc.error # "none"
    BY <1>2 DEF ScanInv, WorkInv, AfterStrips
  <2>3. open' => det'.started /\ done' = segment'
    BY <1>2, <1>3, <2>1, <2>2
  <2>4. CASE ~d.ended /\ pc' \in {"loop", "flush"} /\ UNCHANGED run
    BY <1>2, <2>2, <2>3, <2>4 DEF WorkInv, PCs, AfterStrips
  <2>5. CASE d.ended /\ ~d.no_film /\ pc' = "finish" /\ UNCHANGED run
    BY <1>2, <2>1, <2>2, <2>3, <2>5 DEF WorkInv, PCs, AfterStrips
  <2>6. CASE d.ended /\ d.no_film /\ pc' = "end" /\ run' = IF done = 0 THEN "NO_FILM" ELSE "OK"
    <3>1. ~open'
      BY <1>3, <2>1, <2>2, <2>6
    <3>2. run' = "OK" => done > 0
      BY <2>2, <2>6
    <3> QED BY <1>2, <2>1, <2>2, <3>1, <3>2, <2>6 DEF WorkInv, PCs, AfterStrips
  <2> QED BY <1>2, <2>4, <2>5, <2>6
<1>7. EndInv'
  BY <1>2 DEF ScanInv, EndInv
<1>8. StripInv'
  BY <1>2, SameStrips DEF ScanInv, StripInv, AfterStrips
<1> QED BY <1>4, <1>5, <1>6, <1>7, <1>8 DEF ScanInv

(* The film LED fails.                                                     *)
LEMMA LedStep ==
  ASSUME ScanInv, LedFails
  PROVE  ScanInv'
<1>1. /\ UNCHANGED <<done, segment, sc, disk, det, late, lines, st_seg, rearm, fatal>>
      /\ pc = "look" /\ pc' = "end" /\ run' = "DEVICE" /\ det.started
  BY DEF LedFails, Goes, files, detector, stream
<1>2. SegInv' /\ DetInv'
  BY <1>1, SameSeg, SameDet DEF ScanInv
<1>3. WorkInv'
  BY <1>1 DEF ScanInv, WorkInv, PCs, AfterStrips
<1>4. EndInv'
  BY <1>1 DEF ScanInv, EndInv
<1>5. StripInv'
  BY <1>1, SameStrips DEF ScanInv, AfterStrips
<1> QED BY <1>2, <1>3, <1>4, <1>5 DEF ScanInv

(* The timed flush and the one that keeps a strip.                         *)
LEMMA FlushStep ==
  ASSUME ScanInv, TimedFlush \/ KeepStrip
  PROVE  ScanInv' /\ DiskKept
<1>1. /\ UNCHANGED <<open, done, segment, det, late, lines, st_seg, rearm, fatal>>
      /\ pc \in {"flush", "keep"}
      /\ \/ pc' = "loop" /\ pc = "flush" /\ Writes(sc) /\ UNCHANGED run
         \/ pc' = "arm" /\ pc = "keep" /\ Writes(sc) /\ UNCHANGED run
         \/ pc' = "end" /\ pc = "keep" /\ Writes(sc) /\ UNCHANGED run
         \/ pc' = "end" /\ WriteFails(sc) /\ run' = "IO"
  BY DEF TimedFlush, KeepStrip, Goes, strips, detector, stream
<1>2. /\ run = "OK" /\ ~disk.complete /\ ~sc.complete /\ sc.error # "none"
      /\ pc = "keep" => done = segment + 1 /\ ~open /\ det.started /\ det.ended
  BY <1>1 DEF ScanInv, WorkInv, EndInv, AfterStrips, SegInv
<1>3. /\ StripInv' /\ sc'.complete = sc.complete /\ sc'.error = sc.error /\ DiskKept
      /\ disk'.complete = disk.complete \/ disk'.complete = sc.complete
  <2>1. Writes(sc) \/ (WriteFails(sc) /\ pc' \in {"keep"} \cup AfterStrips)
    BY <1>1 DEF AfterStrips
  <2> QED BY <1>1, <2>1, StripFacts, WriteIs DEF DiskKept
<1>4. SegInv' /\ DetInv'
  BY <1>1, SameSeg, SameDet DEF ScanInv
<1>5. WorkInv'
  <2>1. segment \in Nat /\ done \in Nat
    BY DEF ScanInv, SegInv, WorkInv
  <2> QED BY <1>1, <1>2, <1>3, <2>1 DEF ScanInv, WorkInv, PCs, AfterStrips
<1>6. EndInv'
  BY <1>1, <1>2, <1>3 DEF EndInv
<1> QED BY <1>3, <1>4, <1>5, <1>6 DEF ScanInv

(* A strip is recorded: as the detector found it, at the next place.       *)
LEMMA FinishStep ==
  ASSUME ScanInv, FinishStrip
  PROVE  ScanInv'
<1>1. /\ UNCHANGED <<segment, run, disk, det, late, lines, st_seg, rearm, fatal>>
      /\ pc = "finish" /\ pc' = "keep" /\ done' = done + 1 /\ ~open'
      /\ sc' = WithStrip(sc, Strip(det, FALSE))
  BY DEF FinishStrip, Goes, detector, stream
<1>2. /\ det.started /\ det.ended /\ done = segment /\ det.seg = segment /\ run = "OK" /\ ~disk.complete /\ ~sc.complete
      /\ sc.error # "none" /\ segment \in Nat /\ FinishedIn(disk) = 1..done /\ DetOk(det, lines)
  BY <1>1 DEF ScanInv, WorkInv, EndInv, AfterStrips, SegInv, DetInv, StripInv
<1>3. PICK t : t = Strip(det, FALSE)
  OBVIOUS
<1>4. /\ t \in StripType /\ Finished(t) /\ t.seg = det.seg /\ t.start = det.start /\ t.end = det.end
      /\ t.ended_by = "max_film_length" <=> det.hit
  <2>1. DetIs(det)
    BY <1>2 DEF DetOk
  <2> QED BY <1>3, <2>1 DEF Strip, StripType, Marks, Finished, DetIs
<1>5. /\ FileIs(sc') /\ sc'.complete = sc.complete /\ sc'.error = sc.error
      /\ Len(sc'.strips) = done + 1 /\ sc'.strips[done + 1] = t
      /\ \A k \in 1..done : sc'.strips[k] = sc.strips[k]
  <2>1. sc' = WithStrip(sc, t)
    BY <1>1, <1>3
  <2> QED BY <1>4, <2>1, StripFacts, WithStripIs
<1>6. StripOk(t, done + 1, lines)
  <2>1. /\ det.start \in Nat /\ det.end \in Nat /\ 1 <= det.start /\ det.start <= det.end /\ det.end <= Len(lines)
        /\ det.budget \in Nat /\ det.budget = LINES_PER_STRIP - (det.end - det.start + 1) - 1
        /\ det.hit <=> det.budget = 0
        /\ \A n \in det.start..det.end : lines[n].seg = det.seg
    BY <1>2 DEF DetOk, DetIs
  <2>2. t.seg = (done + 1) - 1
    BY <1>2, <1>4
  <2>3. t.end - t.start + 1 < LINES_PER_STRIP
    BY <2>1, <1>4, BudgetIs
  <2>4. t.ended_by = "max_film_length" <=> t.end - t.start + 2 = LINES_PER_STRIP
    <3>1. det.budget = 0 <=> det.end - det.start + 2 = LINES_PER_STRIP
      BY <2>1, BudgetIs
    <3> QED BY <2>1, <3>1, <1>4
  <2> QED BY <1>4, <2>1, <2>2, <2>3, <2>4 DEF StripOk
<1>7. StripInv'
  <2>0. /\ FileIs(disk)
        /\ \A k \in 1..Len(sc.strips) : (k <= done <=> Finished(sc.strips[k])) /\ (k <= done => StripOk(sc.strips[k], k, lines))
        /\ \A k \in FinishedIn(disk) : k <= done /\ disk.strips[k] = sc.strips[k]
    BY DEF ScanInv, StripInv
  <2>1. \A k \in 1..Len(sc'.strips) : (k <= done' <=> Finished(sc'.strips[k])) /\ (k <= done' => StripOk(sc'.strips[k], k, lines'))
    <3> TAKE k \in 1..Len(sc'.strips)
    <3>0. done \in Nat /\ done' = done + 1 /\ k \in 1..(done + 1) /\ k <= done'
      <4>1. done \in Nat /\ done' = done + 1
        BY <1>1, <1>2
      <4>2. k \in 1..(done + 1)
        BY <1>5
      <4> QED BY <4>1, <4>2
    <3>1. CASE k = done + 1
      <4>1. sc'.strips[k] = t
        BY <3>1, <1>5
      <4>2. Finished(sc'.strips[k])
        BY <4>1, <1>4
      <4>3. StripOk(sc'.strips[k], k, lines')
        BY <4>1, <3>1, <1>1, <1>6
      <4> QED BY <3>0, <4>2, <4>3
    <3>2. CASE k # done + 1
      <4>1. k \in 1..done /\ k \in 1..Len(sc.strips) /\ k <= done
        BY <3>0, <3>2, StripFacts
      <4>2. sc'.strips[k] = sc.strips[k]
        BY <4>1, <1>5
      <4>3. Finished(sc.strips[k]) /\ StripOk(sc.strips[k], k, lines)
        BY <4>1, <2>0
      <4>4. StripOk(sc'.strips[k], k, lines')
        BY <4>2, <4>3, <1>1
      <4> QED BY <3>0, <4>2, <4>3, <4>4
    <3> QED BY <3>1, <3>2
  <2>2. \A k \in FinishedIn(disk) : k <= done' /\ disk.strips[k] = sc'.strips[k]
    <3> TAKE k \in FinishedIn(disk)
    <3>1. k \in 1..done /\ disk.strips[k] = sc.strips[k]
      BY <1>2, <2>0
    <3>2. done \in Nat /\ done' = done + 1
      BY <1>1, <1>2
    <3>3. k <= done'
      BY <3>1, <3>2
    <3> QED BY <3>1, <3>3, <1>5
  <2>3. Len(sc'.strips) \in {done', done' + 1} /\ FileIs(disk') /\ (pc' \notin {"keep"} \cup AfterStrips => FinishedIn(disk') = 1..done')
    BY <1>1, <1>5, <2>0
  <2> QED BY <1>1, <1>5, <2>1, <2>2, <2>3, Zenon DEF StripInv
<1>8. SegInv' /\ DetInv'
  BY <1>1, SameSeg, SameDet DEF ScanInv
<1>9. WorkInv'
  <2>1. done' \in Nat /\ done' = segment' + 1
    BY <1>1, <1>2
  <2>2. det'.started /\ det'.ended /\ run' = "OK" /\ sc'.error # "none" /\ fatal' \in {"OK", "LOST_SYNC", "NOMEM", "IO"}
    BY <1>1, <1>2, <1>5 DEF ScanInv, WorkInv
  <2> QED BY <1>1, <2>1, <2>2 DEF WorkInv, PCs, AfterStrips
<1>10. EndInv'
  BY <1>1, <1>2, <1>5 DEF EndInv
<1> QED BY <1>7, <1>8, <1>9, <1>10 DEF ScanInv

(* The detector is armed for the next segment: the stream has not come to  *)
(* it, as the strip before was seen there.                                 *)
LEMMA ArmStep ==
  ASSUME ScanInv, ArmDetector
  PROVE  ScanInv'
<1>1. /\ UNCHANGED <<open, done, run, sc, disk, lines, st_seg, rearm, fatal>>
      /\ pc = "arm" /\ pc' = "rearm" /\ segment' = segment + 1 /\ det' = Armed(segment + 1) /\ late' = FALSE
  BY DEF ArmDetector, Goes, files, stream
<1>2. /\ det.started /\ done = segment + 1 /\ det.seg = segment /\ run = "OK" /\ ~open
      /\ sc.error # "none" /\ segment \in Nat /\ st_seg \in Nat /\ st_seg <= segment /\ DetOk(det, lines)
      /\ (rearm => st_seg + 1 <= segment) /\ lines \in Seq([seg : Nat, level : LEVELS])
      /\ \A n \in 1..Len(lines) : lines[n].seg <= st_seg
  BY <1>1 DEF ScanInv, WorkInv, AfterStrips, SegInv, DetInv
<1>3. st_seg = segment
  <2>1. det.end \in 1..Len(lines) /\ lines[det.end].seg = det.seg
    BY <1>2 DEF DetOk, DetIs
  <2>2. det.seg <= st_seg
    BY <2>1, <1>2
  <2> QED BY <2>2, <1>2
<1>4. ~rearm
  BY <1>2, <1>3
<1>5. SegInv'
  BY <1>1, <1>2, <1>3, <1>4 DEF SegInv
<1>6. DetInv'
  <2>1. segment + 1 \in Nat
    BY <1>2
  <2>2. DetOk(Armed(segment + 1), lines) /\ Armed(segment + 1).seg = segment + 1
    BY <2>1, ArmedIs
  <2>3. SeenIn(lines, segment + 1) = Armed(segment + 1)
    <3>1. \A n \in 1..Len(lines) : lines[n].seg # segment + 1
      <4> TAKE n \in 1..Len(lines)
      <4>1. lines[n] \in [seg : Nat, level : LEVELS]
        BY <1>2, ElementOfSeq
      <4> QED BY <4>1, <1>2
    <3> QED BY <3>1, <1>2, SeenNone
  <2> QED BY <1>1, <2>2, <2>3, Zenon DEF DetInv, IsFlag
<1>7. WorkInv'
  <2>1. ~det'.started
    BY <1>1 DEF Armed
  <2> QED BY <1>1, <1>2, <2>1 DEF ScanInv, WorkInv, PCs, AfterStrips
<1>8. EndInv'
  BY <1>1 DEF ScanInv, EndInv
<1>9. StripInv'
  BY <1>1, SameStrips DEF ScanInv, StripInv, AfterStrips
<1> QED BY <1>5, <1>6, <1>7, <1>8, <1>9 DEF ScanInv

(* The stream is told of it.                                               *)
LEMMA RearmStep ==
  ASSUME ScanInv, Rearm
  PROVE  ScanInv'
<1>1. /\ UNCHANGED <<open, done, segment, sc, disk, det, late, lines, st_seg, fatal>>
      /\ pc = "rearm" /\ rearm'
      /\ \/ pc' \in {"loop", "flush"} /\ UNCHANGED run
         \/ pc' = "end" /\ run' = "DEVICE"
  BY DEF Rearm, Goes, strips, files, detector
<1>2. SegInv'
  BY <1>1 DEF ScanInv, SegInv
<1>3. DetInv'
  BY <1>1, SameDet DEF ScanInv
<1>4. WorkInv'
  BY <1>1 DEF ScanInv, WorkInv, PCs, AfterStrips
<1>5. EndInv'
  BY <1>1 DEF ScanInv, EndInv
<1>6. StripInv'
  BY <1>1, SameStrips DEF ScanInv, StripInv, AfterStrips
<1> QED BY <1>2, <1>3, <1>4, <1>5, <1>6 DEF ScanInv

(* end_scan.                                                               *)
LEMMA EndStep ==
  ASSUME ScanInv, EndScan
  PROVE  ScanInv'
<1>1. /\ UNCHANGED <<open, done, segment, run, sc, disk, det, late, lines, st_seg, rearm>>
      /\ pc = "end" /\ pc' = "last" /\ (fatal' = fatal \/ fatal' = "IO")
  BY DEF EndScan, Goes, strips, files, detector, First
<1>2. SegInv' /\ DetInv'
  BY <1>1, SameSeg, SameDet DEF ScanInv
<1>3. WorkInv'
  BY <1>1 DEF ScanInv, WorkInv, PCs, AfterStrips
<1>4. EndInv'
  BY <1>1 DEF ScanInv, EndInv
<1>5. StripInv'
  BY <1>1, SameStrips DEF ScanInv, AfterStrips
<1> QED BY <1>2, <1>3, <1>4, <1>5 DEF ScanInv

-----------------------------------------------------------------------------

(* What the roll's last words and the recheck put into the sidecar.        *)
Words(f, c, e) == [f EXCEPT !.complete = c, !.error = e]

(* They leave the strips.                                                  *)
LEMMA WordsAre ==
  ASSUME NEW f, FileIs(f), NEW c, NEW e
  PROVE  /\ FileIs(Words(f, c, e)) /\ Words(f, c, e).complete = c
         /\ Words(f, c, e).error = e /\ Words(f, c, e).strips = f.strips
<1> DEFINE x == Words(f, c, e)
<1>1. x = [complete |-> c, error |-> e, strips |-> f.strips]
  <2>1. f = [complete |-> f.complete, error |-> f.error, strips |-> f.strips]
    BY Zenon DEF FileIs
  <2>2. PICK a, b, t : f = [complete |-> a, error |-> b, strips |-> t] /\ t = f.strips
    BY <2>1
  <2>3. x = [[f EXCEPT !.complete = c] EXCEPT !.error = e]
    BY Zenon DEF Words
  <2> HIDE DEF x
  <2>4. [f EXCEPT !.complete = c] = [complete |-> c, error |-> b, strips |-> t]
    BY <2>2
  <2>5. x = [complete |-> c, error |-> e, strips |-> t]
    BY <2>3, <2>4
  <2> QED BY <2>2, <2>5
<1> HIDE DEF x
<1>2. x.complete = c /\ x.error = e /\ x.strips = f.strips
  BY <1>1, Zenon
<1>3. x = [complete |-> x.complete, error |-> x.error, strips |-> x.strips]
  BY <1>1, <1>2, Zenon
<1>4. FileIs(x)
  BY <1>2, <1>3, FileStrips
<1> QED BY <1>2, <1>4 DEF x

(* The last words.                                                         *)
LEMMA LastStep ==
  ASSUME ScanInv, LastWords
  PROVE  ScanInv' /\ DiskKept
<1>1. PICK s : s = [sc EXCEPT !.complete = IsComplete, !.error = run]
  OBVIOUS
<1>2. /\ UNCHANGED <<open, done, segment, det, late, lines, st_seg, rearm, fatal>>
      /\ pc = "last" /\ pc' = "recheck"
      /\ \/ sc.error = "none" /\ UNCHANGED <<run, sc, disk>>
         \/ Writes(s) /\ UNCHANGED run
         \/ WriteFails(s) /\ run' = First(run, "IO")
  BY <1>1 DEF LastWords, Goes, strips, files, detector, stream
<1>3. /\ FileIs(s) /\ (s.complete <=> IsComplete) /\ s.error = run /\ s.strips = sc.strips
  <2>1. FileIs(sc)
    BY StripFacts
  <2>2. PICK c : c = IsComplete
    OBVIOUS
  <2>3. s = Words(sc, c, run)
    BY <1>1, <2>2 DEF Words
  <2>4. /\ FileIs(Words(sc, c, run)) /\ Words(sc, c, run).complete = c
        /\ Words(sc, c, run).error = run /\ Words(sc, c, run).strips = sc.strips
    BY <2>1, WordsAre
  <2>5. FileIs(s) /\ s.complete = c /\ s.error = run /\ s.strips = sc.strips
    BY <2>3, <2>4, Zenon
  <2> QED BY <2>2, <2>5
<1>4. s.complete => run = "OK"
  BY <1>3 DEF IsComplete
<1>5. run = "OK" => s.complete
  BY <1>3 DEF IsComplete
<1>6. /\ ~disk.complete
      /\ run = "OK" => done > 0 /\ ~open /\ sc.error # "none"
      /\ run' = "OK" => run = "OK" /\ Writes(s)
  BY <1>2 DEF ScanInv, EndInv, WorkInv, AfterStrips, First
<1>7. SegInv' /\ DetInv'
  BY <1>2, SameSeg, SameDet DEF ScanInv
<1>8. /\ StripInv' /\ DiskKept
      /\ disk' # disk \/ run' = "OK" => disk'.complete = s.complete /\ disk'.error = s.error
                                     /\ FinishedIn(disk') = 1..done /\ (~open => Len(disk'.strips) = done)
      /\ run' = "OK" => sc'.error = "OK"
  <2>1. CASE sc.error = "none" /\ UNCHANGED <<run, sc, disk>>
    <3>1. StripInv'
      BY <1>2, <2>1, SameStrips DEF ScanInv, AfterStrips
    <3>2. DiskKept
      BY <2>1, NotWritten
    <3> QED BY <2>1, <3>1, <3>2, <1>6
  <2>2. CASE Writes(s) \/ WriteFails(s)
    <3>1. Writes(s) \/ (WriteFails(s) /\ pc' \in {"keep"} \cup AfterStrips)
      BY <1>2, <2>2 DEF AfterStrips
    <3>2. done <= Len(s.strips) /\ \A k \in 1..done : s.strips[k] = sc.strips[k]
      BY <1>3, StripFacts
    <3>3. /\ StripInv' /\ DiskKept /\ sc'.error = s.error
          /\ Writes(s) \/ disk' # disk => disk'.complete = s.complete /\ disk'.error = s.error
                                     /\ FinishedIn(disk') = 1..done /\ (~open => Len(disk'.strips) = done)
      BY <1>2, <1>3, <3>1, <3>2, StripFacts, WriteIs DEF DiskKept
    <3> QED BY <3>3, <1>3, <1>6
  <2> QED BY <1>2, <2>1, <2>2
<1>9. WorkInv'
  BY <1>2, <1>6, <1>8 DEF ScanInv, WorkInv, PCs, AfterStrips
<1>10. EndInv'
  <2>1. ASSUME disk'.complete
        PROVE  disk'.error = "OK" /\ Len(disk'.strips) = done' /\ done' > 0 /\ \A k \in 1..done' : Finished(disk'.strips[k])
    <3>1. disk' # disk
      BY <2>1, <1>6
    <3>2. run = "OK"
      BY <2>1, <3>1, <1>4, <1>8
    <3>3. FinishedIn(disk') = 1..done /\ Len(disk'.strips) = done /\ disk'.error = "OK" /\ done > 0
      BY <3>1, <3>2, <1>3, <1>6, <1>8
    <3> QED BY <3>3, <1>2 DEF FinishedIn
  <2>2. run' = "OK" => disk'.complete
    BY <1>5, <1>6, <1>8
  <2> HIDE <2>1
  <2> QED BY <1>2, <2>1, <2>2 DEF EndInv
<1> QED BY <1>7, <1>8, <1>9, <1>10 DEF ScanInv

(* The stream's error after them.                                          *)
LEMMA RecheckStep ==
  ASSUME ScanInv, Recheck
  PROVE  ScanInv' /\ DiskKept
<1>1. PICK s : s = [sc EXCEPT !.complete = FALSE, !.error = fatal]
  OBVIOUS
<1>2. /\ UNCHANGED <<open, done, segment, det, late, lines, st_seg, rearm, fatal>>
      /\ pc = "recheck" /\ pc' = "returned"
      /\ \/ SpoilsRoll /\ run' = fatal /\ (Writes(s) \/ WriteFails(s))
         \/ ~SpoilsRoll /\ UNCHANGED <<run, sc, disk>>
  BY <1>1 DEF Recheck, Goes, strips, files, detector, stream
<1>3. FileIs(s) /\ ~s.complete /\ s.error = fatal /\ s.strips = sc.strips
  <2>1. FileIs(sc)
    BY StripFacts
  <2>2. PICK c : c = FALSE
    OBVIOUS
  <2>3. s = Words(sc, c, fatal)
    BY <1>1, <2>2 DEF Words
  <2>4. /\ FileIs(Words(sc, c, fatal)) /\ Words(sc, c, fatal).complete = c
        /\ Words(sc, c, fatal).error = fatal /\ Words(sc, c, fatal).strips = sc.strips
    BY <2>1, WordsAre
  <2>5. FileIs(s) /\ s.complete = c /\ s.error = fatal /\ s.strips = sc.strips
    BY <2>3, <2>4, Zenon
  <2> QED BY <2>2, <2>5
<1>4. SegInv' /\ DetInv'
  BY <1>2, SameSeg, SameDet DEF ScanInv
<1>5. CASE SpoilsRoll /\ run' = fatal /\ (Writes(s) \/ WriteFails(s))
  <2>1. run' # "OK" /\ fatal \in {"OK", "LOST_SYNC", "NOMEM", "IO"}
    BY <1>5 DEF SpoilsRoll, ScanInv, WorkInv
  <2>2. Writes(s) \/ (WriteFails(s) /\ pc' \in {"keep"} \cup AfterStrips)
    BY <1>2, <1>5 DEF AfterStrips
  <2>3. done <= Len(s.strips) /\ \A k \in 1..done : s.strips[k] = sc.strips[k]
    BY <1>3, StripFacts
  <2>4. StripInv' /\ DiskKept /\ (disk' # disk => ~disk'.complete)
    BY <1>2, <1>3, <2>2, <2>3, StripFacts, WriteIs DEF DiskKept
  <2>5. WorkInv'
    BY <1>2, <2>1 DEF ScanInv, WorkInv, PCs, AfterStrips
  <2>6. EndInv'
    <3>1. disk' # disk => ~disk'.complete
      BY <2>4
    <3>2. disk' = disk \/ ~disk'.complete
      BY <3>1
    <3> QED BY <1>2, <2>1, <3>2 DEF ScanInv, EndInv
  <2> QED BY <1>4, <2>4, <2>5, <2>6 DEF ScanInv
<1>6. CASE ~SpoilsRoll /\ UNCHANGED <<run, sc, disk>>
  <2>1. StripInv'
    BY <1>2, <1>6, SameStrips DEF ScanInv, AfterStrips
  <2>2. WorkInv' /\ EndInv'
    BY <1>2, <1>6 DEF ScanInv, WorkInv, EndInv, PCs, AfterStrips
  <2>3. DiskKept
    BY <1>6, NotWritten
  <2> QED BY <1>4, <2>1, <2>2, <2>3 DEF ScanInv
<1> QED BY <1>2, <1>5, <1>6

(* Nothing happens.                                                        *)
LEMMA StutterStep ==
  ASSUME ScanInv, UNCHANGED vars
  PROVE  ScanInv' /\ DiskKept
<1>1. UNCHANGED <<pc, open, done, segment, run, sc, disk, det, late, lines, st_seg, rearm, fatal>>
  BY DEF vars, strips, files, detector, stream
<1>2. SegInv' /\ DetInv'
  BY <1>1, SameSeg, SameDet DEF ScanInv
<1>3. WorkInv' /\ EndInv'
  BY <1>1 DEF ScanInv, WorkInv, EndInv
<1>4. StripInv'
  BY <1>1, SameStrips DEF ScanInv, StripInv
<1>5. DiskKept
  BY <1>1, NotWritten
<1> QED BY <1>2, <1>3, <1>4, <1>5 DEF ScanInv

(* The invariant holds at first.                                           *)
LEMMA InitOk == ScanInit => ScanInv
<1> SUFFICES ASSUME ScanInit PROVE ScanInv
  OBVIOUS
<1>1. pc = "gate" /\ det = Armed(0) /\ late = FALSE /\ open = FALSE /\ done = 0 /\ segment = 0
  BY DEF ScanInit
<1>2. run = "OK" /\ sc = NoFile /\ disk = NoFile
  BY DEF ScanInit
<1>3. fatal = "OK" /\ st_seg = 0 /\ ~rearm /\ lines = <<>>
  BY DEF ScanInit
<1>4. <<>> \in Seq([seg : Nat, level : LEVELS]) /\ Len(<<>>) = 0 /\ <<>> \in Seq(StripType)
  BY EmptySeq
<1>5. SegInv
  BY <1>1, <1>3, <1>4 DEF SegInv
<1>6. DetInv
  <2>1. 0 \in Nat
    OBVIOUS
  <2>2. DetOk(Armed(0), lines) /\ Armed(0).seg = 0
    BY <2>1, ArmedIs
  <2>3. SeenIn(lines, 0) = Armed(0)
    <3>1. \A n \in 1..Len(lines) : lines[n].seg # 0
      BY <1>3, <1>4
    <3>2. lines \in Seq([seg : Nat, level : LEVELS])
      BY <1>3, <1>4
    <3> QED BY <3>1, <3>2, SeenNone
  <2> QED BY <1>1, <2>2, <2>3 DEF DetInv, IsFlag
<1>7. NoFile.strips = <<>> /\ ~NoFile.complete /\ NoFile.error = "none" /\ FileIs(NoFile)
  <2> HIDE DEF StripType
  <2>1. NoFile = [complete |-> FALSE, error |-> "none", strips |-> <<>>]
    BY DEF NoFile
  <2>2. NoFile.strips = <<>> /\ ~NoFile.complete /\ NoFile.error = "none"
    BY <2>1
  <2>3. NoFile = [complete |-> NoFile.complete, error |-> NoFile.error, strips |-> NoFile.strips]
    BY <2>1
  <2> QED BY <1>4, <2>2, <2>3, FileStrips
<1>8. FinishedIn(NoFile) = {} /\ 1..done = {}
  BY <1>1, <1>4, <1>7 DEF FinishedIn
<1>9. StripInv
  BY <1>1, <1>2, <1>4, <1>7, <1>8 DEF StripInv
<1>10. WorkInv
  BY <1>1, <1>2, <1>3 DEF WorkInv, PCs, AfterStrips
<1>11. EndInv
  BY <1>1, <1>2, <1>7 DEF EndInv
<1> QED BY <1>5, <1>6, <1>9, <1>10, <1>11 DEF ScanInv

(* Every step keeps it, and the finished strips on disk.                   *)
LEMMA NextOk == ASSUME ScanInv, [Worker \/ Others]_vars PROVE ScanInv' /\ DiskKept
<1>1. CASE LineArrives \/ RearmTaken \/ ReaderFails \/ RawFails \/ DeadlinePasses \/ Cancels \/ Dies
  <2>1. ScanInv'
    BY <1>1, LineStep, RearmTakenStep, OtherStep, DiesStep
  <2>2. UNCHANGED disk
    BY <1>1 DEF LineArrives, RearmTaken, ReaderFails, RawFails, DeadlinePasses, Cancels, Dies, ByReader, files
  <2> QED BY <2>1, <2>2, NotWritten
<1>2. CASE Gate \/ LoopPasses
  <2>1. ScanInv'
    BY <1>2, PlainStep
  <2>2. UNCHANGED disk
    BY <1>2 DEF Gate, LoopPasses, Steps, files
  <2> QED BY <2>1, <2>2, NotWritten
<1>3. CASE GateRefuses \/ PrepareFails \/ LoopEnds \/ DrainFails \/ ArmFails
  <2>1. ScanInv'
    BY <1>3, FailActions
  <2>2. UNCHANGED disk
    BY <1>3 DEF GateRefuses, PrepareFails, LoopEnds, DrainFails, ArmFails, Fails, files
  <2> QED BY <2>1, <2>2, NotWritten
<1>4. CASE Prepare \/ Look \/ LedFails \/ FinishStrip \/ ArmDetector \/ Rearm \/ EndScan
  <2>1. ScanInv'
    BY <1>4, PrepareStep, LookStep, LedStep, FinishStep, ArmStep, RearmStep, EndStep
  <2>2. UNCHANGED disk
    BY <1>4 DEF Prepare, Look, LedFails, FinishStrip, ArmDetector, Rearm, EndScan, files
  <2> QED BY <2>1, <2>2, NotWritten
<1>5. CASE OpensSidecar \/ OpenFails \/ TimedFlush \/ KeepStrip \/ LastWords \/ Recheck
  BY <1>5, OpenStep, FlushStep, LastStep, RecheckStep
<1>6. CASE UNCHANGED vars
  BY <1>6, StutterStep
<1> QED BY <1>1, <1>2, <1>3, <1>4, <1>5, <1>6 DEF Worker, Others

(* The inductive invariant holds in every state of a scan, whatever the    *)
(* number and the length of the strips, the lines and their levels.        *)
THEOREM ScanInvariance == ScanSpec => []ScanInv
<1>1. ScanInit => ScanInv
  BY InitOk
<1>2. ScanInv /\ [Worker \/ Others]_vars => ScanInv'
  BY NextOk
<1> QED BY <1>1, <1>2, PTL DEF ScanSpec

(* It implies what the run checks.                                         *)
LEMMA InvGives == ScanInv => SidecarIsTrue
<1> SUFFICES ASSUME ScanInv PROVE SidecarIsTrue
  OBVIOUS
<1>1. det.no_film \/ det = SeenIn(lines, det.seg)
  BY DEF ScanInv, DetInv
<1>2. ASSUME NEW k \in 1..Len(sc.strips), Finished(sc.strips[k])
      PROVE  StripOk(sc.strips[k], k, lines)
  BY <1>2 DEF ScanInv, StripInv
<1>3. StripsOfTheirSegments
  BY <1>1, <1>2, Zenon DEF StripsOfTheirSegments, StripOk
<1>4. CompleteIsAll
  BY DEF ScanInv, EndInv, CompleteIsAll
<1> QED BY <1>3, <1>4 DEF SidecarIsTrue

(* SidecarIsTrue: the recorded strips lie in their segments as the lines   *)
(* say, and the .json says complete of whole rolls only, also after a crash*)
(* (session/scan.c, run_scan and pks_scan_sequence).                       *)
THEOREM SidecarStaysTrue == ScanSpec => []SidecarIsTrue
<1> QED BY ScanInvariance, InvGives, PTL

(* FinishedIsKept: a finished strip is on disk before the next one is      *)
(* looked for, and no later flush, whole or failed, takes it away or       *)
(* changes it (session/scan.c, strip_finish and sidecar_flush).            *)
THEOREM FinishedStripsStay == ScanSpec => FinishedIsKept
<1>1. ScanInv /\ [Worker \/ Others]_vars =>
        [/\ \A k \in FinishedIn(disk) : k \in FinishedIn(disk') /\ disk'.strips[k] = disk.strips[k]
         /\ pc' \in {"loop", "look", "flush", "finish", "arm", "rearm"} => FinishedIn(disk') = 1..done']_vars
  <2> SUFFICES ASSUME ScanInv, [Worker \/ Others]_vars
               PROVE  /\ \A k \in FinishedIn(disk) : k \in FinishedIn(disk') /\ disk'.strips[k] = disk.strips[k]
                      /\ pc' \in {"loop", "look", "flush", "finish", "arm", "rearm"} => FinishedIn(disk') = 1..done'
    OBVIOUS
  <2>1. ScanInv' /\ DiskKept
    BY NextOk
  <2>2. pc' \notin {"keep"} \cup AfterStrips => FinishedIn(disk') = 1..done'
    BY <2>1 DEF ScanInv, StripInv
  <2> QED BY <2>1, <2>2 DEF DiskKept, AfterStrips
<1> QED BY <1>1, ScanInvariance, PTL DEF ScanSpec, FinishedIsKept

-----------------------------------------------------------------------------
(* The configuration (Config)                                              *)

(* The configurations that can be asked for.                               *)
Configs ==
  [base : Bases, strips : Nat, mm : Nat, control : SUBSET {"splice", "scratch", "prescan", "unknown"}, ir : BOOLEAN,
   feed_mode : Nat, advance : Nat, factor : Nat]

(* What has been accepted, recorded and read back is what was asked for.   *)
ConfigInv ==
  /\ cfg \in Configs
  /\ verdict # "none" => verdict = Verdict(cfg)
  /\ sidecar # "none" => verdict = "ok"
  /\ back # NoConfig => sidecar # "none" /\ (back = FromJson(ToJson(cfg)) \/ back = FromJson(Older(ToJson(cfg))))

(* The crosstalk factor comes out within its range.                        *)
LEMMA ClampIs == \A v \in Nat : Clamp(v) \in 1..20
BY DEF Clamp

(* So a configuration's factor is one again after clamping.                *)
LEMMA FactorClamped == \A d \in Configs : Clamp(d.factor) \in 1..20 /\ Clamp(d.factor) \in Nat
<1> SUFFICES ASSUME NEW d \in Configs PROVE Clamp(d.factor) \in 1..20
  OBVIOUS
<1>1. d.factor \in Nat
  BY DEF Configs
<1> QED BY <1>1, ClampIs

(* Two configurations that differ in the feed and the factor at most.      *)
Like(d, e) ==
  d.base = e.base /\ d.strips = e.strips /\ d.mm = e.mm /\ d.control = e.control /\ d.ir = e.ir

(* Writing another factor changes nothing else.                            *)
LEMMA FactorIs ==
  ASSUME NEW d \in Configs, NEW v \in Nat
  PROVE  LET e == [d EXCEPT !.factor = v] IN
         e \in Configs /\ Like(e, d) /\ e.feed_mode = d.feed_mode /\ e.advance = d.advance /\ e.factor = v
BY DEF Configs, Like

(* The defaults are numbers.                                               *)
LEMMA Defaults ==
  /\ DEFAULT_MM \in Nat /\ DEFAULT_ADVANCE \in Nat /\ DEFAULT_FACTOR \in Nat /\ MIN_MM \in Nat
  /\ 0 \in Nat /\ {0, 3, 4, 5, 6} \subseteq Nat
BY SMT DEF DEFAULT_MM, DEFAULT_ADVANCE, DEFAULT_FACTOR, MIN_MM

(* An older file has no feed mode.                                         *)
LEMMA OlderIs ==
  ASSUME NEW d \in Configs
  PROVE  Older(d) \in Configs /\ Like(Older(d), d) /\ Older(d).feed_mode = 0
BY Defaults, ZenonT(30) DEF Configs, Like, Older

(* Both ways through the file clamp the factor and keep the rest.          *)
LEMMA ToJsonIs ==
  ASSUME NEW d \in Configs
  PROVE  /\ ToJson(d) \in Configs /\ Like(ToJson(d), d) /\ ToJson(d).feed_mode = d.feed_mode
         /\ ToJson(d).advance = d.advance
BY FactorClamped, FactorIs, Zenon DEF ToJson

(* Reading keeps the feed too, and the factor is then from 1 to 20.        *)
LEMMA FromJsonIs ==
  ASSUME NEW d \in Configs
  PROVE  /\ Like(FromJson(d), d) /\ FromJson(d).feed_mode = d.feed_mode /\ FromJson(d).advance = d.advance
         /\ FromJson(d).factor \in 1..20
BY FactorClamped, FactorIs, Zenon DEF FromJson

(* The feed fits when its two fields are the same, or there is no feed mode.*)
LEMMA FeedIs ==
  ASSUME NEW b, NEW c
  PROVE  /\ b.feed_mode = c.feed_mode /\ b.advance = c.advance /\ FeedFits(c) => FeedFits(b)
         /\ b.feed_mode = 0 => FeedFits(b)
BY SMT DEF FeedFits

(* So what is read back has what the budget depends on.                    *)
Survives(b, c) == Like(b, c) /\ b.factor \in 1..20 /\ (FeedFits(c) => FeedFits(b))
(* A file of this version or an older one keeps what is written in it.     *)
LEMMA ThroughFile ==
  ASSUME NEW c \in Configs
  PROVE  Survives(FromJson(ToJson(c)), c) /\ Survives(FromJson(Older(ToJson(c))), c)
<1>1. /\ ToJson(c) \in Configs /\ Like(ToJson(c), c) /\ ToJson(c).feed_mode = c.feed_mode
      /\ ToJson(c).advance = c.advance
  BY ToJsonIs
<1>2. PICK j \in Configs : j = ToJson(c)
  BY <1>1
<1>3. PICK o \in Configs : o = Older(j) /\ Like(o, j) /\ o.feed_mode = 0
  BY OlderIs
<1>4. Like(FromJson(j), j) /\ FromJson(j).feed_mode = j.feed_mode /\ FromJson(j).advance = j.advance /\ FromJson(j).factor \in 1..20
  BY FromJsonIs
<1>5. Like(FromJson(o), o) /\ FromJson(o).feed_mode = o.feed_mode /\ FromJson(o).factor \in 1..20
  BY FromJsonIs
<1>6. Survives(FromJson(j), c)
  BY <1>1, <1>2, <1>4, FeedIs, Zenon DEF Survives, Like
<1>7. Survives(FromJson(o), c)
  <2>1. FeedFits(FromJson(o))
    BY <1>3, <1>5, FeedIs
  <2> QED BY <1>1, <1>2, <1>3, <1>5, <2>1, Zenon DEF Survives, Like
<1> QED BY <1>2, <1>3, <1>6, <1>7, Zenon

(* A configuration with the same base, strips and length has the same      *)
(* budget.                                                                 *)
LEMMA SameBudget ==
  ASSUME NEW b, NEW c, b.base = c.base, b.strips = c.strips, b.mm = c.mm
  PROVE  Strips(b) = Strips(c) /\ LinesPerStrip(b) = LinesPerStrip(c)
BY DEF Strips, LinesPerStrip, LengthLimit

(* A share of a whole, taken as often as it was divided, is no more than it.*)
LEMMA Shares ==
  ASSUME NEW L \in Nat, NEW n \in Nat \ {0}
  PROVE  L \div n \in Nat /\ n * (L \div n) <= L /\ \A w \in Nat : n * w <= L => w <= L \div n
<1> DEFINE q == L \div n
<1>1. q \in Int /\ n * q <= L /\ L < n * (q + 1)
  <2>1. L = n * q + (L % n) /\ L % n \in 0..(n-1) /\ q \in Int
    BY Z3
  <2> QED BY <2>1
<1> HIDE DEF q
<1>2. q \in Nat
  BY <1>1
<1>3. ASSUME NEW w \in Nat, n * w <= L PROVE w <= q
  <2>1. n * w < n * (q + 1)
    BY <1>1, <1>3
  <2>2. w < q + 1
    BY <2>1, <1>2
  <2> QED BY <2>2, <1>2
<1> QED BY <1>1, <1>2, <1>3 DEF q

(* The strips' windows fit into the film's lines, for every base, strip    *)
(* mode and length.                                                        *)
LEMMA WindowsFit ==
  ASSUME NEW c \in Configs, LengthFits(c), c.strips \in {4, 5, 6}, Strips(c) # 0
  PROVE  /\ Strips(c) \in 1..MAX_STRIPS
         /\ Strips(c) * (c.strips * window_lines(c.base)) <= LengthLimit(c)
<1> DEFINE n == Strips(c)
<1>1. c.mm \in Nat /\ 24 <= c.mm /\ c.mm <= 6400 /\ c.base \in {4, 8, 16}
  BY SMT DEF Configs, LengthFits, Bases, MIN_MM
<1>2. n = Capped((c.mm * 1000) \div PerStrip(Window(c.base), c.strips))
  BY SMT DEF Strips
<1> HIDE DEF n
<1>3. ASSUME NEW P \in Nat \ {0}, PerStrip(Window(c.base), c.strips) = P
      PROVE  n \in 0..15 /\ n * P <= c.mm * 1000
  <2> DEFINE q == (c.mm * 1000) \div P
  <2>1. q \in Nat /\ P * q <= c.mm * 1000
    BY <1>1, Shares, SMTT(60)
  <2>2. n = IF q > 15 THEN 15 ELSE q
    BY <1>2, <1>3, SMT DEF Capped, MAX_STRIPS
  <2> HIDE DEF q
  <2>3. n \in 0..15 /\ n <= q
    BY <2>1, <2>2, SMT
  <2>4. n * P <= P * q
    BY <2>1, <2>3, SMT
  <2> QED BY <1>1, <2>1, <2>3, <2>4, SMT
<1>4. n * (c.strips * window_lines(c.base)) <= LengthLimit(c) /\ n \in 0..15
  <2>1. CASE c.base = 4
    <3>1. Window(c.base) = 37991
      BY <2>1, SMT DEF Window, window_lines, hires_px, LEN_PX_DIV
    <3>2. LengthLimit(c) = (c.mm * 10000) \div 237 /\ window_lines(c.base) = 1603
      BY <1>1, <2>1, SMT DEF LengthLimit, hires_px, window_lines
    <3>3. \A s \in {4, 5, 6} : PerStrip(37991, s) = s * 37991 + 9497
      BY SMT DEF PerStrip
    <3>4. CASE c.strips = 4 BY <1>1, <1>3, <3>1, <3>2, <3>3, <3>4, SMT
    <3>5. CASE c.strips = 5 BY <1>1, <1>3, <3>1, <3>2, <3>3, <3>5, SMT
    <3>6. CASE c.strips = 6 BY <1>1, <1>3, <3>1, <3>2, <3>3, <3>6, SMT
    <3> QED BY <3>4, <3>5, <3>6
  <2>2. CASE c.base = 8
    <3>1. Window(c.base) = 37999
      BY <2>2, SMT DEF Window, window_lines, hires_px, LEN_PX_DIV
    <3>2. LengthLimit(c) = (c.mm * 15000) \div 237 /\ window_lines(c.base) = 2405
      BY <1>1, <2>2, SMT DEF LengthLimit, hires_px, window_lines
    <3>3. \A s \in {4, 5, 6} : PerStrip(37999, s) = s * 37999 + 9499
      BY SMT DEF PerStrip
    <3>4. CASE c.strips = 4 BY <1>1, <1>3, <3>1, <3>2, <3>3, <3>4, SMT
    <3>5. CASE c.strips = 5 BY <1>1, <1>3, <3>1, <3>2, <3>3, <3>5, SMT
    <3>6. CASE c.strips = 6 BY <1>1, <1>3, <3>1, <3>2, <3>3, <3>6, SMT
    <3> QED BY <3>4, <3>5, <3>6
  <2>3. CASE c.base = 16
    <3>1. Window(c.base) = 37991
      BY <2>3, SMT DEF Window, window_lines, hires_px, LEN_PX_DIV
    <3>2. LengthLimit(c) = (c.mm * 20000) \div 237 /\ window_lines(c.base) = 3206
      BY <1>1, <2>3, SMT DEF LengthLimit, hires_px, window_lines
    <3>3. \A s \in {4, 5, 6} : PerStrip(37991, s) = s * 37991 + 9497
      BY SMT DEF PerStrip
    <3>4. CASE c.strips = 4 BY <1>1, <1>3, <3>1, <3>2, <3>3, <3>4, SMT
    <3>5. CASE c.strips = 5 BY <1>1, <1>3, <3>1, <3>2, <3>3, <3>5, SMT
    <3>6. CASE c.strips = 6 BY <1>1, <1>3, <3>1, <3>2, <3>3, <3>6, SMT
    <3> QED BY <3>4, <3>5, <3>6
  <2> QED BY <1>1, <2>1, <2>2, <2>3
<1> QED BY <1>4 DEF n, MAX_STRIPS

(* Every accepted configuration has a budget that holds its frames.        *)
LEMMA AcceptedFits ==
  ASSUME NEW c \in Configs, Verdict(c) = "ok"
  PROVE  /\ Strips(c) \in 1..MAX_STRIPS /\ LinesPerStrip(c) > 0
         /\ Strips(c) * LinesPerStrip(c) <= LengthLimit(c)
         /\ c.strips * window_lines(c.base) <= LinesPerStrip(c)
<1>1. LengthFits(c) /\ c.strips \in {0, 4, 5, 6} /\ Strips(c) # 0 /\ LinesPerStrip(c) # 0
  BY DEF Verdict, BudgetFits
<1>2. c.base \in {4, 8, 16} /\ c.mm \in Nat /\ MIN_MM <= c.mm /\ c.mm <= 6400
  BY <1>1 DEF Configs, Bases, LengthFits
<1>3. LengthLimit(c) \in Nat
  BY <1>2 DEF LengthLimit, hires_px
<1>4. CASE c.strips = 0
  <2>1. Strips(c) = 1 /\ LinesPerStrip(c) = LengthLimit(c)
    BY <1>4 DEF Strips, LinesPerStrip
  <2>2. window_lines(c.base) \in Nat
    BY <1>2 DEF window_lines
  <2> QED BY <1>1, <1>3, <1>4, <2>1, <2>2 DEF MAX_STRIPS
<1>5. CASE c.strips \in {4, 5, 6}
  <2> DEFINE w == c.strips * window_lines(c.base)
  <2>1. w \in Nat
    BY <1>2, <1>5 DEF window_lines
  <2>2. Strips(c) \in 1..MAX_STRIPS /\ Strips(c) * w <= LengthLimit(c)
    BY <1>1, <1>5, WindowsFit
  <2>3. LinesPerStrip(c) = LengthLimit(c) \div Strips(c) /\ Strips(c) \in Nat \ {0}
    BY <1>1, <1>5, <2>2 DEF LinesPerStrip, MAX_STRIPS
  <2> HIDE DEF w
  <2>4. /\ LinesPerStrip(c) \in Nat /\ Strips(c) * LinesPerStrip(c) <= LengthLimit(c)
        /\ w <= LinesPerStrip(c)
    BY <1>3, <2>1, <2>2, <2>3, Shares
  <2> QED BY <1>1, <2>2, <2>4 DEF w
<1> QED BY <1>1, <1>4, <1>5

(* What is asked for is a configuration.                                   *)
LEMMA AskedIs == Asked \subseteq Configs /\ NoConfig \in Configs
<1>1. /\ {{}} \subseteq SUBSET {"splice", "scratch", "prescan", "unknown"} /\ {FALSE} \subseteq BOOLEAN
      /\ CONTROLS \subseteq SUBSET {"splice", "scratch", "prescan", "unknown"}
      /\ {0, 6} \subseteq Nat /\ {MIN_MM, DEFAULT_MM} \subseteq Nat /\ {16} \subseteq Bases
      /\ {DEFAULT_ADVANCE} \subseteq Nat /\ {DEFAULT_FACTOR} \subseteq Nat /\ {0} \subseteq Nat
  BY Defaults, ConfigAssumption DEF Bases
<1>2. ASSUME NEW c \in Asked PROVE c \in Configs
  BY <1>1, Defaults, ConfigAssumption, ZenonT(30) DEF Asked, Configs
<1>3. NoConfig \in Configs
  BY <1>1, ZenonT(30) DEF NoConfig, Configs
<1> QED BY <1>2, <1>3

(* ConfigInv is inductive.                                                 *)
LEMMA ConfigInvariance == ConfigSpec => []ConfigInv
<1>1. ConfigInit => ConfigInv
  BY AskedIs DEF ConfigInit, ConfigInv
<1>2. ConfigInv /\ [ConfigNext]_configVars => ConfigInv'
  <2> SUFFICES ASSUME ConfigInv, [ConfigNext]_configVars PROVE ConfigInv'
    OBVIOUS
  <2>1. CASE Configure
    <3>1. cfg' \in Asked /\ verdict' = Verdict(cfg') /\ verdict = "none" /\ sidecar' = sidecar /\ back' = back
      BY <2>1 DEF Configure
    <3>2. cfg' \in Configs
      BY <3>1, AskedIs
    <3>3. sidecar = "none" /\ back = NoConfig
      BY <3>1 DEF ConfigInv
    <3>4. Verdict(cfg') = Verdict(cfg)'
      BY DEF Verdict
    <3> QED BY <3>1, <3>2, <3>3 DEF ConfigInv
  <2>2. CASE Record
    BY <2>2 DEF Record, ConfigInv
  <2>3. CASE ReadBack
    BY <2>3 DEF ReadBack, ConfigInv
  <2>4. CASE UNCHANGED configVars
    BY <2>4 DEF configVars, ConfigInv
  <2> QED BY <2>1, <2>2, <2>3, <2>4 DEF ConfigNext
<1> QED BY <1>1, <1>2, PTL DEF ConfigSpec

(* BudgetIsSound: for every length, a scan that is accepted has a strip at *)
(* least, 15 at most, no more lines than the film, and in each strip room  *)
(* for its frames; what is recorded of it is accepted again, with the same *)
(* budget (session/config.c, pk_scan_config_validate and _from_json).      *)
THEOREM BudgetsAreSound == ConfigSpec => []BudgetIsSound
<1>1. ConfigInv => BudgetIsSound
  <2> SUFFICES ASSUME ConfigInv PROVE BudgetIsSound
    OBVIOUS
  <2>1. StripsHoldTheirFrames
    <3> SUFFICES ASSUME verdict = "ok"
                 PROVE  /\ Strips(cfg) \in 1..MAX_STRIPS /\ LinesPerStrip(cfg) > 0
                        /\ Strips(cfg) * LinesPerStrip(cfg) <= LengthLimit(cfg)
                        /\ cfg.strips * window_lines(cfg.base) <= LinesPerStrip(cfg)
      BY DEF StripsHoldTheirFrames
    <3> QED BY AcceptedFits DEF ConfigInv
  <2>2. RecordedIsAccepted
    <3> SUFFICES ASSUME back # NoConfig
                 PROVE  /\ Verdict(back) = "ok" /\ LinesPerStrip(back) = LinesPerStrip(cfg)
                        /\ Strips(back) = Strips(cfg) /\ back.factor \in 1..20
      BY DEF RecordedIsAccepted
    <3>1. cfg \in Configs /\ Verdict(cfg) = "ok" /\ (back = FromJson(ToJson(cfg)) \/ back = FromJson(Older(ToJson(cfg))))
      BY DEF ConfigInv
    <3>2. Survives(back, cfg)
      BY <3>1, ThroughFile, Zenon
    <3>3. Strips(back) = Strips(cfg) /\ LinesPerStrip(back) = LinesPerStrip(cfg)
      BY <3>2, SameBudget DEF Survives, Like
    <3>4. Verdict(back) = "ok"
      BY <3>1, <3>2, <3>3 DEF Survives, Like, Verdict, ControlFits, LengthFits, BudgetFits
    <3> QED BY <3>2, <3>3, <3>4 DEF Survives
  <2> QED BY <2>1, <2>2 DEF BudgetIsSound
<1> QED BY <1>1, ConfigInvariance, PTL

-----------------------------------------------------------------------------
(* The sidecar's file (Sidecar)                                            *)

(* What an entry is: a container was parsed at the depth it stands at.     *)
EntryOk(x) == x \in Entry /\ (IF x.kind = "JSON" THEN MayStand(x.v, ValueBase) ELSE x.v.nest = 0)
Entries == {x \in Entry : EntryOk(x)}
StripValue == {v \in Json : IsStrip(v)}
Keyed(e) == \A i, j \in DOMAIN e : e[i].key = e[j].key => i = j

(* What a sidecar in memory is.                                            *)
SideOk(s) ==
  /\ s \in [e : Seq(Entries), events : Seq({"text"}), strips : Seq(StripValue)]
  /\ Keyed(s.e)

(* The file is a sidecar's text, of now or then, and the DOM today's.      *)
SideInv ==
  /\ SideOk(side)
  /\ dom # NoRoot => dom = Render(side)
  /\ file # NoRoot => \E s : SideOk(s) /\ file = Render(s)
  /\ shown \in {"none", "dom"} /\ ops \in 0..OPS

(* The members of the sets above.                                          *)
LEMMA EntryIs ==
  ASSUME NEW x \in Entries
  PROVE  /\ x = [key |-> x.key, kind |-> x.kind, v |-> x.v]
         /\ x.key \in KEYS /\ x.kind \in {"STR", "INT", "BOOL", "JSON"} /\ x.v \in Json
         /\ x.kind = "JSON" => MayStand(x.v, ValueBase)
         /\ Parses(x.v, 1)
BY SidecarAssumption DEF Entries, Entry, EntryOk, MayStand, Parses, ValueBase

(* A value of the file; a scalar has no depth.                             *)
LEMMA JsonIs ==
  ASSUME NEW v \in Json
  PROVE  /\ v = [type |-> v.type, nest |-> v.nest] /\ v.nest \in 0..MAX_DEPTH
         /\ v.type \in {"null", "str", "int", "num", "bool"} => v.nest = 0
BY SidecarAssumption DEF Json, Scalar, Container

(* Read back, an entry is one again.                                       *)
LEMMA KindIs ==
  ASSUME NEW x \in Entries
  PROVE  [key |-> x.key, kind |-> KindOf(x.v), v |-> x.v] \in Entries
<1>1. x.key \in KEYS /\ x.v \in Json /\ Parses(x.v, 1)
  BY EntryIs
<1>2. KindOf(x.v) \in {"STR", "INT", "BOOL", "JSON"}
      /\ (KindOf(x.v) # "JSON" => x.v.type \in {"null", "str", "int", "bool"})
  BY DEF KindOf
<1>3. KindOf(x.v) # "JSON" => x.v.nest = 0
  BY <1>1, <1>2, JsonIs
<1>4. PICK k : k = KindOf(x.v)
  OBVIOUS
<1> QED BY <1>1, <1>2, <1>3, <1>4 DEF Entries, EntryOk, Entry, MayStand, ValueBase

(* A non-empty set of natural numbers has a least one.                     *)
LEMMA LeastIn ==
  ASSUME NEW S \in SUBSET Nat, S # {}
  PROVE  Min(S) \in S
<1>1. PICK x \in S : \A y \in S : ~ (<<y, x>> \in OpToRel(<, Nat))
  BY NatLessThanWellFounded, WFMin
<1>2. \A y \in S : ~ (y < x)
  BY <1>1 DEF OpToRel
<1>3. \A y \in S : x <= y
  BY <1>2
<1> QED BY <1>3 DEF Min

(* find gives the entry of a key, or nothing when there is none.           *)
LEMMA FindIs ==
  ASSUME NEW s, SideOk(s), NEW k
  PROVE  \/ find(s, k) = 0 /\ \A i \in DOMAIN s.e : s.e[i].key # k
         \/ find(s, k) \in DOMAIN s.e /\ s.e[find(s, k)].key = k
<1> DEFINE I == {i \in 1..Len(s.e) : s.e[i].key = k}
<1>1. s.e \in Seq(Entries) /\ DOMAIN s.e = 1..Len(s.e) /\ Len(s.e) \in Nat
  BY DEF SideOk
<1>2. find(s, k) = IF I # {} THEN Min(I) ELSE 0
  BY DEF find, SelectInSeq
<1>3. I # {} => Min(I) \in I
  <2>1. I \in SUBSET Nat
    BY <1>1
  <2> QED BY <2>1, LeastIn
<1> QED BY <1>1, <1>2, <1>3

(* Setting an entry leaves a sidecar.                                      *)
LEMMA PutIs ==
  ASSUME NEW s, SideOk(s), NEW x \in Entries
  PROVE  SideOk(put_entry(s, x))
<1> DEFINE f == find(s, x.key)
<1>1. /\ s = [e |-> s.e, events |-> s.events, strips |-> s.strips]
      /\ s.e \in Seq(Entries) /\ s.events \in Seq({"text"}) /\ s.strips \in Seq(StripValue)
  BY DEF SideOk
<1>2. DOMAIN s.e = 1..Len(s.e) /\ Len(s.e) \in Nat
  BY <1>1
<1>3. CASE f = 0
  <2>1. put_entry(s, x) = [e |-> Append(s.e, x), events |-> s.events, strips |-> s.strips]
    BY <1>1, <1>3 DEF put_entry
  <2>2. Append(s.e, x) \in Seq(Entries) /\ Len(Append(s.e, x)) = Len(s.e) + 1
        /\ \A i \in 1..Len(s.e) + 1 : Append(s.e, x)[i] = IF i = Len(s.e) + 1 THEN x ELSE s.e[i]
    BY <1>1, <1>2, AppendProperties
  <2>3. \A i \in DOMAIN s.e : s.e[i].key # x.key
    BY <1>2, <1>3, FindIs
  <2>4. Keyed(Append(s.e, x))
    BY <1>2, <2>2, <2>3 DEF SideOk, Keyed
  <2> QED BY <1>1, <2>1, <2>2, <2>4 DEF SideOk
<1>4. CASE f # 0
  <2>1. f \in 1..Len(s.e) /\ s.e[f].key = x.key
    BY <1>2, <1>4, FindIs
  <2>2. put_entry(s, x) = [e |-> [s.e EXCEPT ![f] = x], events |-> s.events, strips |-> s.strips]
    BY <1>1, <1>4 DEF put_entry
  <2> DEFINE g == [s.e EXCEPT ![f] = x]
  <2>3. /\ g \in Seq(Entries) /\ DOMAIN g = DOMAIN s.e
        /\ \A i \in DOMAIN g : g[i] = IF i = f THEN x ELSE s.e[i]
    BY <1>1, <1>2, <2>1, ExceptSeq
  <2>4. Keyed(g)
    BY <1>2, <2>1, <2>3 DEF SideOk, Keyed
  <2> QED BY <1>1, <2>2, <2>3, <2>4 DEF SideOk
<1> QED BY <1>3, <1>4

(* A sidecar's text is read back, to a sidecar with the same text.         *)
LEMMA TextIsRead ==
  ASSUME NEW s, SideOk(s)
  PROVE  /\ Render(s) # NoRoot /\ ~Deep(Render(s)) /\ Loads(Render(s))
         /\ SideOk(Loaded(Render(s))) /\ Render(Loaded(Render(s))) = Render(s)
<1> DEFINE r == Render(s)
           l == Loaded(r)
<1>1. /\ s.e \in Seq(Entries) /\ s.events \in Seq({"text"}) /\ s.strips \in Seq(StripValue)
      /\ DOMAIN s.e = 1..Len(s.e) /\ Len(s.e) \in Nat /\ DOMAIN s.strips = 1..Len(s.strips)
  BY DEF SideOk
<1>2. /\ r.version = 1 /\ r.events = s.events /\ r.strips = s.strips
      /\ r.e = [i \in DOMAIN s.e |-> [key |-> s.e[i].key, v |-> s.e[i].v]]
  BY DEF Render
<1>3. NoRoot.version = 0
  BY DEF NoRoot
<1>4. \A i \in DOMAIN s.e : s.e[i] \in Entries
  BY <1>1
<1>5. DOMAIN r.e = DOMAIN s.e /\ \A i \in DOMAIN s.e : r.e[i].key = s.e[i].key /\ r.e[i].v = s.e[i].v
  BY <1>2
<1>6. \A i \in DOMAIN s.strips : IsStrip(r.strips[i])
  BY <1>1, <1>2 DEF StripValue
<1>7. ~Deep(r)
  <2>1. \A i \in DOMAIN r.e : Parses(r.e[i].v, 1)
    BY <1>4, <1>5, EntryIs
  <2>2. \A i \in DOMAIN r.strips : Parses(r.strips[i], 2)
    BY <1>2, <1>6 DEF IsStrip, MayStand, StripBase
  <2> QED BY <2>1, <2>2 DEF Deep
<1>8. Loads(r)
  <2>1. \A i \in DOMAIN r.e : MayStand(r.e[i].v, ValueBase)
    BY <1>4, <1>5, EntryIs DEF MayStand, ValueBase
  <2> QED BY <1>2, <1>6, <1>7, <2>1 DEF Loads
<1>9. /\ l.events = s.events /\ l.strips = s.strips
      /\ l = [e |-> l.e, events |-> l.events, strips |-> l.strips]
      /\ l.e = [i \in DOMAIN r.e |-> [key |-> r.e[i].key, kind |-> KindOf(r.e[i].v), v |-> r.e[i].v]]
  BY <1>2 DEF Loaded
<1>10. /\ DOMAIN l.e = 1..Len(s.e)
       /\ \A i \in 1..Len(s.e) : l.e[i] = [key |-> s.e[i].key, kind |-> KindOf(s.e[i].v), v |-> s.e[i].v]
  BY <1>1, <1>5, <1>9
<1> HIDE DEF r, l
<1>16. ASSUME NEW i \in 1..Len(s.e)
       PROVE  l.e[i].key = s.e[i].key /\ l.e[i].v = s.e[i].v /\ r.e[i] = [key |-> s.e[i].key, v |-> s.e[i].v]
  <2>1. PICK x : x = s.e[i]
    OBVIOUS
  <2>2. PICK k : k = KindOf(x.v)
    OBVIOUS
  <2>3. l.e[i] = [key |-> x.key, kind |-> k, v |-> x.v]
    BY <1>10, <2>1, <2>2, Zenon
  <2>4. r.e[i] = [key |-> s.e[i].key, v |-> s.e[i].v]
    BY <1>1, <1>2
  <2> QED BY <2>1, <2>3, <2>4
<1>11. ASSUME NEW i \in 1..Len(s.e)
       PROVE  l.e[i] \in Entries
  BY <1>1, <1>4, <1>10, KindIs
<1>12. l.e \in Seq(Entries) /\ Len(l.e) = Len(s.e)
  <2>1. l.e = [i \in 1..Len(s.e) |-> l.e[i]]
    BY <1>9, <1>5, <1>1
  <2> QED BY <1>1, <1>11, <2>1, IsASeq, LenProperties
<1>13. Keyed(l.e)
  <2>1. Keyed(s.e) /\ DOMAIN s.e = DOMAIN l.e /\ \A i \in DOMAIN s.e : l.e[i].key = s.e[i].key
    BY <1>1, <1>10, <1>16 DEF SideOk
  <2> QED BY <2>1 DEF Keyed
<1>14. SideOk(l)
  BY <1>1, <1>9, <1>12, <1>13 DEF SideOk
<1>15. Render(l) = r
  <2>1. \A i \in DOMAIN l.e : [key |-> l.e[i].key, v |-> l.e[i].v] = r.e[i]
    BY <1>1, <1>2, <1>10, <1>16
  <2>2. [i \in DOMAIN l.e |-> [key |-> l.e[i].key, v |-> l.e[i].v]] = r.e
    BY <1>1, <1>2, <1>10, <2>1
  <2>3. r = [version |-> 1, e |-> r.e, events |-> s.events, strips |-> s.strips]
    BY <1>2 DEF Render, r
  <2> QED BY <1>9, <2>2, <2>3 DEF Render
<1> QED BY <1>2, <1>3, <1>7, <1>8, <1>14, <1>15 DEF r, l

(* A change of the sidecar in memory drops the DOM and keeps the file.     *)
LEMMA ChangeKeeps ==
  ASSUME SideInv, NEW s, SideOk(s), Changes(s), Dropped
  PROVE  SideInv'
<1>1. side' = s /\ file' = file /\ dom' = NoRoot /\ shown' = "none" /\ ops' \in 0..OPS
  BY SidecarAssumption DEF Changes, Dropped, SideInv
<1>2. SideOk(side)'
  BY <1>1 DEF SideOk
<1> QED BY <1>1, <1>2 DEF SideInv

(* The setters of entries.                                                 *)
LEMMA SetKeeps ==
  ASSUME SideInv, NEW k \in KEYS, SetScalar(k) \/ SetJson(k)
  PROVE  SideInv'
<1>1. SideOk(side) /\ Dropped
  BY DEF SideInv, SetScalar, SetJson
<1>2. CASE SetScalar(k)
  <2>1. PICK kind \in {"STR", "INT", "BOOL"}, t \in {"null", "str", "int", "bool"} :
          Changes(put_entry(side, [key |-> k, kind |-> kind, v |-> [type |-> t, nest |-> 0]]))
    BY <1>2 DEF SetScalar
  <2>2. [key |-> k, kind |-> kind, v |-> [type |-> t, nest |-> 0]] \in Entries
    BY DEF Entries, EntryOk, Entry, Json, Scalar
  <2> QED BY <1>1, <2>1, <2>2, PutIs, ChangeKeeps
<1>3. CASE SetJson(k)
  <2>1. PICK v \in Json : MayStand(v, ValueBase) /\ Changes(put_entry(side, [key |-> k, kind |-> "JSON", v |-> v]))
    BY <1>3 DEF SetJson
  <2>2. [key |-> k, kind |-> "JSON", v |-> v] \in Entries
    BY <2>1 DEF Entries, EntryOk, Entry
  <2> QED BY <1>1, <2>1, <2>2, PutIs, ChangeKeeps
<1> QED BY <1>2, <1>3

(* The events and the strips.                                              *)
LEMMA ListsKeep ==
  ASSUME SideInv, AddEvent \/ (\E i \in 1..STRIPS : SetStrip(i)) \/ (\E n \in 0..STRIPS : TruncateStrips(n))
  PROVE  SideInv'
<1>1. /\ side = [e |-> side.e, events |-> side.events, strips |-> side.strips]
      /\ side.e \in Seq(Entries) /\ side.events \in Seq({"text"}) /\ side.strips \in Seq(StripValue) /\ Keyed(side.e)
      /\ STRIPS \in Nat
  BY SidecarAssumption DEF SideInv, SideOk
<1>2. CASE AddEvent
  <2> DEFINE s == [side EXCEPT !.events = Append(@, "text")]
  <2>1. Changes(s) /\ Dropped
    BY <1>2 DEF AddEvent
  <2>2. Append(side.events, "text") \in Seq({"text"})
    BY <1>1, AppendProperties
  <2>3. SideOk(s)
    BY <1>1, <2>2 DEF SideOk
  <2> QED BY <2>1, <2>3, ChangeKeeps
<1>3. CASE \E i \in 1..STRIPS : SetStrip(i)
  <2>1. PICK i \in 1..STRIPS, v \in StripValue :
          /\ Changes([side EXCEPT !.strips = IF i > Len(@) THEN Append(@, v) ELSE [@ EXCEPT ![i] = v]])
          /\ Dropped
    BY <1>3 DEF SetStrip, StripValue
  <2> DEFINE t == IF i > Len(side.strips) THEN Append(side.strips, v) ELSE [side.strips EXCEPT ![i] = v]
             s == [side EXCEPT !.strips = t]
  <2>2. t \in Seq(StripValue)
    <3>1. Len(side.strips) \in Nat /\ i \in Nat
      BY <1>1
    <3>2. CASE i > Len(side.strips)
      BY <1>1, <3>2, AppendProperties
    <3>3. CASE ~(i > Len(side.strips))
      BY <1>1, <3>1, <3>3, ExceptSeq
    <3> QED BY <3>2, <3>3
  <2>3. SideOk(s)
    <3> HIDE DEF t
    <3> QED BY <1>1, <2>2 DEF SideOk
  <2> QED BY <2>1, <2>3, ChangeKeeps
<1>4. CASE \E n \in 0..STRIPS : TruncateStrips(n)
  <2>1. PICK n \in 0..STRIPS : TruncateStrips(n)
    BY <1>4
  <2> DEFINE t == SubSeq(side.strips, 1, n)
             s == [side EXCEPT !.strips = t]
  <2>2. n < Len(side.strips) /\ Changes(s) /\ Dropped
    BY <2>1 DEF TruncateStrips, Truncated
  <2>3. t \in Seq(StripValue)
    BY <1>1, <2>2, SubSeqProperties
  <2>4. SideOk(s)
    <3> HIDE DEF t
    <3> QED BY <1>1, <2>3 DEF SideOk
  <2> QED BY <2>2, <2>4, ChangeKeeps
<1> QED BY <1>2, <1>3, <1>4

(* The reader's DOM, the file, and the next process.                       *)
LEMMA ReadersKeep ==
  ASSUME SideInv, AsksJson \/ Write \/ Read
  PROVE  SideInv'
<1>1. SideOk(side) /\ Render(side) # NoRoot /\ ~Deep(Render(side))
  BY TextIsRead DEF SideInv
<1>2. CASE AsksJson
  <2>1. UNCHANGED <<side, file, ops>> /\ dom' = Render(side) /\ shown' = "dom"
    BY <1>1, <1>2 DEF AsksJson, SideInv
  <2>2. SideOk(side)' /\ Render(side)' = Render(side)
    BY <1>1, <2>1 DEF SideOk, Render
  <2> QED BY <2>1, <2>2 DEF SideInv
<1>3. CASE Write
  <2>1. UNCHANGED <<side, dom, shown, ops>> /\ file' \in {file, Render(side)}
    BY <1>3 DEF Write
  <2>2. SideOk(side)' /\ Render(side)' = Render(side)
    BY <1>1, <2>1 DEF SideOk, Render
  <2> QED BY <1>1, <2>1, <2>2 DEF SideInv
<1>4. CASE Read
  <2>1. file # NoRoot /\ side' = Loaded(file) /\ dom' = NoRoot /\ shown' = "none" /\ UNCHANGED <<file, ops>>
    BY <1>4 DEF Read, Dropped
  <2>2. PICK s : SideOk(s) /\ file = Render(s)
    BY <2>1 DEF SideInv
  <2>3. SideOk(Loaded(file))
    BY <2>2, TextIsRead
  <2>4. SideOk(side')
    BY <2>1, <2>3
  <2>5. SideOk(side)'
    BY <2>4 DEF SideOk
  <2> QED BY <2>1, <2>5 DEF SideInv
<1> QED BY <1>2, <1>3, <1>4

(* SideInv is inductive, whatever is set, removed, written and read.       *)
LEMMA SideInvariance == SidecarSpec => []SideInv
<1>1. SidecarInit => SideInv
  BY SidecarAssumption, EmptySeq DEF SidecarInit, SideInv, SideOk, New, Keyed
<1>2. SideInv /\ [SidecarNext]_sidecarVars => SideInv'
  <2> SUFFICES ASSUME SideInv, [SidecarNext]_sidecarVars PROVE SideInv'
    OBVIOUS
  <2>1. CASE \E k \in KEYS : SetScalar(k) \/ SetJson(k)
    BY <2>1, SetKeeps
  <2>2. CASE AddEvent \/ (\E i \in 1..STRIPS : SetStrip(i)) \/ (\E n \in 0..STRIPS : TruncateStrips(n))
    BY <2>2, ListsKeep
  <2>3. CASE AsksJson \/ Write \/ Read
    BY <2>3, ReadersKeep
  <2>4. CASE UNCHANGED sidecarVars
    BY <2>4 DEF sidecarVars, SideInv, SideOk, Render
  <2> QED BY <2>1, <2>2, <2>3, <2>4 DEF SidecarNext
<1> QED BY <1>1, <1>2, PTL DEF SidecarSpec

(* SidecarIsRead: a file written from any sidecar is loaded by the next    *)
(* process with the same values, however deep they nest, and the DOM that  *)
(* a caller holds is the sidecar's (stream/sidecar.c, checked_copy,        *)
(* pk_sidecar_json and pk_sidecar_read).                                   *)
THEOREM SidecarsAreRead == SidecarSpec => []SidecarIsRead
<1>1. SideInv => SidecarIsRead
  <2> SUFFICES ASSUME SideInv PROVE SidecarIsRead
    OBVIOUS
  <2>1. side.e \in Seq(Entries) /\ side.events \in Seq({"text"}) /\ side.strips \in Seq(StripValue) /\ Keyed(side.e)
    BY DEF SideInv, SideOk
  <2>2. Entries \subseteq Entry /\ StripValue \subseteq Json
    BY DEF Entries, StripValue
  <2>3. side.e \in Seq(Entry) /\ side.strips \in Seq(Json)
    BY <2>1, <2>2, SeqMonotonic
  <2>4. SidecarTypeOK
    BY <2>1, <2>3 DEF SidecarTypeOK, SideInv, Keyed
  <2>5. WrittenIsRead
    BY TextIsRead DEF SideInv, WrittenIsRead
  <2>6. DomIsCurrent
    BY DEF SideInv, DomIsCurrent
  <2> QED BY <2>4, <2>5, <2>6 DEF SidecarIsRead
<1> QED BY <1>1, SideInvariance, PTL

-----------------------------------------------------------------------------
(* The frame detector                                                      *)

(* A non-empty set of natural numbers has a least one. *)
LEMMA WFNat ==
  ASSUME NEW S \in SUBSET Nat, S # {}
  PROVE \E m \in S : \A j \in S : m <= j
<1>1. \E x \in S : \A y \in S : ~ (<<y, x>> \in OpToRel(<, Nat))
  BY NatLessThanWellFounded, WFMin
<1>2. PICK x \in S : \A y \in S : ~ (<<y, x>> \in OpToRel(<, Nat))
  BY <1>1
<1>3. \A y \in S : ~ (y < x)
  BY <1>2 DEF OpToRel
<1> QED BY <1>3

(* Min of such a set is that one. *)
LEMMA MinIs ==
  ASSUME NEW S \in SUBSET Nat, S # {}
  PROVE  Min(S) \in S /\ \A y \in S : Min(S) <= y
BY WFNat DEF Min

(* What holds of nothing, and of one more each time, holds up to n.        *)
LEMMA UpTo ==
  ASSUME NEW n \in Nat, NEW P, 0 \in P, \A i \in 1..n : i - 1 \in P => i \in P
  PROVE  \A i \in 0..n : i \in P
<1> DEFINE Not == {i \in 0..n : i \notin P}
<1>1. SUFFICES ASSUME Not # {} PROVE FALSE
  OBVIOUS
<1>2. Not \in SUBSET Nat
  OBVIOUS
<1>3. PICK m \in Not : \A j \in Not : m <= j
  BY <1>1, <1>2, WFNat
<1>4. m \in 1..n /\ m - 1 \in 0..n /\ ~(m <= m - 1)
  BY <1>3
<1>5. m - 1 \in P
  BY <1>3, <1>4
<1> QED BY <1>3, <1>4, <1>5

(* A loop's states, turn by turn.                                          *)
LoopOf(f, s, g, n) == f[0] = s /\ \A i \in 1..n : f[i] = g[i][f[i - 1]]

(* There are such states of every loop.                                    *)
LEMMA LoopIs ==
  ASSUME NEW n \in Nat, NEW S, NEW s \in S, NEW g \in [1..n -> [S -> S]]
  PROVE  \E f \in [0..n -> S] : LoopOf(f, s, g, n)
<1> DEFINE P == {m \in 0..n : \E f \in [0..m -> S] : LoopOf(f, s, g, m)}
<1>1. 0 \in P
  <2>1. PICK f \in [0..0 -> S] : f = [i \in 0..0 |-> s]
    OBVIOUS
  <2>2. LoopOf(f, s, g, 0)
    BY <2>1 DEF LoopOf
  <2> QED BY <2>2
<1>2. ASSUME NEW m \in 1..n, m - 1 \in P PROVE m \in P
  <2>1. PICK f \in [0..(m - 1) -> S] : LoopOf(f, s, g, m - 1)
    BY <1>2
  <2>2. f[m - 1] \in S
    OBVIOUS
  <2>3. g[m][f[m - 1]] \in S
    BY <2>2
  <2>4. PICK h : h = [i \in 0..m |-> IF i = m THEN g[m][f[m - 1]] ELSE f[i]]
    OBVIOUS
  <2>7. h \in [0..m -> S]
    <3>1. \A i \in 0..m : i # m => i \in 0..(m - 1)
      OBVIOUS
    <3>2. \A i \in 0..m : h[i] \in S
      BY <2>3, <2>4, <3>1
    <3> QED BY <2>4, <3>2
  <2>5. h[0] = s
    BY <2>1, <2>4 DEF LoopOf
  <2>6. ASSUME NEW i \in 1..m PROVE h[i] = g[i][h[i - 1]]
    <3>1. CASE i = m
      BY <2>4, <3>1
    <3>2. CASE i # m
      <4>1. i \in 1..(m - 1) /\ i - 1 # m /\ i - 1 \in 0..m
        BY <3>2
      <4>2. f[i] = g[i][f[i - 1]]
        BY <2>1, <4>1 DEF LoopOf
      <4> QED BY <2>4, <3>2, <4>1, <4>2
    <3> QED BY <3>1, <3>2
  <2>8. LoopOf(h, s, g, m)
    BY <2>5, <2>6 DEF LoopOf
  <2>9. m \in 0..n
    OBVIOUS
  <2> QED BY <2>7, <2>8, <2>9
<1> HIDE DEF P
<1>3. n \in P
  <2>1. n \in 0..n
    OBVIOUS
  <2>2. \A i \in 1..n : i - 1 \in P => i \in P
    BY <1>2
  <2>3. \A i \in 0..n : i \in P
    BY <1>1, <2>2, UpTo
  <2> QED BY <2>1, <2>3
<1> QED BY <1>3 DEF P

(* The geometry's numbers.                                                 *)
LEMMA Geometry ==
  /\ PITCH \in Nat /\ SIZE \in Nat /\ RATIO \in {4, 6, 8} /\ PLANES \in {3, 4} /\ D \in Nat /\ H \in Nat
  /\ PITCH >= 200 /\ 10 * SIZE >= 9 * PITCH /\ SIZE + 12 <= PITCH
  /\ D = PITCH - SIZE /\ D >= 12 /\ 2 * H <= D /\ D <= 2 * H + 1
  /\ ShortOf \in Nat /\ 100 * ShortOf <= 95 * SIZE /\ 95 * SIZE < 100 * ShortOf + 100
  /\ LongOf \in Nat /\ 100 * LongOf <= 115 * SIZE /\ 115 * SIZE < 100 * LongOf + 100
<1>1. /\ PITCH \in Nat /\ SIZE \in Nat /\ RATIO \in {4, 6, 8} /\ PLANES \in {3, 4}
      /\ PITCH >= 200 /\ 10 * SIZE >= 9 * PITCH /\ SIZE + 12 <= PITCH
  BY FrameAssumption, GeometryAssumption
<1>2. D \in Nat /\ D = PITCH - SIZE /\ D >= 12
  BY <1>1 DEF D
<1>3. H \in Nat /\ 2 * H <= D /\ D <= 2 * H + 1
  BY <1>2 DEF H
<1>4. ShortOf \in Nat /\ 100 * ShortOf <= 95 * SIZE /\ 95 * SIZE < 100 * ShortOf + 100
  BY <1>1 DEF ShortOf
<1>5. LongOf \in Nat /\ 100 * LongOf <= 115 * SIZE /\ 115 * SIZE < 100 * LongOf + 100
  BY <1>1 DEF LongOf
<1> QED BY <1>1, <1>2, <1>3, <1>4, <1>5

(* What a division by a positive number leaves.                            *)
LEMMA QuotientIs ==
  ASSUME NEW a \in Int, NEW w \in Nat \ {0}
  PROVE  a \div w \in Int /\ w * (a \div w) <= a /\ a < w * (a \div w) + w
OBVIOUS

(* A row's slot.                                                           *)
LEMMA PlaceIs ==
  ASSUME NEW p \in Nat
  PROVE  PlaceOf(p) \in Nat /\ PITCH * PlaceOf(p) <= 2 * p /\ 2 * p < PITCH * PlaceOf(p) + PITCH
<1>1. PICK w \in Nat \ {0} : w = PITCH
  BY Geometry
<1>2. PICK a \in Nat : a = p * 2
  OBVIOUS
<1>3. PICK q \in Int : q = a \div w
  BY <1>1, <1>2, QuotientIs
<1>4. w * q <= a /\ a < w * q + w
  BY <1>3, QuotientIs
<1>5. q >= 0
  <2>1. ASSUME q < 0 PROVE FALSE
    <3>1. PICK n \in Nat : q = -1 - n
      BY <2>1
    <3>2. w * q + w = -(w * n) /\ w * n \in Nat
      BY <3>1
    <3> QED BY <1>4, <3>2
  <2> QED BY <2>1
<1>6. PlaceOf(p) = q
  BY <1>1, <1>2, <1>3 DEF PlaceOf
<1> QED BY <1>1, <1>2, <1>4, <1>5, <1>6

(* Rows half a pitch apart are in different slots.                         *)
LEMMA Apart ==
  ASSUME NEW p \in Nat, NEW q \in Nat, 2 * p + PITCH <= 2 * q
  PROVE  PlaceOf(p) < PlaceOf(q)
<1>1. PICK w \in Nat \ {0} : w = PITCH
  BY Geometry
<1>2. PICK a \in Nat : a = PlaceOf(p) /\ w * a <= 2 * p
  BY <1>1, PlaceIs
<1>3. PICK b \in Nat : b = PlaceOf(q) /\ 2 * q < w * b + w
  BY <1>1, PlaceIs
<1>4. ASSUME b <= a PROVE FALSE
  <2>1. PICK d \in Nat : a = b + d
    BY <1>4
  <2>2. w * a = w * b + w * d /\ w * d \in Nat /\ w * b \in Nat
    BY <2>1
  <2> QED BY <1>1, <1>2, <1>3, <2>2
<1> QED BY <1>2, <1>3, <1>4

(* The first slot is that of the first rows.                               *)
LEMMA FirstPlace == PlaceOf(1) = 0
<1>1. PICK w \in Nat : w = PITCH /\ w >= 200
  BY Geometry
<1>2. 2 \div w = 0
  BY <1>1
<1> QED BY <1>1, <1>2 DEF PlaceOf

(* A strip as it may be.                                                   *)
WholeStrip ==
  /\ strip.lines \in Nat /\ strip.bright \in Seq([start : Nat, len : Nat \ {0}])
  /\ \A i \in 1..Len(strip.bright) : strip.bright[i].start + strip.bright[i].len <= Rows
  /\ \A i, j \in 1..Len(strip.bright) : i < j => strip.bright[i].start + strip.bright[i].len < strip.bright[j].start

(* Its sizes.                                                              *)
LEMMA SizesAre ==
  ASSUME WholeStrip
  PROVE  /\ Rows \in Int /\ LAST \in Int /\ LAST = Rows - 1 /\ Slots \in Int /\ Cap \in Nat /\ Cap >= 1 /\ Slots < Cap
         /\ Stored \in Nat /\ Stored = Rows + PLANES - 1 /\ Readable \in Int
         /\ Readable >= RATIO * (Rows - 1) /\ Readable < RATIO * Rows /\ strip.lines = Readable + (PLANES - 1) * RATIO
         /\ Rows \in Nat => Slots \in Nat /\ Slots = PlaceOf(Rows)
<1>1. PICK l \in Nat : l = strip.lines
  BY DEF WholeStrip
<1>2. PICK r \in {4, 6, 8} : r = RATIO
  BY Geometry
<1>3. PICK q \in Nat : q = l \div r /\ r * q <= l /\ l < r * q + r
  BY <1>2
<1>4. PICK n \in {3, 4} : n = PLANES
  BY Geometry
<1>5. Stored = q + 1 /\ Rows = q + 2 - n /\ LAST = q + 1 - n /\ Readable = l - (n - 1) * r
  BY <1>1, <1>2, <1>3, <1>4 DEF Stored, Rows, LAST, Readable
<1>6. PICK w \in Nat \ {0} : w = PITCH /\ w >= 200
  BY Geometry
<1>7. PICK a \in Int : a = Rows * 2 /\ a >= -4
  BY <1>4, <1>5
<1>8. PICK s \in Int : s = a \div w /\ w * s <= a /\ a < w * s + w
  BY <1>6, QuotientIs
<1>9. Slots = s /\ Cap = s + 64
  BY <1>6, <1>7, <1>8 DEF Slots, Cap
<1>10. s >= -1
  <2>1. ASSUME s < -1 PROVE FALSE
    <3>1. PICK m \in Nat : s = -2 - m
      BY <2>1
    <3>2. w * s + w = -w - w * m /\ w * m \in Nat
      BY <3>1
    <3> QED BY <1>6, <1>7, <1>8, <3>2
  <2> QED BY <2>1
<1>11. ASSUME Rows \in Nat PROVE Slots \in Nat /\ Slots = PlaceOf(Rows)
  <2>1. Slots = PlaceOf(Rows)
    BY DEF Slots, PlaceOf
  <2> QED BY <1>11, <2>1, PlaceIs
<1>12. r * (q + 1 - n) <= l - (n - 1) * r /\ l - (n - 1) * r < r * (q + 2 - n) /\ l = l - (n - 1) * r + (n - 1) * r
  <2>1. CASE r = 4
    BY <1>3, <1>4, <2>1
  <2>2. CASE r = 6
    BY <1>3, <1>4, <2>2
  <2>3. CASE r = 8
    BY <1>3, <1>4, <2>3
  <2> QED BY <2>1, <2>2, <2>3
<1> QED BY <1>1, <1>2, <1>3, <1>4, <1>5, <1>9, <1>10, <1>11, <1>12

-----------------------------------------------------------------------------
(* What the frames so far are                                              *)
Slotted == [start : Nat, width : Int, src : Nat]
Frames  == [at : [0..(Cap - 1) -> Slotted], count : Nat]

(* A slot's frame, but for where it came from.                             *)
Same(f, g, k) == f.at[k].start = g.at[k].start /\ f.at[k].width = g.at[k].width

(* A slot.                                                                 *)
LEMMA SlottedIs ==
  ASSUME NEW f \in Frames, NEW k \in 0..(Cap - 1)
  PROVE  f.at[k] \in Slotted /\ f.at[k].start \in Nat /\ f.at[k].width \in Int /\ f.at[k].src \in Nat /\ f.count \in Nat
BY DEF Frames, Slotted

(* A frame put into its slot.                                              *)
LEMMA PutGives ==
  ASSUME WholeStrip, NEW f \in Frames, NEW p \in Int, NEW w \in Int, NEW g, g = Put(f, p, w)
  PROVE  /\ g \in Frames /\ g.count = f.count + 1
         /\ \A k \in 0..(Cap - 1) : p < 0 \/ k # PlaceOf(p) => g.at[k] = f.at[k]
         /\ p >= 0 /\ PlaceOf(p) < Cap => g.at[PlaceOf(p)].start = p /\ g.at[PlaceOf(p)].width = w
<1>1. PICK c \in Nat : c = Cap
  BY SizesAre
<1>2. f.at \in [0..(c - 1) -> Slotted] /\ f.count \in Nat
  BY <1>1 DEF Frames
<1>3. CASE p >= 0 /\ PlaceOf(p) < Cap
  <2>1. PICK k \in 0..(c - 1) : k = PlaceOf(p)
    BY <1>1, <1>3, PlaceIs
  <2>2. PICK u : u = [f.at[k] EXCEPT !.start = p, !.width = w]
    OBVIOUS
  <2>3. u \in Slotted /\ u.start = p /\ u.width = w
    <3>1. PICK e \in Slotted : e = f.at[k]
      BY <1>2
    <3>2. PICK q \in Nat : q = p
      BY <1>3
    <3>3. u = [e EXCEPT !.start = q, !.width = w]
      BY <2>2, <3>1, <3>2
    <3>4. u \in Slotted /\ u.start = q /\ u.width = w
      BY <3>1, <3>2, <3>3 DEF Slotted
    <3> QED BY <3>2, <3>4
  <2>4. g = [at |-> [f.at EXCEPT ![k] = u], count |-> f.count + 1]
    BY <1>3, <2>1, <2>2, Zenon DEF Put
  <2>5. [f.at EXCEPT ![k] = u] \in [0..(c - 1) -> Slotted]
    BY <1>2, <2>3
  <2>6. g \in Frames /\ g.count = f.count + 1 /\ g.at = [f.at EXCEPT ![k] = u]
    BY <1>1, <1>2, <2>4, <2>5 DEF Frames
  <2>7. g.at[k] = u /\ \A j \in 0..(c - 1) : j # k => g.at[j] = f.at[j]
    BY <1>2, <2>6
  <2> QED BY <1>1, <1>3, <2>1, <2>3, <2>6, <2>7
<1>4. CASE ~(p >= 0 /\ PlaceOf(p) < Cap)
  <2>1. g = [at |-> f.at, count |-> f.count + 1]
    BY <1>4, Zenon DEF Put
  <2>2. g \in Frames /\ g.count = f.count + 1 /\ g.at = f.at
    BY <1>1, <1>2, <2>1 DEF Frames
  <2> QED BY <1>4, <2>2
<1> QED BY <1>3, <1>4

(* Marking tells where frames came from and nothing else.                  *)
LEMMA MarkedIs ==
  ASSUME NEW f \in Frames, NEW ks, NEW src \in Nat, NEW g, g = Marked(f, ks, src)
  PROVE  g \in Frames /\ g.count = f.count /\ \A k \in 0..(Cap - 1) : Same(g, f, k)
<1>1. PICK at \in [0..(Cap - 1) -> Slotted], n \in Nat : at = f.at /\ n = f.count
  BY DEF Frames
<1>2. PICK new : new = [k \in 0..(Cap - 1) |-> IF k \in ks /\ at[k].width > 0 /\ at[k].src = 0
                                          THEN [at[k] EXCEPT !.src = src] ELSE at[k]]
  OBVIOUS
<1>3. ASSUME NEW k \in 0..(Cap - 1) PROVE new[k] \in Slotted /\ new[k].start = at[k].start /\ new[k].width = at[k].width
  <2>1. PICK e \in Slotted : e = at[k]
    BY <1>1
  <2>2. new[k] = [e EXCEPT !.src = src] \/ new[k] = e
    BY <1>2, <2>1
  <2>3. PICK u : u = [e EXCEPT !.src = src]
    OBVIOUS
  <2>4. u \in Slotted /\ u.start = e.start /\ u.width = e.width
    BY <2>3 DEF Slotted
  <2> QED BY <2>1, <2>2, <2>3, <2>4
<1>4. new \in [0..(Cap - 1) -> Slotted]
  BY <1>2, <1>3
<1>5. g = [f EXCEPT !.at = new]
  BY <1>1, <1>2 DEF Marked
<1>6. g \in Frames /\ g.at = new /\ g.count = f.count
  BY <1>4, <1>5 DEF Frames
<1> QED BY <1>1, <1>3, <1>6 DEF Same

-----------------------------------------------------------------------------
(* The frames of the runs                                                  *)

(* A frame where a whole one, or most of one, is on the strip.             *)
Sits(e, k) ==
  /\ e.start >= 1 /\ k = PlaceOf(e.start) /\ e.width <= SIZE /\ 5 * e.width >= 4 * SIZE /\ e.start + e.width <= LAST
  /\ e.width < SIZE => e.start + e.width = LAST - 1

(* Frames that sit, and far enough from each other.                        *)
WellPlaced(f) ==
  /\ f \in Frames
  /\ \A k \in Framed(f) : Sits(f.at[k], k)
  /\ \A j, k \in Framed(f) : j < k => 5 * (f.at[k].start - f.at[j].start) >= 4 * SIZE

(* g has f's frames and one that starts at p.                              *)
OneMore(g, f, p) ==
  /\ \A k \in Framed(f) : k \in Framed(g) /\ g.at[k] = f.at[k]
  /\ \A k \in Framed(g) : k \in Framed(f) \/ g.at[k].start = p
  /\ \E k \in Framed(g) : g.at[k].start = p

(* A framed slot.                                                          *)
LEMMA FramedIs ==
  ASSUME WholeStrip, NEW f \in Frames, NEW k \in Framed(f)
  PROVE  /\ k \in 0..(Slots - 1) /\ k \in 0..(Cap - 1) /\ f.at[k] \in Slotted /\ f.at[k].start \in Nat /\ f.at[k].width \in Int
         /\ f.at[k].start >= 1 /\ f.at[k].width # 0
<1>1. k \in 0..(Slots - 1) /\ IsFrame(f.at[k])
  BY DEF Framed
<1>2. k \in 0..(Cap - 1)
  BY <1>1, SizesAre
<1>3. f.at[k] \in Slotted /\ f.at[k].start \in Nat /\ f.at[k].width \in Int
  BY <1>2, SlottedIs
<1> QED BY <1>1, <1>2, <1>3 DEF IsFrame

(* One more frame is put behind those there are.                           *)
LEMMA PlaceKeeps ==
  ASSUME WholeStrip, NEW f, WellPlaced(f), NEW at \in Int, NEW p \in Nat, p = Upper(1, at),
         5 * (LAST - p - 1) >= 4 * SIZE,
         \A k \in Framed(f) : 5 * (p - f.at[k].start) >= 4 * SIZE,
         NEW g, g = Place(f, at)
  PROVE  WellPlaced(g) /\ OneMore(g, f, p)
<1>1. PICK s \in Nat, l \in Int : s = SIZE /\ l = LAST
  BY Geometry, SizesAre
<1>2. p >= 1 /\ p = (IF at <= 0 THEN 1 ELSE at)
  BY DEF Upper
<1>3. PICK w \in Int : w = IF p + s < l THEN s ELSE (l - p) - 1
  BY <1>1
<1>4. g = Put(f, p, w)
  BY <1>1, <1>2, <1>3 DEF Place
<1>5. w <= s /\ 5 * w >= 4 * s /\ p + w <= l /\ (w < s => p + w = l - 1) /\ w # 0
  BY <1>1, <1>3, Geometry
<1>6. PICK c \in Nat : c = PlaceOf(p)
  BY PlaceIs
<1>7. f \in Frames
  BY DEF WellPlaced
<1>8. c < Slots /\ c \in 0..(Slots - 1) /\ c \in 0..(Cap - 1) /\ Slots < Cap
  <2>1. PICK r \in Nat : r = Rows
    BY <1>1, SizesAre, Geometry
  <2>2. 2 * p + PITCH <= 2 * r
    BY <1>1, <2>1, SizesAre, Geometry
  <2>3. c < PlaceOf(r) /\ Slots = PlaceOf(r)
    BY <1>6, <2>1, <2>2, Apart, SizesAre
  <2>4. Slots \in Int /\ Cap \in Nat /\ Slots < Cap
    BY SizesAre
  <2> QED BY <1>6, <2>3, <2>4
<1>9. /\ g \in Frames /\ g.at[c].start = p /\ g.at[c].width = w
      /\ \A k \in 0..(Cap - 1) : k # c => g.at[k] = f.at[k]
  <2>1. c < Cap
    BY <1>8, SizesAre
  <2> QED BY <1>2, <1>4, <1>6, <1>7, <2>1, PutGives
<1>10. \A k \in Framed(f) : k < c /\ k \in 0..(Slots - 1) /\ k \in 0..(Cap - 1)
  <2>1. TAKE k \in Framed(f)
  <2>2. PICK q \in Nat : q = f.at[k].start
    BY <1>7, FramedIs
  <2>3. k = PlaceOf(q)
    BY <2>2 DEF WellPlaced, Sits
  <2>4. 2 * q + PITCH <= 2 * p
    BY <1>1, <2>2, Geometry
  <2> QED BY <1>6, <1>7, <2>3, <2>4, Apart, FramedIs
<1>11. c \in Framed(g)
  BY <1>2, <1>5, <1>8, <1>9 DEF Framed, IsFrame
<1>12. \A k \in Framed(g) : k = c \/ (k \in Framed(f) /\ g.at[k] = f.at[k])
  <2>1. TAKE k \in Framed(g)
  <2>2. k \in 0..(Slots - 1) /\ k \in 0..(Cap - 1) /\ IsFrame(g.at[k])
    BY <1>9, FramedIs DEF Framed
  <2> QED BY <1>9, <2>2 DEF Framed
<1>13. \A k \in Framed(f) : k \in Framed(g) /\ g.at[k] = f.at[k]
  <2>1. TAKE k \in Framed(f)
  <2>2. k # c /\ k \in 0..(Slots - 1) /\ k \in 0..(Cap - 1)
    BY <1>6, <1>10
  <2>3. g.at[k] = f.at[k] /\ IsFrame(f.at[k])
    BY <1>9, <2>2 DEF Framed
  <2> QED BY <2>2, <2>3 DEF Framed
<1>14. OneMore(g, f, p)
  BY <1>9, <1>11, <1>12, <1>13 DEF OneMore
<1>15. \A k \in Framed(g) : Sits(g.at[k], k)
  <2>1. TAKE k \in Framed(g)
  <2>2. CASE k = c
    BY <1>1, <1>2, <1>5, <1>6, <1>9, <2>2 DEF Sits
  <2>3. CASE k # c
    BY <1>12, <2>3 DEF WellPlaced
  <2> QED BY <2>2, <2>3
<1>16. ASSUME NEW j \in Framed(g), NEW k \in Framed(g), j < k PROVE 5 * (g.at[k].start - g.at[j].start) >= 4 * SIZE
  <2>1. CASE k = c /\ j # c
    BY <1>9, <1>12, <2>1
  <2>2. CASE k # c /\ j # c
    BY <1>12, <1>16, <2>2 DEF WellPlaced
  <2>3. CASE j = c
    <3>1. k # c /\ k \in Framed(f) /\ k < c /\ k \in 0..(Slots - 1)
      BY <1>6, <1>10, <1>12, <1>16, <2>3
    <3> QED BY <1>6, <1>16, <2>3, <3>1
  <2> QED BY <2>1, <2>2, <2>3
<1> QED BY <1>9, <1>14, <1>15, <1>16 DEF WellPlaced

(* A third, rounded to zero.                                               *)
LEMMA ThirdIs ==
  ASSUME NEW n \in Int
  PROVE  /\ Third(n) \in Int
         /\ n >= 0 => Third(n) >= 0 /\ 3 * Third(n) <= n /\ n < 3 * Third(n) + 3
         /\ n <= 0 => Third(n) <= 0 /\ n <= 3 * Third(n) /\ 3 * Third(n) < n + 3
<1>1. CASE n >= 0
  BY <1>1 DEF Third
<1>2. CASE n < 0
  <2>1. PICK m \in Nat : m = -n /\ Third(n) = -(m \div 3)
    BY <1>2 DEF Third
  <2> QED BY <1>2, <2>1
<1> QED BY <1>1, <1>2

(* The bright runs that are looked at.                                     *)
LEMMA RunsAre ==
  ASSUME WholeStrip
  PROVE  /\ Len(Runs) \in Nat /\ DOMAIN Runs = 1..Len(Runs)
         /\ \A i \in 1..Len(Runs) : /\ Runs[i].start \in Nat /\ Runs[i].len \in Nat \ {0}
                                    /\ Runs[i].start + Runs[i].len <= Rows + 1
         /\ \A i, j \in 1..Len(Runs) : i < j => Runs[i].start + Runs[i].len <= Runs[j].start
<1>1. CASE ~Rising
  <2>1. Runs = <<>>
    BY <1>1 DEF Runs
  <2> QED BY <2>1
<1>2. CASE Rising
  <2>1. PICK n \in Nat : n = Len(strip.bright) /\ DOMAIN strip.bright = 1..n
    BY DEF WholeStrip
  <2>2. \A i \in 1..n : strip.bright[i] \in [start : Nat, len : Nat \ {0}]
    <3>1. PICK S : S = [start : Nat, len : Nat \ {0}]
      OBVIOUS
    <3>2. PICK b \in Seq(S) : b = strip.bright
      BY <3>1 DEF WholeStrip
    <3>3. \A i \in 1..Len(b) : b[i] \in S
      OBVIOUS
    <3> QED BY <2>1, <3>1, <3>2, <3>3
  <2>3. PICK rs : rs = [i \in 1..n |-> IF strip.bright[i].start = 0 THEN [strip.bright[i] EXCEPT !.len = @ + 1] ELSE strip.bright[i]]
    OBVIOUS
  <2>4. Runs = rs
    BY <1>2, <2>1, <2>3 DEF Runs
  <2>5. Len(rs) = n /\ DOMAIN rs = 1..n
    <3>1. rs \in Seq({rs[i] : i \in 1..n})
      BY <2>3
    <3> QED BY <2>3, <3>1
  <2>6. ASSUME NEW i \in 1..n
        PROVE  /\ rs[i].start = strip.bright[i].start /\ rs[i].start \in Nat /\ rs[i].len \in Nat \ {0}
               /\ strip.bright[i].len \in Nat \ {0}
               /\ rs[i].len = IF strip.bright[i].start = 0 THEN strip.bright[i].len + 1 ELSE strip.bright[i].len
    <3>1. PICK e \in [start : Nat, len : Nat \ {0}] : e = strip.bright[i]
      BY <2>2
    <3>2. PICK u : u = [e EXCEPT !.len = @ + 1]
      OBVIOUS
    <3>3. u.start = e.start /\ u.len = e.len + 1
      BY <3>2
    <3>4. e.start \in Nat /\ e.len \in Nat \ {0}
      OBVIOUS
    <3>5. rs[i] = IF e.start = 0 THEN u ELSE e
      BY <2>3, <3>1, <3>2
    <3> QED BY <3>1, <3>3, <3>4, <3>5
  <2>7. Rows \in Int
    BY SizesAre
  <2>8. ASSUME NEW i \in 1..n PROVE rs[i].start + rs[i].len <= Rows + 1
    <3>1. strip.bright[i].start + strip.bright[i].len <= Rows
      BY <2>1 DEF WholeStrip
    <3> QED BY <2>6, <2>7, <3>1
  <2>9. ASSUME NEW i \in 1..n, NEW j \in 1..n, i < j PROVE rs[i].start + rs[i].len <= rs[j].start
    <3>1. strip.bright[i].start + strip.bright[i].len < strip.bright[j].start
      BY <2>1, <2>9 DEF WholeStrip
    <3>2. rs[j].start = strip.bright[j].start /\ rs[j].start \in Nat
      BY <2>6
    <3> QED BY <2>6, <3>1, <3>2
  <2> QED BY <2>4, <2>5, <2>6, <2>8, <2>9
<1> QED BY <1>1, <1>2

(* The frames are before the hundredths of a row.                          *)
Before(f, x) == \A k \in Framed(f) : 100 * f.at[k].start + 88 * SIZE <= x

(* A run of a frame's length adds its frame.                               *)
LEMMA OneFrameKeeps ==
  ASSUME WholeStrip, NEW f, WellPlaced(f), NEW a \in Nat, NEW m \in Nat, ShortOf < m, m < LongOf, a + m <= Rows + 1,
         Before(f, 100 * a), NEW g, g = Place(f, Third(m - SIZE) + a)
  PROVE  /\ WellPlaced(g) /\ OneMore(g, f, Upper(1, Third(m - SIZE) + a)) /\ Before(g, 100 * a + 95 * SIZE)
<1>1. PICK s \in Nat, l \in Int : s = SIZE /\ l = LAST /\ s >= 180 /\ Rows = l + 1
  BY Geometry, SizesAre
<1>2. 100 * m > 95 * s /\ 100 * m < 115 * s
  BY <1>1, Geometry
<1>3. PICK t \in Int : t = Third(m - s)
  BY <1>1, ThirdIs
<1>4. 300 * t < 15 * s + 300 /\ 300 * t > -5 * s /\ m - t >= 0 /\ 3 * t <= m - s + 2 /\ 3 * t >= m - s - 2
  <2>1. PICK n \in Int : n = m - s
    BY <1>1
  <2>2. t = Third(n)
    BY <1>3, <2>1
  <2>3. CASE n >= 0
    <3>1. t >= 0 /\ 3 * t <= n /\ n < 3 * t + 3
      BY <2>2, <2>3, ThirdIs
    <3> QED BY <1>1, <1>2, <2>1, <3>1
  <2>4. CASE n < 0
    <3>1. t <= 0 /\ n <= 3 * t /\ 3 * t < n + 3
      BY <2>2, <2>4, ThirdIs
    <3> QED BY <1>1, <1>2, <2>1, <3>1
  <2> QED BY <2>1, <2>3, <2>4
<1>5. PICK p \in Nat : p = Upper(1, t + a) /\ p >= t + a /\ (p = 1 \/ p = t + a)
  <2>1. Upper(1, t + a) = (IF 1 < t + a THEN t + a ELSE 1)
    BY DEF Upper
  <2>2. PICK q \in Nat : q = (IF 1 < t + a THEN t + a ELSE 1)
    BY <1>3
  <2> QED BY <1>3, <2>1, <2>2
<1>6. 5 * (l - p - 1) >= 4 * s
  <2>1. a + m <= l + 2
    BY <1>1
  <2>2. CASE p = 1
    BY <1>1, <1>2, <2>1, <2>2
  <2>3. CASE p = t + a
    BY <1>1, <1>2, <1>4, <2>1, <2>3
  <2> QED BY <1>5, <2>2, <2>3
<1>7. f \in Frames
  BY DEF WellPlaced
<1>8. \A k \in Framed(f) : 5 * (p - f.at[k].start) >= 4 * s
  <2>1. TAKE k \in Framed(f)
  <2>2. PICK q \in Nat : q = f.at[k].start /\ 100 * q + 88 * s <= 100 * a
    BY <1>1, <1>7, FramedIs DEF Before
  <2>3. 5 * (p - q) >= 4 * s
    BY <1>1, <1>4, <1>5, <2>2
  <2> QED BY <2>2, <2>3
<1>9. WellPlaced(g) /\ OneMore(g, f, p)
  <2>1. PICK at \in Int : at = t + a
    BY <1>3
  <2>2. g = Place(f, at) /\ p = Upper(1, at)
    BY <1>1, <1>3, <1>5, <2>1
  <2> QED BY <1>1, <1>6, <1>8, <2>2, PlaceKeeps
<1>10. Before(g, 100 * a + 95 * s)
  <2>1. SUFFICES ASSUME NEW k \in Framed(g) PROVE 100 * g.at[k].start + 88 * s <= 100 * a + 95 * s
    BY <1>1 DEF Before
  <2>2. CASE k \in Framed(f)
    <3>1. PICK q \in Nat : q = f.at[k].start /\ 100 * q + 88 * s <= 100 * a
      BY <1>1, <1>7, <2>2, FramedIs DEF Before
    <3>2. g.at[k] = f.at[k]
      BY <1>9, <2>2 DEF OneMore
    <3> QED BY <1>1, <3>1, <3>2
  <2>3. CASE g.at[k].start = p
    <3>1. 100 * p + 88 * s <= 100 * a + 95 * s
      BY <1>1, <1>4, <1>5
    <3> QED BY <2>3, <3>1
  <2> QED BY <1>9, <2>2, <2>3 DEF OneMore
<1> QED BY <1>1, <1>3, <1>5, <1>9, <1>10

(* Where a run's frame is put.                                             *)
RunPlace(r) == Upper(1, Third(r.len - SIZE) + r.start)

(* The frames of the runs up to the i-th.                                  *)
NiceAt(f, i) ==
  /\ WellPlaced(f)
  /\ \A j \in 1..Len(Runs) : j > i => Before(f, 100 * Runs[j].start)
  /\ \A j \in 1..i : OneFrame(Runs[j]) => \E k \in Framed(f) : f.at[k].start = RunPlace(Runs[j])

(* A place puts a frame into a slot or nowhere.                            *)
LEMMA PlaceFits ==
  ASSUME WholeStrip, NEW f \in Frames, NEW at \in Int
  PROVE  Place(f, at) \in Frames
<1>1. PICK p \in Nat : p = IF at <= 0 THEN 1 ELSE at
  OBVIOUS
<1>2. PICK w \in Int : w = IF p + SIZE < LAST THEN SIZE ELSE (LAST - p) - 1
  BY SizesAre, Geometry
<1>3. Place(f, at) = Put(f, p, w)
  BY <1>1, <1>2 DEF Place
<1> QED BY <1>3, PutGives

(* A run leaves frames.                                                    *)
LEMMA NiceRunFits ==
  ASSUME WholeStrip, NEW f \in Frames, NEW i \in 1..Len(Runs)
  PROVE  NiceRun(f, Runs[i]) \in Frames
<1>1. PICK a \in Nat, m \in Nat : a = Runs[i].start /\ m = Runs[i].len
  BY RunsAre
<1>2. PICK at \in Int, a1 \in Int, a2 \in Int : at = Third(m - SIZE) + a /\ a1 = Third((m - PITCH) - SIZE) + a /\ a2 = a + PITCH
  <2>1. Third(m - SIZE) \in Int
    BY Geometry, ThirdIs
  <2>2. Third((m - PITCH) - SIZE) \in Int
    BY Geometry, ThirdIs
  <2> QED BY <2>1, <2>2, Geometry
<1>3. Place(f, at) \in Frames
  BY PlaceFits
<1>4. Place(f, a1) \in Frames
  BY PlaceFits
<1>5. Place(Place(f, a1), a2) \in Frames
  BY <1>4, PlaceFits
<1>6. NiceRun(f, Runs[i]) = Place(f, at) \/ NiceRun(f, Runs[i]) = Place(Place(f, a1), a2) \/ NiceRun(f, Runs[i]) = f
  BY <1>1, <1>2, Zenon DEF NiceRun
<1> QED BY <1>3, <1>5, <1>6

(* A run adds its frames, before the later runs, and keeps those there are. *)
LEMMA NiceRunKeeps ==
  ASSUME WholeStrip, NEW i \in 1..Len(Runs), NEW f, NiceAt(f, i - 1), NEW g, g = NiceRun(f, Runs[i])
  PROVE  NiceAt(g, i)
<1>1. PICK a \in Nat, m \in Nat : a = Runs[i].start /\ m = Runs[i].len /\ a + m <= Rows + 1
  BY RunsAre
<1>2. PICK s \in Nat, p \in Nat : s = SIZE /\ p = PITCH /\ s >= 180 /\ s <= p /\ 10 * s >= 9 * p
  BY Geometry
<1>3. Len(Runs) \in Nat /\ i \in Nat /\ i > i - 1
  BY RunsAre
<1>4. WellPlaced(f) /\ f \in Frames /\ Before(f, 100 * a)
  BY <1>1, <1>3 DEF NiceAt, WellPlaced
<1>5. \A j \in 1..Len(Runs) : j > i => Runs[j].start \in Nat /\ Runs[j].start >= a + m
  BY <1>1, RunsAre
<1>6. ShortOf \in Nat /\ LongOf \in Nat /\ 95 * s < 100 * ShortOf + 100 /\ Rows \in Int
  BY <1>2, Geometry, SizesAre
<1>11. PICK e \in Int : e = Rows /\ a + m <= e + 1
  BY <1>1, <1>6
<1>12. PICK lo \in Nat : lo = ShortOf /\ 95 * s < 100 * lo + 100
  BY <1>6
<1>7. ASSUME WellPlaced(g),
             \A k \in Framed(f) : k \in Framed(g) /\ g.at[k] = f.at[k],
             Before(g, 100 * (a + m)),
             OneFrame(Runs[i]) => \E k \in Framed(g) : g.at[k].start = RunPlace(Runs[i])
      PROVE  NiceAt(g, i)
  <2>1. ASSUME NEW j \in 1..Len(Runs), j > i PROVE Before(g, 100 * Runs[j].start)
    <3>1. SUFFICES ASSUME NEW k \in Framed(g) PROVE 100 * g.at[k].start + 88 * SIZE <= 100 * Runs[j].start
      BY DEF Before
    <3>2. PICK q \in Nat : q = g.at[k].start
      BY <1>7, FramedIs DEF WellPlaced
    <3>3. 100 * q + 88 * s <= 100 * (a + m)
      BY <1>2, <1>7, <3>2 DEF Before
    <3>4. PICK b \in Nat : b = Runs[j].start /\ b >= a + m
      BY <1>5, <2>1
    <3>5. 100 * q + 88 * s <= 100 * b
      BY <3>3, <3>4
    <3> QED BY <1>2, <3>2, <3>4, <3>5
  <2>2. ASSUME NEW j \in 1..i, OneFrame(Runs[j]) PROVE \E k \in Framed(g) : g.at[k].start = RunPlace(Runs[j])
    <3>1. CASE j = i
      BY <1>7, <2>2, <3>1
    <3>2. CASE j # i
      <4>1. j \in 1..(i - 1)
        BY <3>2
      <4>2. PICK k \in Framed(f) : f.at[k].start = RunPlace(Runs[j])
        BY <2>2, <4>1 DEF NiceAt
      <4> QED BY <1>7, <4>2
    <3> QED BY <3>1, <3>2
  <2> QED BY <1>7, <2>1, <2>2 DEF NiceAt
<1>8. CASE OneFrame(Runs[i])
  <2>1. ShortOf < m /\ m < LongOf
    BY <1>1, <1>8 DEF OneFrame
  <2>2. g = Place(f, Third(m - SIZE) + a)
    BY <1>1, <1>8, Zenon DEF NiceRun
  <2>3. WellPlaced(g) /\ OneMore(g, f, RunPlace(Runs[i])) /\ Before(g, 100 * a + 95 * SIZE)
    BY <1>1, <1>4, <2>1, <2>2, OneFrameKeeps DEF RunPlace
  <2>4. Before(g, 100 * (a + m))
    <3>1. SUFFICES ASSUME NEW k \in Framed(g) PROVE 100 * g.at[k].start + 88 * SIZE <= 100 * (a + m)
      BY DEF Before
    <3>2. PICK q \in Nat : q = g.at[k].start
      BY <2>3, FramedIs DEF WellPlaced
    <3>3. 100 * q + 88 * s <= 100 * a + 95 * s
      BY <1>2, <2>3, <3>2 DEF Before
    <3>4. 100 * q + 88 * s <= 100 * (a + m)
      BY <1>12, <2>1, <3>3
    <3> QED BY <1>2, <3>2, <3>4
  <2> QED BY <1>7, <2>3, <2>4 DEF OneMore
<1>9. CASE ~OneFrame(Runs[i]) /\ TwoFrames(Runs[i])
  <2>1. PICK n \in Nat : n = m - p /\ ShortOf < n /\ n < LongOf
    <3>1. ShortOf + p < m /\ m < LongOf + p
      BY <1>1, <1>2, <1>9 DEF TwoFrames
    <3> QED BY <1>2, <1>6, <3>1
  <2>2. PICK h : h = Place(f, Third(n - SIZE) + a)
    OBVIOUS
  <2>3. PICK at \in Nat : at = a + p
    BY <1>2
  <2>4. g = Place(h, at)
    <3>1. m - PITCH = n /\ a + PITCH = at
      BY <1>2, <2>1, <2>3
    <3>2. g = Place(Place(f, Third((m - PITCH) - SIZE) + a), a + PITCH)
      BY <1>1, <1>9, Zenon DEF NiceRun
    <3> QED BY <2>2, <3>1, <3>2
  <2>5. PICK q1 : q1 = Upper(1, Third(n - SIZE) + a)
    OBVIOUS
  <2>6. WellPlaced(h) /\ OneMore(h, f, q1) /\ Before(h, 100 * a + 95 * SIZE)
    <3>1. a + n <= Rows + 1
      <4>1. a + n <= e + 1
        BY <1>11, <2>1
      <4> QED BY <1>11, <4>1
    <3> QED BY <1>4, <2>1, <2>2, <2>5, <3>1, OneFrameKeeps
  <2>7. \A k \in Framed(h) : 5 * (at - h.at[k].start) >= 4 * SIZE
    <3>1. TAKE k \in Framed(h)
    <3>2. PICK q \in Nat : q = h.at[k].start
      BY <2>6, FramedIs DEF WellPlaced
    <3>3. 100 * q + 88 * s <= 100 * a + 95 * s
      BY <1>2, <2>6, <3>2 DEF Before
    <3>4. s <= p /\ 10 * s >= 9 * p
      BY <1>2
    <3>5. 5 * (at - q) >= 4 * s
      BY <2>3, <3>3, <3>4
    <3> QED BY <1>2, <3>2, <3>5
  <2>8. 5 * (LAST - at - 1) >= 4 * SIZE
    <3>1. LAST = e - 1
      BY <1>11, SizesAre
    <3>2. s >= 180 /\ s <= p
      BY <1>2
    <3>3. 5 * (e - 1 - at - 1) >= 4 * s
      BY <1>11, <1>12, <2>1, <2>3, <3>2
    <3> QED BY <1>2, <3>1, <3>3
  <2>9. at = Upper(1, at)
    BY <1>2, <2>3 DEF Upper
  <2>10. WellPlaced(g) /\ OneMore(g, h, at)
    BY <2>4, <2>6, <2>7, <2>8, <2>9, PlaceKeeps
  <2>11. Before(g, 100 * (a + m))
    <3>1. SUFFICES ASSUME NEW k \in Framed(g) PROVE 100 * g.at[k].start + 88 * s <= 100 * (a + m)
      BY <1>2 DEF Before
    <3>2. CASE k \in Framed(h)
      <4>1. PICK q \in Nat : q = h.at[k].start
        BY <2>6, <3>2, FramedIs DEF WellPlaced
      <4>2. 100 * q + 88 * s <= 100 * a + 95 * s
        BY <1>2, <2>6, <3>2, <4>1 DEF Before
      <4>3. g.at[k] = h.at[k]
        BY <2>10, <3>2 DEF OneMore
      <4>4. s <= p
        BY <1>2
      <4>5. 100 * q + 88 * s <= 100 * (a + m)
        BY <1>12, <2>1, <4>2, <4>4
      <4> QED BY <4>1, <4>3, <4>5
    <3>3. CASE g.at[k].start = at
      <4>1. 100 * at + 88 * s <= 100 * (a + m)
        BY <1>2, <1>6, <2>1, <2>3
      <4> QED BY <3>3, <4>1
    <3> QED BY <2>10, <3>2, <3>3 DEF OneMore
  <2>12. \A k \in Framed(f) : k \in Framed(g) /\ g.at[k] = f.at[k]
    BY <2>6, <2>10 DEF OneMore
  <2> QED BY <1>7, <1>9, <2>10, <2>11, <2>12
<1>10. CASE ~OneFrame(Runs[i]) /\ ~TwoFrames(Runs[i])
  <2>1. g = f
    BY <1>10, Zenon DEF NiceRun
  <2>2. Before(g, 100 * (a + m))
    <3>1. SUFFICES ASSUME NEW k \in Framed(g) PROVE 100 * g.at[k].start + 88 * s <= 100 * (a + m)
      BY <1>2 DEF Before
    <3>2. PICK q \in Nat : q = g.at[k].start
      BY <1>4, <2>1, FramedIs
    <3>3. 100 * q + 88 * s <= 100 * a
      BY <1>2, <1>4, <2>1, <3>2 DEF Before
    <3>4. 100 * q + 88 * s <= 100 * (a + m)
      BY <3>3
    <3> QED BY <3>2, <3>4
  <2> QED BY <1>4, <1>7, <1>10, <2>1, <2>2
<1> QED BY <1>8, <1>9, <1>10

(* No frames yet.                                                          *)
LEMMA NoFramesAre ==
  ASSUME WholeStrip
  PROVE  NoFrames \in Frames /\ Framed(NoFrames) = {} /\ WellPlaced(NoFrames)
<1>1. Cap \in Nat /\ Slots \in Int /\ Slots < Cap
  BY SizesAre
<1>2. Empty \in Slotted /\ Empty.start = 0
  BY DEF Empty, Slotted
<1>3. NoFrames.at = [k \in 0..(Cap - 1) |-> Empty] /\ NoFrames = [at |-> [k \in 0..(Cap - 1) |-> Empty], count |-> 0]
  BY DEF NoFrames
<1>4. NoFrames \in Frames
  BY <1>2, <1>3 DEF Frames
<1>5. Framed(NoFrames) = {}
  <2>1. \A k \in 0..(Slots - 1) : k \in 0..(Cap - 1)
    BY <1>1
  <2>2. \A k \in 0..(Slots - 1) : NoFrames.at[k] = Empty
    BY <1>3, <2>1
  <2> QED BY <1>2, <2>2 DEF Framed, IsFrame
<1> QED BY <1>4, <1>5 DEF WellPlaced

(* The frames that all the runs leave.                                     *)
LEMMA NiceIs ==
  ASSUME WholeStrip
  PROVE  NiceAt(Nice, Len(Runs))
<1>1. PICK n \in Nat : n = Len(Runs)
  BY RunsAre
<1> DEFINE Follows(h) == h = [i \in 0..n |-> IF i = 0 THEN NoFrames ELSE NiceRun(h[i - 1], Runs[i])]
<1>2. PICK step : step = [i \in 1..n |-> [f \in Frames |-> NiceRun(f, Runs[i])]]
  OBVIOUS
<1>3. step \in [1..n -> [Frames -> Frames]]
  BY <1>1, <1>2, NiceRunFits
<1>4. PICK f \in [0..n -> Frames] : LoopOf(f, NoFrames, step, n)
  BY <1>3, NoFramesAre, LoopIs
<1>5. Follows(f)
  <2>1. ASSUME NEW i \in 0..n PROVE f[i] = IF i = 0 THEN NoFrames ELSE NiceRun(f[i - 1], Runs[i])
    <3>1. CASE i = 0
      BY <1>4, <3>1 DEF LoopOf
    <3>2. CASE i # 0
      <4>1. i \in 1..n /\ i - 1 \in 0..n
        BY <3>2
      <4>2. f[i] = step[i][f[i - 1]] /\ f[i - 1] \in Frames
        BY <1>4, <4>1 DEF LoopOf
      <4> QED BY <1>2, <3>2, <4>1, <4>2
    <3> QED BY <3>1, <3>2
  <2> QED BY <2>1
<1>6. PICK h : h = CHOOSE q : Follows(q)
  OBVIOUS
<1>7. Follows(h)
  <2> HIDE DEF Follows
  <2> QED BY <1>5, <1>6
<1>8. Nice = h[n]
  BY <1>1, <1>6 DEF Nice
<1>9. h[0] = NoFrames /\ \A i \in 1..n : h[i] = NiceRun(h[i - 1], Runs[i])
  <2>1. \A i \in 0..n : h[i] = IF i = 0 THEN NoFrames ELSE NiceRun(h[i - 1], Runs[i])
    BY <1>7
  <2>2. 0 \in 0..n /\ \A i \in 1..n : i \in 0..n /\ i # 0
    OBVIOUS
  <2> HIDE DEF Follows
  <2> QED BY <2>1, <2>2
<1> HIDE DEF Follows
<1> DEFINE P == {i \in 0..n : NiceAt(h[i], i)}
<1>10. 0 \in P
  <2>1. NiceAt(NoFrames, 0)
    BY NoFramesAre DEF NiceAt, Before
  <2> QED BY <1>9, <2>1
<1>11. ASSUME NEW i \in 1..n, i - 1 \in P PROVE i \in P
  <2>1. NiceAt(h[i - 1], i - 1)
    BY <1>11
  <2>2. NiceAt(h[i], i)
    BY <1>1, <1>9, <2>1, NiceRunKeeps
  <2> QED BY <2>2
<1>12. \A i \in 0..n : i \in P
  <2> HIDE DEF P
  <2> QED BY <1>10, <1>11, UpTo
<1>13. NiceAt(h[n], n)
  BY <1>12
<1> QED BY <1>1, <1>8, <1>13

-----------------------------------------------------------------------------
(* The frames between the found ones                                       *)

(* The frames that are missing in a gap are put more than 0.61 of a pitch  *)
(* from one another and from its ends.                                     *)
LEMMA StepIs ==
  ASSUME NEW gap \in Int, NEW miss, miss = MissedIn(gap), miss > 0
  PROVE  /\ miss \in Nat /\ gap \div (miss + 1) \in Nat /\ 100 * (gap \div (miss + 1)) >= 61 * PITCH
         /\ (miss + 1) * (gap \div (miss + 1)) <= gap
<1>1. PICK p \in Nat \ {0} : p = PITCH /\ p >= 200
  BY Geometry
<1>2. PICK q \in Int : q = gap \div p /\ p * q <= gap /\ gap < p * q + p
  BY QuotientIs
<1>3. PICK r \in Int : r = p \div 4 /\ 4 * r <= p /\ p < 4 * r + 4
  BY QuotientIs
<1>4. miss = IF gap - q * p < r THEN q - 1 ELSE q
  BY <1>1, <1>2, <1>3 DEF MissedIn
<1>5. PICK c \in Nat \ {0} : c = miss + 1 /\ c >= 2 /\ (c = q \/ (c = q + 1 /\ gap >= q * p + r))
  BY <1>3, <1>4
<1>6. PICK t \in Int : t = gap \div c /\ c * t <= gap /\ gap < c * t + c
  BY QuotientIs
<1>7. 100 * t >= 61 * p
  <2>1. SUFFICES ASSUME 100 * t < 61 * p PROVE FALSE
    OBVIOUS
  <2>2. PICK d \in Nat : p = t + 1 + d /\ 100 * d > 39 * p - 200
    BY <1>1, <2>1
  <2>3. c * p = c * t + c + c * d
    BY <2>2
  <2>4. PICK cd \in Nat : cd = c * d /\ cd >= 2 * d
    <3>1. PICK e \in Nat : c = 2 + e
      BY <1>5
    <3>2. c * d = 2 * d + e * d /\ e * d \in Nat
      BY <3>1
    <3> QED BY <3>2
  <2>5. PICK cp \in Nat, ct \in Int : cp = c * p /\ ct = c * t /\ cp = ct + c + cd
    BY <2>3, <2>4
  <2>6. gap < cp - cd
    BY <1>6, <2>5
  <2>7. CASE c = q
    <3>1. cp <= gap
      BY <1>2, <2>5, <2>7
    <3> QED BY <2>4, <2>6, <3>1
  <2>8. CASE c = q + 1 /\ gap >= q * p + r
    <3>1. q * p = cp - p
      BY <2>5, <2>8
    <3>2. cp - p + r < cp - cd
      BY <1>3, <2>6, <2>8, <3>1
    <3>3. 2 * d < p - r
      BY <1>3, <2>4, <3>2
    <3> QED BY <1>1, <1>3, <2>2, <3>3
  <2> QED BY <1>5, <2>7, <2>8
<1>8. t \in Nat
  BY <1>1, <1>7
<1>9. miss \in Nat
  BY <1>5, <1>4
<1>10. gap \div (miss + 1) = t /\ miss + 1 = c
  BY <1>5, <1>6
<1> QED BY <1>1, <1>6, <1>7, <1>8, <1>9, <1>10

(* So they are in slots between the ends'.                                 *)
LEMMA GapFits ==
  ASSUME NEW a \in Slotted, NEW b \in Slotted, NEW j, NEW k, Sits(a, j), Sits(b, k),
         NEW miss, miss = MissedIn(Gap(a, b)), miss > 0, NEW step, step = Gap(a, b) \div (miss + 1)
  PROVE  /\ miss \in Nat /\ step \in Nat
         /\ \A m \in 1..miss : a.start + m * step \in Nat /\ j < PlaceOf(a.start + m * step) /\ PlaceOf(a.start + m * step) < k
<1>1. PICK s \in Nat, p \in Nat : s = SIZE /\ p = PITCH /\ p >= 200 /\ s <= p
  BY Geometry
<1>2. PICK x \in Nat, v \in Int : x = a.start /\ v = a.width /\ v <= s /\ 5 * v >= 4 * s /\ j = PlaceOf(x)
  BY <1>1 DEF Slotted, Sits
<1>3. PICK y \in Nat, w \in Int : y = b.start /\ w = b.width /\ w <= s /\ 5 * w >= 4 * s /\ k = PlaceOf(y)
  BY <1>1 DEF Slotted, Sits
<1>4. PICK v2 \in Int, w2 \in Int : v2 = v \div 2 /\ w2 = w \div 2 /\ 2 * v2 <= v /\ v <= 2 * v2 + 1 /\ 2 * w2 <= w /\ w <= 2 * w2 + 1
  OBVIOUS
<1>5. PICK gap \in Int : gap = (w2 - v2) - x + y
  OBVIOUS
<1>6. Gap(a, b) = gap
  BY <1>2, <1>3, <1>4, <1>5 DEF Gap
<1>7. miss \in Nat /\ step \in Nat /\ 100 * step >= 61 * p /\ (miss + 1) * step <= gap
  BY <1>1, <1>6, StepIs
<1>8. ASSUME NEW m \in 1..miss
      PROVE  x + m * step \in Nat /\ j < PlaceOf(x + m * step) /\ PlaceOf(x + m * step) < k
  <2>1. PICK t \in Nat, n \in Nat, l \in Nat : t = step /\ n = m - 1 /\ l = miss - m /\ miss + 1 = m + l + 1
    BY <1>7
  <2>2. PICK mt \in Nat, nt \in Nat, lt \in Nat : mt = m * t /\ nt = n * t /\ lt = l * t
    BY <2>1
  <2>3. mt = nt + t
    BY <2>1, <2>2
  <2>4. (m + l + 1) * t = mt + lt + t
    BY <2>2
  <2>5. mt + lt + t <= gap
    BY <1>7, <2>1, <2>4
  <2>6. 10 * (w2 - v2) <= s + 10
    BY <1>2, <1>3, <1>4
  <2>7. PICK z \in Nat : z = x + mt
    OBVIOUS
  <2>8. 2 * x + p <= 2 * z
    BY <1>1, <1>7, <2>1, <2>3, <2>7
  <2>9. 100 * t >= 61 * p
    BY <1>7, <2>1
  <2>10. z + t <= (w2 - v2) + y
    BY <1>5, <2>5, <2>7
  <2>11. 2 * z + p <= 2 * y
    BY <1>1, <2>6, <2>9, <2>10
  <2>12. PlaceOf(x) < PlaceOf(z) /\ PlaceOf(z) < PlaceOf(y)
    BY <1>1, <2>8, <2>11, Apart
  <2> QED BY <1>2, <1>3, <2>1, <2>2, <2>7, <2>12
<1> QED BY <1>2, <1>7, <1>8

(* Only slots of ks are changed.                                           *)
Within(g, f, ks) == g \in Frames /\ \A k \in 0..(Cap - 1) : k \notin ks => g.at[k] = f.at[k]

(* The missing frames are put into the slots of their places.              *)
LEMMA MissingAreWithin ==
  ASSUME WholeStrip, NEW f \in Frames, NEW from \in Nat, NEW step \in Nat, NEW miss \in Nat, NEW ks,
         \A m \in 1..miss : PlaceOf(from + m * step) \in ks
  PROVE  Within(PutMissing(f, from, step, miss), f, ks)
<1> DEFINE Follows(h) == h = [m \in 0..miss |-> IF m = 0 THEN f ELSE Put(h[m - 1], from + m * step, SIZE)]
<1>1. PICK turn : turn = [m \in 1..miss |-> [e \in Frames |-> Put(e, from + m * step, SIZE)]]
  OBVIOUS
<1>2. \A m \in 1..miss : from + m * step \in Nat
  <2>1. TAKE m \in 1..miss
  <2>2. m * step \in Nat
    OBVIOUS
  <2> QED BY <2>2
<1>3. \A m \in 1..miss, e \in Frames : Put(e, from + m * step, SIZE) \in Frames
  BY <1>2, PutGives, Geometry
<1>4. turn \in [1..miss -> [Frames -> Frames]]
  BY <1>1, <1>3
<1>5. PICK q \in [0..miss -> Frames] : LoopOf(q, f, turn, miss)
  BY <1>4, LoopIs
<1>6. Follows(q)
  <2>1. ASSUME NEW m \in 0..miss PROVE q[m] = IF m = 0 THEN f ELSE Put(q[m - 1], from + m * step, SIZE)
    <3>1. CASE m = 0
      BY <1>5, <3>1 DEF LoopOf
    <3>2. CASE m # 0
      <4>1. m \in 1..miss /\ m - 1 \in 0..miss
        BY <3>2
      <4>2. q[m] = turn[m][q[m - 1]] /\ q[m - 1] \in Frames
        BY <1>5, <4>1 DEF LoopOf
      <4> QED BY <1>1, <3>2, <4>1, <4>2
    <3> QED BY <3>1, <3>2
  <2> QED BY <2>1
<1>7. PICK h : h = CHOOSE u : Follows(u)
  OBVIOUS
<1>8. Follows(h)
  <2> HIDE DEF Follows
  <2> QED BY <1>6, <1>7
<1>9. PutMissing(f, from, step, miss) = h[miss]
  BY <1>7 DEF PutMissing
<1>10. h[0] = f /\ \A m \in 1..miss : h[m] = Put(h[m - 1], from + m * step, SIZE)
  <2>1. \A m \in 0..miss : h[m] = IF m = 0 THEN f ELSE Put(h[m - 1], from + m * step, SIZE)
    BY <1>8
  <2>2. 0 \in 0..miss /\ \A m \in 1..miss : m \in 0..miss /\ m # 0
    OBVIOUS
  <2> HIDE DEF Follows
  <2> QED BY <2>1, <2>2
<1> HIDE DEF Follows
<1> DEFINE P == {m \in 0..miss : Within(h[m], f, ks)}
<1>11. 0 \in P
  BY <1>10 DEF Within
<1>12. ASSUME NEW m \in 1..miss, m - 1 \in P PROVE m \in P
  <2>1. PICK e : e = h[m - 1] /\ e \in Frames /\ Within(e, f, ks)
    BY <1>12 DEF Within
  <2>2. PICK p \in Nat : p = from + m * step /\ PlaceOf(p) \in ks
    BY <1>2
  <2>3. PICK g : g = Put(e, p, SIZE) /\ g = h[m]
    BY <1>10, <2>1, <2>2
  <2>4. g \in Frames /\ \A k \in 0..(Cap - 1) : k # PlaceOf(p) => g.at[k] = e.at[k]
    <3>1. PICK w \in Int : w = SIZE
      BY Geometry
    <3>2. g = Put(e, p, w)
      BY <2>3, <3>1
    <3> QED BY <2>1, <3>2, PutGives
  <2>5. Within(g, f, ks)
    BY <2>1, <2>2, <2>4 DEF Within
  <2> QED BY <2>3, <2>5
<1>13. \A m \in 0..miss : m \in P
  <2> HIDE DEF P
  <2> QED BY <1>11, <1>12, UpTo
<1> QED BY <1>9, <1>13

(* What of two slots' frames says that they sit is their start and width.  *)
LEMMA SitsAlike ==
  ASSUME NEW d, NEW e, NEW k, Sits(d, k), e.start = d.start, e.width = d.width
  PROVE  Sits(e, k)
BY DEF Sits

(* A turn of the passage leaves frames.                                    *)
LEMMA BetweenAtFits ==
  ASSUME WholeStrip, NEW s \in [f : Frames, prev : 0..(Cap - 1)], NEW k \in 0..(Cap - 1)
  PROVE  BetweenAt(s, k) \in [f : Frames, prev : 0..(Cap - 1)]
<1>1. PICK f \in Frames, prev \in 0..(Cap - 1) : f = s.f /\ prev = s.prev
  OBVIOUS
<1>2. PICK a \in Slotted, b \in Slotted : a = f.at[prev] /\ b = f.at[k]
  BY SlottedIs
<1>3. PICK gap : gap = Gap(a, b)
  OBVIOUS
<1>4. gap \in Int
  <2>1. a.start \in Nat /\ b.start \in Nat /\ a.width \in Int /\ b.width \in Int
    BY DEF Slotted
  <2>2. PICK v2 \in Int, w2 \in Int : v2 = a.width \div 2 /\ w2 = b.width \div 2
    BY <2>1
  <2> QED BY <1>3, <2>1, <2>2 DEF Gap
<1>5. PICK miss : miss = MissedIn(gap)
  OBVIOUS
<1>6. PICK g : g = IF miss > 0 THEN PutMissing(f, a.start, gap \div (miss + 1), miss) ELSE f
  OBVIOUS
<1>7. g \in Frames
  <2>1. CASE miss > 0
    <3>1. miss \in Nat
      BY <1>4, <1>5, <2>1, StepIs
    <3>2. PICK step \in Nat : step = gap \div (miss + 1)
      BY <1>4, <1>5, <2>1, StepIs
    <3>3. PICK from \in Nat : from = a.start
      BY DEF Slotted
    <3>4. \A m \in 1..miss : PlaceOf(from + m * step) \in Nat
      <4>1. TAKE m \in 1..miss
      <4>2. from + m * step \in Nat
        <5>1. m * step \in Nat
          BY <3>1
        <5> QED BY <5>1
      <4> QED BY <4>2, PlaceIs
    <3>5. Within(PutMissing(f, from, step, miss), f, Nat)
      BY <3>1, <3>4, MissingAreWithin
    <3> QED BY <1>6, <2>1, <3>2, <3>3, <3>5 DEF Within
  <2>2. CASE ~(miss > 0)
    BY <1>6, <2>2
  <2> QED BY <2>1, <2>2
<1>8. BetweenAt(s, k) = s \/ BetweenAt(s, k) = [f |-> g, prev |-> k]
  BY <1>1, <1>2, <1>3, <1>5, <1>6, Zenon DEF BetweenAt
<1> QED BY <1>7, <1>8

(* The runs' frames are still there.                                       *)
Keeps(f) == f \in Frames /\ \A k \in Framed(Nice) : Same(f, Nice, k)

(* A change in other slots keeps them.                                     *)
LEMMA WithinKeeps ==
  ASSUME WholeStrip, NEW f, Keeps(f), NEW g, NEW ks, Within(g, f, ks), \A k \in Framed(Nice) : k \notin ks
  PROVE  Keeps(g)
<1>1. \A k \in Framed(Nice) : k \in 0..(Cap - 1)
  <2>1. Slots \in Int /\ Cap \in Nat /\ Slots < Cap
    BY SizesAre
  <2> QED BY <2>1 DEF Framed
<1> QED BY <1>1 DEF Keeps, Within, Same

(* Up to slot k: the frames are kept, the slots behind are as they were,   *)
(* and prev is the last one with a frame.                                  *)
UpToSlot(s, k) ==
  /\ Keeps(s.f) /\ \A j \in 0..(Cap - 1) : j >= k => Same(s.f, Nice, j)
  /\ s.prev \in Framed(Nice) /\ s.prev <= k /\ \A j \in Framed(Nice) : ~(s.prev < j /\ j <= k)

(* A turn goes on to the next.                                             *)
LEMMA BetweenAtKeeps ==
  ASSUME WholeStrip, WellPlaced(Nice), NEW s, NEW k \in 1..(Slots - 1), UpToSlot(s, k - 1)
  PROVE  UpToSlot(BetweenAt(s, k), k)
<1>1. k \in 0..(Slots - 1) /\ k \in 0..(Cap - 1) /\ k \in Nat /\ Cap \in Nat
  BY SizesAre
<1>2. PICK f \in Frames : f = s.f
  BY DEF UpToSlot, Keeps
<1>3. PICK prev \in Framed(Nice) : prev = s.prev /\ prev \in 0..(Slots - 1) /\ prev \in 0..(Cap - 1)
  BY FramedIs DEF UpToSlot, WellPlaced
<1>4. prev < k /\ \A j \in Framed(Nice) : ~(prev < j /\ j < k) /\ j \in 0..(Slots - 1)
  <2>1. prev <= k - 1
    BY <1>3 DEF UpToSlot
  <2>2. ASSUME NEW j \in Framed(Nice) PROVE ~(prev < j /\ j < k) /\ j \in 0..(Slots - 1)
    <3>1. j \in 0..(Slots - 1)
      BY DEF Framed
    <3>2. ~(prev < j /\ j <= k - 1)
      BY <1>3 DEF UpToSlot
    <3> QED BY <1>1, <3>1, <3>2
  <2> QED BY <1>1, <1>3, <2>1, <2>2
<1>5. Keeps(f) /\ Same(f, Nice, k) /\ Same(f, Nice, prev) /\ \A j \in 0..(Cap - 1) : j >= k => Same(f, Nice, j)
  <2>1. \A j \in 0..(Cap - 1) : j >= k => j >= k - 1
    BY <1>1
  <2> QED BY <1>1, <1>2, <2>1 DEF UpToSlot, Keeps
<1>6. CASE ~IsFrame(s.f.at[k])
  <2>1. BetweenAt(s, k) = s
    BY <1>6, Zenon DEF BetweenAt
  <2>2. k \notin Framed(Nice)
    BY <1>2, <1>5, <1>6 DEF Framed, IsFrame, Same
  <2>3. \A j \in Framed(Nice) : ~(prev < j /\ j <= k)
    BY <1>1, <1>4, <2>2
  <2> QED BY <1>2, <1>3, <1>4, <1>5, <2>1, <2>3 DEF UpToSlot
<1>7. CASE IsFrame(s.f.at[k])
  <2>1. PICK a \in Slotted, b \in Slotted : a = f.at[prev] /\ b = f.at[k]
    BY <1>1, <1>3, SlottedIs
  <2>2. k \in Framed(Nice)
    BY <1>1, <1>2, <1>5, <1>7 DEF Framed, IsFrame, Same
  <2>3. Sits(a, prev) /\ Sits(b, k)
    <3>1. Sits(Nice.at[prev], prev) /\ Sits(Nice.at[k], k)
      BY <2>2 DEF WellPlaced
    <3>2. a.start = Nice.at[prev].start /\ a.width = Nice.at[prev].width /\ b.start = Nice.at[k].start /\ b.width = Nice.at[k].width
      BY <1>5, <2>1 DEF Same
    <3> QED BY <3>1, <3>2, SitsAlike
  <2>4. PICK miss : miss = MissedIn(Gap(a, b))
    OBVIOUS
  <2>5. PICK g : g = IF miss > 0 THEN PutMissing(f, a.start, Gap(a, b) \div (miss + 1), miss) ELSE f
    OBVIOUS
  <2>6. BetweenAt(s, k) = [f |-> g, prev |-> k]
    BY <1>2, <1>3, <1>7, <2>1, <2>4, <2>5, Zenon DEF BetweenAt
  <2> DEFINE ks == {j \in Nat : prev < j /\ j < k}
  <2>7. Within(g, f, ks)
    <3>1. CASE miss > 0
      <4>1. PICK step \in Nat : step = Gap(a, b) \div (miss + 1)
        BY <2>3, <2>4, <3>1, GapFits
      <4>2. /\ miss \in Nat
            /\ \A m \in 1..miss : /\ a.start + m * step \in Nat /\ prev < PlaceOf(a.start + m * step)
                                 /\ PlaceOf(a.start + m * step) < k
        BY <2>3, <2>4, <3>1, <4>1, GapFits
      <4>3. PICK from \in Nat : from = a.start
        BY DEF Slotted
      <4>4. \A m \in 1..miss : PlaceOf(from + m * step) \in ks
        BY <4>2, <4>3, PlaceIs
      <4>5. Within(PutMissing(f, from, step, miss), f, ks)
        <5> HIDE DEF ks
        <5> QED BY <4>2, <4>4, MissingAreWithin
      <4>6. g = PutMissing(f, from, step, miss)
        BY <2>5, <3>1, <4>1, <4>3
      <4> QED BY <4>5, <4>6
    <3>2. CASE ~(miss > 0)
      BY <2>5, <3>2 DEF Within
    <3> QED BY <3>1, <3>2
  <2>8. Keeps(g)
    BY <1>4, <1>5, <2>7, WithinKeeps
  <2>9. \A j \in 0..(Cap - 1) : j >= k => Same(g, Nice, j)
    BY <1>1, <1>5, <2>7 DEF Within, Same
  <2>10. k <= k /\ \A j \in Framed(Nice) : ~(k < j /\ j <= k)
    BY <1>1, <1>4
  <2> QED BY <2>2, <2>6, <2>8, <2>9, <2>10 DEF UpToSlot
<1> QED BY <1>6, <1>7

(* The frames between the first and the last keep those there are.         *)
LEMMA BetweenKeeps ==
  ASSUME WholeStrip, WellPlaced(Nice), NEW f \in Frames, \A j \in 0..(Cap - 1) : Same(f, Nice, j),
         NEW first \in Framed(Nice), NEW last \in Framed(Nice), first < last
  PROVE  Keeps(Between(f, first, last))
<1>1. Slots \in Int /\ Cap \in Nat /\ Slots < Cap
  BY SizesAre
<1>2. first \in 0..(Slots - 1) /\ last \in 0..(Slots - 1) /\ \A k \in Framed(Nice) : k \in 0..(Slots - 1) /\ k \in 0..(Cap - 1)
  BY <1>1 DEF Framed
<1>3. PICK n \in Nat : n = last - first
  BY <1>2
<1>4. PICK S : S = [f : Frames, prev : 0..(Cap - 1)]
  OBVIOUS
<1>5. PICK s0 \in S : s0 = [f |-> f, prev |-> first] /\ s0.f = f /\ s0.prev = first
  <2>1. first \in 0..(Cap - 1)
    BY <1>2
  <2>2. PICK e : e = [f |-> f, prev |-> first]
    OBVIOUS
  <2>3. e \in [f : Frames, prev : 0..(Cap - 1)]
    BY <2>1, <2>2
  <2>4. e.f = f /\ e.prev = first
    BY <2>2
  <2> QED BY <1>4, <2>2, <2>3, <2>4
<1> DEFINE Follows(h) == h = [i \in 0..n |-> IF i = 0 THEN [f |-> f, prev |-> first] ELSE BetweenAt(h[i - 1], first + i)]
<1>6. PICK turn : turn = [i \in 1..n |-> [s \in S |-> BetweenAt(s, first + i)]]
  OBVIOUS
<1>7. \A i \in 1..n : first + i \in 1..(Slots - 1) /\ first + i \in 0..(Cap - 1)
  BY <1>1, <1>2, <1>3
<1>8. turn \in [1..n -> [S -> S]]
  <2>1. \A i \in 1..n, s \in S : BetweenAt(s, first + i) \in S
    BY <1>4, <1>7, BetweenAtFits
  <2> QED BY <1>6, <2>1
<1>9. PICK q \in [0..n -> S] : LoopOf(q, s0, turn, n)
  BY <1>8, LoopIs
<1>10. Follows(q)
  <2>1. ASSUME NEW i \in 0..n PROVE q[i] = IF i = 0 THEN s0 ELSE BetweenAt(q[i - 1], first + i)
    <3>1. CASE i = 0
      BY <1>9, <3>1 DEF LoopOf
    <3>2. CASE i # 0
      <4>1. i \in 1..n /\ i - 1 \in 0..n
        BY <3>2
      <4>2. q[i] = turn[i][q[i - 1]] /\ q[i - 1] \in S
        BY <1>9, <4>1 DEF LoopOf
      <4> QED BY <1>6, <3>2, <4>1, <4>2
    <3> QED BY <3>1, <3>2
  <2> QED BY <1>5, <2>1
<1>11. PICK h : h = CHOOSE u : Follows(u)
  OBVIOUS
<1>12. Follows(h)
  <2> HIDE DEF Follows
  <2> QED BY <1>10, <1>11
<1>13. Between(f, first, last) = h[n].f
  BY <1>3, <1>11 DEF Between
<1>14. h[0] = s0 /\ \A i \in 1..n : h[i] = BetweenAt(h[i - 1], first + i)
  <2>1. \A i \in 0..n : h[i] = IF i = 0 THEN [f |-> f, prev |-> first] ELSE BetweenAt(h[i - 1], first + i)
    BY <1>12
  <2>2. 0 \in 0..n /\ \A i \in 1..n : i \in 0..n /\ i # 0
    OBVIOUS
  <2> HIDE DEF Follows
  <2> QED BY <1>5, <2>1, <2>2
<1> HIDE DEF Follows
<1> DEFINE P == {i \in 0..n : UpToSlot(h[i], first + i)}
<1>15. 0 \in P
  <2>1. Keeps(f)
    BY <1>2 DEF Keeps
  <2>2. first <= first /\ \A j \in Framed(Nice) : ~(first < j /\ j <= first)
    BY <1>2
  <2>3. UpToSlot(s0, first)
    BY <1>5, <2>1, <2>2 DEF UpToSlot
  <2>4. first + 0 = first
    BY <1>2
  <2> QED BY <1>14, <2>3, <2>4
<1>16. ASSUME NEW i \in 1..n, i - 1 \in P PROVE i \in P
  <2>1. PICK k \in 1..(Slots - 1) : k = first + i
    BY <1>7
  <2>2. first + (i - 1) = k - 1
    BY <1>2, <2>1
  <2>3. UpToSlot(h[i - 1], k - 1)
    BY <1>16, <2>2
  <2>4. UpToSlot(BetweenAt(h[i - 1], k), k)
    BY <2>3, BetweenAtKeeps
  <2> QED BY <1>14, <2>1, <2>4
<1>17. \A i \in 0..n : i \in P
  <2> HIDE DEF P
  <2> QED BY <1>15, <1>16, UpTo
<1>18. UpToSlot(h[n], first + n)
  BY <1>17
<1> QED BY <1>13, <1>18 DEF UpToSlot

-----------------------------------------------------------------------------
(* The frames at the strip's ends                                          *)

(* A put in a slot without a run's frame keeps those there are.            *)
LEMMA PutKeeps ==
  ASSUME WholeStrip, NEW f, Keeps(f), NEW p \in Int, NEW w \in Int, p >= 0 => PlaceOf(p) \notin Framed(Nice)
  PROVE  Keeps(Put(f, p, w))
<1>1. f \in Frames
  BY DEF Keeps
<1>2. PICK g : g = Put(f, p, w)
  OBVIOUS
<1>3. g \in Frames /\ \A k \in 0..(Cap - 1) : p < 0 \/ k # PlaceOf(p) => g.at[k] = f.at[k]
  BY <1>1, <1>2, PutGives
<1>4. CASE p < 0
  <2>1. Within(g, f, {})
    BY <1>3, <1>4 DEF Within
  <2> QED BY <1>2, <2>1, WithinKeeps
<1>5. CASE p >= 0
  <2>1. Within(g, f, {PlaceOf(p)})
    BY <1>3 DEF Within
  <2>2. \A k \in Framed(Nice) : k \notin {PlaceOf(p)}
    BY <1>5
  <2> QED BY <1>2, <2>1, <2>2, WithinKeeps
<1> QED BY <1>4, <1>5

(* So does a mark.                                                         *)
LEMMA MarkedKeeps ==
  ASSUME WholeStrip, NEW f, Keeps(f), NEW ks, NEW src \in Nat
  PROVE  Keeps(Marked(f, ks, src))
<1>1. f \in Frames /\ \A k \in Framed(Nice) : k \in 0..(Cap - 1)
  <2>1. Slots \in Int /\ Cap \in Nat /\ Slots < Cap
    BY SizesAre
  <2> QED BY <2>1 DEF Framed, Keeps
<1>2. PICK g : g = Marked(f, ks, src)
  OBVIOUS
<1>3. g \in Frames /\ \A k \in 0..(Cap - 1) : Same(g, f, k)
  BY <1>1, <1>2, MarkedIs
<1> QED BY <1>1, <1>2, <1>3 DEF Keeps, Same

(* Bright rows are counted in whole numbers.                               *)
LEMMA OverlapIs ==
  ASSUME WholeStrip, NEW a \in Int, NEW n \in Int
  PROVE  Overlap(a, n) \in Int
<1>1. PICK m \in Nat : m = Len(strip.bright)
  <2>1. PICK S : S = [start : Nat, len : Nat \ {0}]
    OBVIOUS
  <2>2. strip.bright \in Seq(S)
    BY <2>1 DEF WholeStrip
  <2>3. Len(strip.bright) \in Nat
    BY <2>2
  <2> QED BY <2>3
<1> DEFINE In(r) == Upper(0, Lower(a + n, r.start + r.len) - Upper(a, r.start))
           Follows(h) == h = [i \in 0..m |-> IF i = 0 THEN 0 ELSE h[i - 1] + In(strip.bright[i])]
<1>2. ASSUME NEW i \in 1..m PROVE In(strip.bright[i]) \in Int
  <2>1. PICK x \in Nat, l \in Nat : x = strip.bright[i].start /\ l = strip.bright[i].len
    <3>1. PICK S : S = [start : Nat, len : Nat \ {0}]
      OBVIOUS
    <3>2. PICK b \in Seq(S) : b = strip.bright
      BY <3>1 DEF WholeStrip
    <3>3. b[i] \in S
      BY <1>1, <3>2
    <3> QED BY <3>1, <3>2, <3>3
  <2>2. PICK u \in Int, v \in Int : u = Lower(a + n, x + l) /\ v = Upper(a, x)
    BY DEF Lower, Upper
  <2>3. PICK z \in Int : z = u - v
    OBVIOUS
  <2>4. Upper(0, z) \in Int
    BY DEF Upper
  <2> QED BY <2>1, <2>2, <2>3, <2>4
<1> HIDE DEF In
<1>3. PICK turn : turn = [i \in 1..m |-> [x \in Int |-> x + In(strip.bright[i])]]
  OBVIOUS
<1>4. turn \in [1..m -> [Int -> Int]]
  BY <1>2, <1>3
<1>14. PICK z \in Int : z = 0
  OBVIOUS
<1>15. PICK q \in [0..m -> Int] : LoopOf(q, z, turn, m)
  BY <1>4, LoopIs
<1>5. LoopOf(q, 0, turn, m)
  BY <1>14, <1>15
<1>6. Follows(q)
  <2>1. ASSUME NEW i \in 0..m PROVE q[i] = IF i = 0 THEN 0 ELSE q[i - 1] + In(strip.bright[i])
    <3>1. CASE i = 0
      BY <1>5, <3>1 DEF LoopOf
    <3>2. CASE i # 0
      <4>1. i \in 1..m /\ i - 1 \in 0..m
        BY <3>2
      <4>2. q[i] = turn[i][q[i - 1]] /\ q[i - 1] \in Int
        BY <1>5, <4>1 DEF LoopOf
      <4> QED BY <1>3, <3>2, <4>1, <4>2
    <3> QED BY <3>1, <3>2
  <2> QED BY <2>1
<1>7. PICK h : h = CHOOSE u : Follows(u)
  OBVIOUS
<1>8. Follows(h)
  <2> HIDE DEF Follows
  <2> QED BY <1>6, <1>7
<1>9. Overlap(a, n) = h[m]
  BY <1>1, <1>7 DEF Overlap, In
<1>10. h[0] = 0 /\ \A i \in 1..m : h[i] = h[i - 1] + In(strip.bright[i])
  <2>1. \A i \in 0..m : h[i] = IF i = 0 THEN 0 ELSE h[i - 1] + In(strip.bright[i])
    BY <1>8
  <2>2. 0 \in 0..m /\ \A i \in 1..m : i \in 0..m /\ i # 0
    OBVIOUS
  <2> HIDE DEF Follows
  <2> QED BY <2>1, <2>2
<1> HIDE DEF Follows
<1> DEFINE P == {i \in 0..m : h[i] \in Int}
<1>11. 0 \in P
  BY <1>10
<1>12. \A i \in 1..m : i - 1 \in P => i \in P
  BY <1>2, <1>10
<1>13. \A i \in 0..m : i \in P
  <2> HIDE DEF P
  <2> QED BY <1>11, <1>12, UpTo
<1> QED BY <1>9, <1>13

(* Of finitely many numbers one is the greatest.                           *)
LEMMA GreatestIs ==
  ASSUME NEW n \in Nat, NEW w \in [0..n -> Int]
  PROVE  \E m \in 0..n : \A i \in 0..n : w[i] <= w[m]
<1> DEFINE P == {k \in 0..n : \E m \in 0..n : \A i \in 0..k : w[i] <= w[m]}
<1>1. 0 \in P
  <2>1. 0 \in 0..n /\ \A i \in 0..0 : w[i] <= w[0]
    OBVIOUS
  <2> QED BY <2>1
<1>2. ASSUME NEW k \in 1..n, k - 1 \in P PROVE k \in P
  <2>1. PICK m \in 0..n : \A i \in 0..(k - 1) : w[i] <= w[m]
    BY <1>2
  <2>2. w[m] \in Int /\ k \in 0..n /\ w[k] \in Int
    OBVIOUS
  <2>3. \A i \in 0..k : i = k \/ i \in 0..(k - 1)
    OBVIOUS
  <2>4. \A i \in 0..k : w[i] \in Int
    OBVIOUS
  <2>5. CASE w[k] <= w[m]
    BY <2>1, <2>2, <2>3, <2>5
  <2>6. CASE w[m] < w[k]
    <3>1. \A i \in 0..k : w[i] <= w[k]
      BY <2>1, <2>2, <2>3, <2>4, <2>6
    <3> QED BY <2>2, <3>1
  <2> QED BY <2>2, <2>5, <2>6
<1>3. \A k \in 0..n : k \in P
  <2> HIDE DEF P
  <2> QED BY <1>1, <1>2, UpTo
<1>4. n \in 0..n
  OBVIOUS
<1>5. n \in P
  BY <1>3, <1>4
<1> QED BY <1>5

(* The best window is one of the windows.                                  *)
LEMMA BestWindowIs ==
  ASSUME WholeStrip, NEW start \in Int
  PROVE  BestWindow(start) \in Int /\ start <= BestWindow(start) /\ BestWindow(start) <= start + D
<1>1. PICK d \in Nat, h \in Nat : d = D /\ h = H /\ d >= 12 /\ h <= d
  BY Geometry
<1> DEFINE W(j)   == Overlap(start + j, SIZE)
           Off(j) == IF j > h THEN j - h ELSE h - j
           best   == Max({W(j) : j \in 0..(d - 1)})
           near   == {j \in 0..(d - 1) : W(j) = best /\ \A i \in 0..(d - 1) : W(i) = best => Off(j) <= Off(i)}
<1>2. \A j \in 0..(d - 1) : W(j) \in Int
  BY OverlapIs, Geometry
<1>3. \A j \in 0..(d - 1) : Off(j) \in Nat
  OBVIOUS
<1>4. PICK n \in Nat : n = d - 1
  BY <1>1
<1>5. \E j \in 0..(d - 1) : W(j) = best
  <2> HIDE DEF W
  <2>1. PICK w \in [0..n -> Int] : w = [j \in 0..n |-> W(j)]
    BY <1>2, <1>4
  <2>2. PICK m \in 0..n : \A i \in 0..n : w[i] <= w[m]
    BY GreatestIs
  <2>3. \A i \in 0..n : W(i) <= W(m) /\ W(i) \in Int
    BY <1>2, <1>4, <2>1, <2>2
  <2>4. PICK vs : vs = {W(j) : j \in 0..(d - 1)}
    OBVIOUS
  <2>5. W(m) \in vs /\ \A v \in vs : W(m) >= v
    BY <1>4, <2>3, <2>4
  <2>6. Max(vs) \in vs
    BY <2>5 DEF Max
  <2> QED BY <2>4, <2>6
<1>6. near \in SUBSET Nat /\ near # {}
  <2> HIDE DEF W, best, Off
  <2>1. PICK offs : offs = {Off(j) : j \in {i \in 0..(d - 1) : W(i) = best}}
    OBVIOUS
  <2>2. offs \in SUBSET Nat /\ offs # {}
    BY <1>3, <1>5, <2>1
  <2>3. PICK o \in offs : \A u \in offs : o <= u
    BY <2>2, WFNat
  <2>4. PICK j \in 0..(d - 1) : W(j) = best /\ o = Off(j)
    BY <2>1, <2>3
  <2>5. \A i \in 0..(d - 1) : W(i) = best => Off(j) <= Off(i)
    BY <2>1, <2>3, <2>4
  <2>6. j \in near
    BY <2>4, <2>5
  <2> QED BY <2>6
<1>7. Min(near) \in 0..(d - 1)
  <2>1. Min(near) \in near
    <3> HIDE DEF near
    <3> QED BY <1>6, MinIs
  <2>2. near \subseteq 0..(d - 1)
    OBVIOUS
  <2> HIDE DEF near
  <2> QED BY <2>1, <2>2
<1>8. BestWindow(start) = IF best = 0 THEN start + h ELSE start + Min(near)
  BY <1>1 DEF BestWindow
<1> HIDE DEF best, near
<1> QED BY <1>1, <1>7, <1>8

(* A walk along the strip.                                                 *)
Walks == [f : Frames, pos : Int, on : BOOLEAN]

(* What a walk is.                                                         *)
LEMMA WalkIs ==
  ASSUME NEW f \in Frames, NEW pos \in Int
  PROVE  Walk(f, pos) \in Walks /\ Walk(f, pos).f = f /\ Walk(f, pos).pos = pos
<1>1. PICK u : u = [f |-> f, pos |-> pos, on |-> TRUE]
  OBVIOUS
<1>2. u \in Walks /\ u.f = f /\ u.pos = pos
  BY <1>1 DEF Walks
<1>3. Walk(f, pos) = u
  BY <1>1 DEF Walk
<1> QED BY <1>2, <1>3

(* And when it is over.                                                     *)
LEMMA OverIs ==
  ASSUME NEW s \in Walks, NEW f \in Frames
  PROVE  Over(f, s) \in Walks /\ Over(f, s).f = f /\ Over(f, s).pos = s.pos
<1>1. PICK u : u = [s EXCEPT !.f = f, !.on = FALSE]
  OBVIOUS
<1>2. u \in Walks /\ u.f = f /\ u.pos = s.pos
  BY <1>1 DEF Walks
<1>3. Over(f, s) = u
  BY <1>1 DEF Over
<1> QED BY <1>2, <1>3

(* A walk's frames and where it is, if it began at base with frames that   *)
(* are kept; it goes up or down.                                           *)
Up(s, base) == Keeps(s.f) /\ s.pos >= base
Down(s, base) == Keeps(s.f) /\ s.pos <= base

(* Where a walk goes on from, and where it is over.                        *)
LEMMA WalksOn ==
  ASSUME NEW s \in Walks, NEW base \in Int, NEW g \in Frames, Keeps(g), NEW n \in Int
  PROVE  /\ n >= base => Up(Walk(g, n), base)
         /\ n <= base => Down(Walk(g, n), base)
         /\ s.pos >= base => Up(Over(g, s), base)
         /\ s.pos <= base => Down(Over(g, s), base)
<1>1. PICK u : u = Walk(g, n) /\ u.f = g /\ u.pos = n
  BY WalkIs
<1>2. PICK v : v = Over(g, s) /\ v.f = g /\ v.pos = s.pos
  BY OverIs
<1>3. (n >= base => Up(u, base)) /\ (n <= base => Down(u, base))
  BY <1>1 DEF Up, Down
<1>4. (s.pos >= base => Up(v, base)) /\ (s.pos <= base => Down(v, base))
  BY <1>2 DEF Up, Down
<1> QED BY <1>1, <1>2, <1>3, <1>4

(* From base on, or up to it, no slot has a run's frame.                   *)
FreeFrom(base) == \A p \in Nat : p >= base => PlaceOf(p) \notin Framed(Nice)
FreeTo(base)   == \A p \in Nat : 2 * p + PITCH <= 2 * base + 2 * H => PlaceOf(p) \notin Framed(Nice)

(* A put that may be a run's frame's, and one that is not.                 *)
LEMMA PutFits ==
  ASSUME WholeStrip, NEW f \in Frames, NEW p \in Int, NEW w \in Int
  PROVE  Put(f, p, w) \in Frames
<1>1. PICK g : g = Put(f, p, w)
  OBVIOUS
<1> QED BY <1>1, PutGives

(* A frame at the end is cut, if at all, where the strip ends.             *)
LEMMA ClippedIs ==
  ASSUME WholeStrip, NEW p \in Int
  PROVE  Clipped(p) \in Int /\ (Clipped(p) = SIZE \/ Clipped(p) = LAST - p)
<1>1. SIZE \in Int /\ LAST - p \in Int
  BY SizesAre, Geometry
<1>2. Clipped(p) = SIZE \/ Clipped(p) = LAST - p
  BY Zenon DEF Clipped
<1> QED BY <1>1, <1>2

(* A turn towards the end puts its frame where no run's is.                *)
LEMMA EndTurnIs ==
  ASSUME WholeStrip, NEW s \in Walks, NEW base \in Int
  PROVE  EndTurn(s) \in Walks /\ (FreeFrom(base) /\ Up(s, base) => Up(EndTurn(s), base))
<1>1. PICK f \in Frames, pos \in Int : f = s.f /\ pos = s.pos
  BY DEF Walks
<1>2. PICK sz \in Nat, d \in Nat, h \in Nat, pt \in Nat : sz = SIZE /\ d = D /\ h = H /\ pt = PITCH /\ d = pt - sz
  BY Geometry
<1>3. PICK l \in Int : l = LAST
  BY SizesAre
<1>4. PICK p \in Int : p = BestWindow(pos) /\ pos <= p /\ p <= pos + d
  BY <1>2, BestWindowIs
<1>5. PICK c \in Int : c = Clipped(p) /\ (c = sz \/ c = l - p)
  BY <1>2, <1>3, ClippedIs
<1>6. PICK e \in Int : e = pos + d
  OBVIOUS
<1>7. PICK v \in Int : v = Clipped(e)
  BY ClippedIs
<1>8. PICK n \in Int : n = p + c + h
  OBVIOUS
<1>9. Put(f, p, c) \in Frames /\ Put(f, e, v) \in Frames
  BY PutFits
<1>10. \/ EndTurn(s) = s \/ EndTurn(s) = Over(f, s)
       \/ l - pos >= h + pt /\ EndTurn(s) = Walk(Put(f, p, c), n)
       \/ EndTurn(s) = Over(Put(f, e, v), s)
  <2>1. Clipped(BestWindow(s.pos)) = c /\ BestWindow(s.pos) + Clipped(BestWindow(s.pos)) + H = n
    BY <1>1, <1>2, <1>4, <1>5, <1>8
  <2>2. s.pos + D = e /\ Clipped(s.pos + D) = v
    BY <1>1, <1>2, <1>6, <1>7
  <2>3. \/ EndTurn(s) = s \/ EndTurn(s) = Over(s.f, s)
        \/ LAST - s.pos >= H + PITCH /\ EndTurn(s) = Walk(Put(s.f, BestWindow(s.pos), Clipped(BestWindow(s.pos))),
                                                         BestWindow(s.pos) + Clipped(BestWindow(s.pos)) + H)
        \/ EndTurn(s) = Over(Put(s.f, s.pos + D, Clipped(s.pos + D)), s)
    BY Zenon DEF EndTurn
  <2> QED BY <1>1, <1>2, <1>3, <1>4, <2>1, <2>2, <2>3
<1>11. EndTurn(s) \in Walks
  <2>1. Over(f, s) \in Walks /\ Over(Put(f, e, v), s) \in Walks
    BY <1>9, OverIs
  <2>2. Walk(Put(f, p, c), n) \in Walks
    BY <1>9, WalkIs
  <2> QED BY <1>10, <2>1, <2>2, Zenon
<1>12. ASSUME FreeFrom(base), Up(s, base) PROVE Up(EndTurn(s), base)
  <2>1. Keeps(f) /\ pos >= base
    BY <1>1, <1>12 DEF Up
  <2>2. Keeps(Put(f, p, c))
    <3>1. p >= 0 => PlaceOf(p) \notin Framed(Nice)
      BY <1>4, <1>12, <2>1 DEF FreeFrom
    <3> QED BY <2>1, <3>1, PutKeeps
  <2>3. Keeps(Put(f, e, v))
    <3>1. e >= 0 => PlaceOf(e) \notin Framed(Nice)
      BY <1>6, <1>12, <2>1 DEF FreeFrom
    <3> QED BY <2>1, <3>1, PutKeeps
  <2>4. CASE EndTurn(s) = s
    BY <1>12, <2>4
  <2>5. CASE EndTurn(s) = Over(f, s)
    BY <1>1, <2>1, <2>5, WalksOn
  <2>6. CASE l - pos >= h + pt /\ EndTurn(s) = Walk(Put(f, p, c), n)
    <3>1. c >= 0
      BY <1>2, <1>4, <1>5, <2>6
    <3>2. n >= base
      BY <1>4, <1>8, <2>1, <3>1
    <3>3. Up(Walk(Put(f, p, c), n), base)
      BY <1>9, <2>2, <3>2, WalksOn
    <3> QED BY <2>6, <3>3
  <2>7. CASE EndTurn(s) = Over(Put(f, e, v), s)
    <3>1. s.pos >= base
      BY <1>1, <2>1
    <3>2. Up(Over(Put(f, e, v), s), base)
      BY <1>9, <2>3, <3>1, WalksOn
    <3> QED BY <2>7, <3>2
  <2> QED BY <1>10, <2>4, <2>5, <2>6, <2>7
<1> QED BY <1>11, <1>12

(* A turn towards the beginning too.                                       *)
LEMMA BeginTurnIs ==
  ASSUME WholeStrip, NEW s \in Walks, NEW base \in Int
  PROVE  BeginTurn(s) \in Walks /\ (FreeTo(base) /\ Down(s, base) => Down(BeginTurn(s), base))
<1>1. PICK f \in Frames, pos \in Int : f = s.f /\ pos = s.pos
  BY DEF Walks
<1>2. PICK sz \in Nat, d \in Nat, h \in Nat, pt \in Nat :
        /\ sz = SIZE /\ d = D /\ h = H /\ pt = PITCH /\ d = pt - sz
        /\ 10 * sz >= 9 * pt /\ d >= 12 /\ d <= 2 * h + 1
  BY Geometry
<1>3. PICK p \in Int : p = BestWindow(pos - pt) /\ p <= pos - sz
  <2>1. PICK b \in Int : b = pos - pt
    OBVIOUS
  <2>2. BestWindow(b) \in Int /\ BestWindow(b) <= b + d
    BY <1>2, BestWindowIs
  <2> QED BY <1>2, <2>1, <2>2
<1>4. PICK near \in Int : near = (pos - h) - sz
  OBVIOUS
<1>5. PICK w \in Int : w = Lower(sz, (pos - 1) - h)
  <2>1. PICK u \in Int : u = (pos - 1) - h
    OBVIOUS
  <2>2. Lower(sz, u) \in Int
    BY DEF Lower
  <2> QED BY <2>1, <2>2
<1>6. PICK n \in Int : n = p - h
  OBVIOUS
<1>7. Put(f, p, sz) \in Frames /\ Put(f, near, sz) \in Frames /\ Put(f, 1, w) \in Frames
  BY PutFits
<1>8. PICK half \in Int : half = pt \div 2 /\ pt <= 2 * half + 1
  OBVIOUS
<1>9. \/ BeginTurn(s) = s \/ BeginTurn(s) = Over(f, s)
      \/ BeginTurn(s) = Walk(Put(f, p, sz), n)
      \/ BeginTurn(s) = Over(Put(f, near, sz), s)
      \/ ~(half + h > pos) /\ BeginTurn(s) = Over(Put(f, 1, w), s)
  <2>1. BestWindow(s.pos - PITCH) = p /\ p - H = n
    BY <1>1, <1>2, <1>3, <1>6
  <2>2. (s.pos - H) - SIZE = near /\ Lower(SIZE, (s.pos - 1) - H) = w /\ PITCH \div 2 = half
    BY <1>1, <1>2, <1>4, <1>5, <1>8
  <2>3. \/ BeginTurn(s) = s \/ BeginTurn(s) = Over(s.f, s)
        \/ BeginTurn(s) = Walk(Put(s.f, BestWindow(s.pos - PITCH), SIZE), BestWindow(s.pos - PITCH) - H)
        \/ BeginTurn(s) = Over(Put(s.f, (s.pos - H) - SIZE, SIZE), s)
        \/ ~(PITCH \div 2 + H > s.pos) /\ BeginTurn(s) = Over(Put(s.f, 1, Lower(SIZE, (s.pos - 1) - H)), s)
    BY Zenon DEF BeginTurn
  <2> QED BY <1>1, <1>2, <2>1, <2>2, <2>3
<1>10. BeginTurn(s) \in Walks
  <2>1. Over(f, s) \in Walks /\ Over(Put(f, near, sz), s) \in Walks /\ Over(Put(f, 1, w), s) \in Walks
    BY <1>7, OverIs
  <2>2. Walk(Put(f, p, sz), n) \in Walks
    BY <1>7, WalkIs
  <2> QED BY <1>9, <2>1, <2>2, Zenon
<1>11. ASSUME FreeTo(base), Down(s, base) PROVE Down(BeginTurn(s), base)
  <2>1. Keeps(f) /\ pos <= base
    BY <1>1, <1>11 DEF Down
  <2>2. \A r \in Nat : 2 * r + pt <= 2 * base + 2 * h => PlaceOf(r) \notin Framed(Nice)
    BY <1>2, <1>11 DEF FreeTo
  <2>3. Keeps(Put(f, p, sz))
    <3>1. 2 * p + pt <= 2 * base + 2 * h
      BY <1>2, <1>3, <2>1
    <3>2. p >= 0 => PlaceOf(p) \notin Framed(Nice)
      BY <2>2, <3>1
    <3> QED BY <2>1, <3>2, PutKeeps
  <2>4. Keeps(Put(f, near, sz))
    <3>1. 2 * near + pt <= 2 * base + 2 * h
      BY <1>2, <1>4, <2>1
    <3>2. near >= 0 => PlaceOf(near) \notin Framed(Nice)
      BY <2>2, <3>1
    <3> QED BY <2>1, <3>2, PutKeeps
  <2>5. CASE BeginTurn(s) = s
    BY <1>11, <2>5
  <2>6. CASE BeginTurn(s) = Over(f, s)
    BY <1>1, <2>1, <2>6, WalksOn
  <2>7. CASE BeginTurn(s) = Walk(Put(f, p, sz), n)
    <3>1. n <= base
      BY <1>3, <1>6, <2>1
    <3>2. Down(Walk(Put(f, p, sz), n), base)
      BY <1>7, <2>3, <3>1, WalksOn
    <3> QED BY <2>7, <3>2
  <2>8. CASE BeginTurn(s) = Over(Put(f, near, sz), s)
    <3>1. s.pos <= base
      BY <1>1, <2>1
    <3>2. Down(Over(Put(f, near, sz), s), base)
      BY <1>7, <2>4, <3>1, WalksOn
    <3> QED BY <2>8, <3>2
  <2>9. CASE ~(half + h > pos) /\ BeginTurn(s) = Over(Put(f, 1, w), s)
    <3>1. 2 * 1 + pt <= 2 * base + 2 * h
      BY <1>2, <1>8, <2>1, <2>9
    <3>2. PICK one \in Nat : one = 1
      OBVIOUS
    <3>3. one >= 0 => PlaceOf(one) \notin Framed(Nice)
      BY <2>2, <3>1, <3>2
    <3>4. Keeps(Put(f, one, w))
      BY <2>1, <3>3, PutKeeps
    <3>5. s.pos <= base
      BY <1>1, <2>1
    <3>6. Keeps(Put(f, 1, w))
      BY <3>2, <3>4
    <3>7. Down(Over(Put(f, 1, w), s), base)
      BY <1>7, <3>5, <3>6, WalksOn
    <3> QED BY <2>9, <3>7
  <2> QED BY <1>9, <2>5, <2>6, <2>7, <2>8, <2>9
<1> QED BY <1>10, <1>11

(* The walk to the strip's end keeps the runs' frames.                     *)
LEMMA AtEndKeeps ==
  ASSUME WholeStrip, Slots >= 1, NEW f, Keeps(f), NEW pos \in Int, FreeFrom(pos)
  PROVE  Keeps(AtEnd(f, pos))
<1>1. PICK t \in Nat : t = Turns
  BY SizesAre DEF Turns
<1>2. f \in Frames
  BY DEF Keeps
<1>3. PICK s0 \in Walks : s0 = Walk(f, pos) /\ s0.f = f /\ s0.pos = pos
  BY <1>2, WalkIs
<1> DEFINE Follows(h) == h = [n \in 0..t |-> IF n = 0 THEN Walk(f, pos) ELSE EndTurn(h[n - 1])]
<1>4. PICK turn : turn = [n \in 1..t |-> [s \in Walks |-> EndTurn(s)]]
  OBVIOUS
<1>5. turn \in [1..t -> [Walks -> Walks]]
  <2>1. \A s \in Walks : EndTurn(s) \in Walks
    BY EndTurnIs
  <2> QED BY <1>4, <2>1
<1>6. PICK q \in [0..t -> Walks] : LoopOf(q, s0, turn, t)
  BY <1>5, LoopIs
<1>7. Follows(q)
  <2>1. ASSUME NEW n \in 0..t PROVE q[n] = IF n = 0 THEN s0 ELSE EndTurn(q[n - 1])
    <3>1. CASE n = 0
      BY <1>6, <3>1 DEF LoopOf
    <3>2. CASE n # 0
      <4>1. n \in 1..t /\ n - 1 \in 0..t
        BY <3>2
      <4>2. q[n] = turn[n][q[n - 1]] /\ q[n - 1] \in Walks
        BY <1>6, <4>1 DEF LoopOf
      <4> QED BY <1>4, <3>2, <4>1, <4>2
    <3> QED BY <3>1, <3>2
  <2> QED BY <1>3, <2>1
<1>8. PICK h : h = CHOOSE u : Follows(u)
  OBVIOUS
<1>9. Follows(h)
  <2> HIDE DEF Follows
  <2> QED BY <1>7, <1>8
<1>10. AtEnd(f, pos) = h[t].f
  BY <1>1, <1>8 DEF AtEnd
<1>11. h[0] = s0 /\ \A n \in 1..t : h[n] = EndTurn(h[n - 1])
  <2>1. \A n \in 0..t : h[n] = IF n = 0 THEN Walk(f, pos) ELSE EndTurn(h[n - 1])
    BY <1>9
  <2>2. 0 \in 0..t /\ \A n \in 1..t : n \in 0..t /\ n # 0
    OBVIOUS
  <2> HIDE DEF Follows
  <2> QED BY <1>3, <2>1, <2>2
<1> HIDE DEF Follows
<1> DEFINE P == {n \in 0..t : h[n] \in Walks /\ Up(h[n], pos)}
<1>12. 0 \in P
  <2>1. Up(s0, pos)
    BY <1>3 DEF Up
  <2> QED BY <1>11, <2>1
<1>13. \A n \in 1..t : n - 1 \in P => n \in P
  BY <1>11, EndTurnIs
<1>14. \A n \in 0..t : n \in P
  <2> HIDE DEF P
  <2> QED BY <1>12, <1>13, UpTo
<1>15. Up(h[t], pos)
  BY <1>14
<1> QED BY <1>10, <1>15 DEF Up

(* The walk to its beginning too.                                          *)
LEMMA AtBeginningKeeps ==
  ASSUME WholeStrip, Slots >= 1, NEW f, Keeps(f), NEW pos \in Int, FreeTo(pos)
  PROVE  Keeps(AtBeginning(f, pos))
<1>1. PICK t \in Nat : t = Turns
  BY SizesAre DEF Turns
<1>2. f \in Frames
  BY DEF Keeps
<1>3. PICK s0 \in Walks : s0 = Walk(f, pos) /\ s0.f = f /\ s0.pos = pos
  BY <1>2, WalkIs
<1> DEFINE Follows(h) == h = [n \in 0..t |-> IF n = 0 THEN Walk(f, pos) ELSE BeginTurn(h[n - 1])]
<1>4. PICK turn : turn = [n \in 1..t |-> [s \in Walks |-> BeginTurn(s)]]
  OBVIOUS
<1>5. turn \in [1..t -> [Walks -> Walks]]
  <2>1. \A s \in Walks : BeginTurn(s) \in Walks
    BY BeginTurnIs
  <2> QED BY <1>4, <2>1
<1>6. PICK q \in [0..t -> Walks] : LoopOf(q, s0, turn, t)
  BY <1>5, LoopIs
<1>7. Follows(q)
  <2>1. ASSUME NEW n \in 0..t PROVE q[n] = IF n = 0 THEN s0 ELSE BeginTurn(q[n - 1])
    <3>1. CASE n = 0
      BY <1>6, <3>1 DEF LoopOf
    <3>2. CASE n # 0
      <4>1. n \in 1..t /\ n - 1 \in 0..t
        BY <3>2
      <4>2. q[n] = turn[n][q[n - 1]] /\ q[n - 1] \in Walks
        BY <1>6, <4>1 DEF LoopOf
      <4> QED BY <1>4, <3>2, <4>1, <4>2
    <3> QED BY <3>1, <3>2
  <2> QED BY <1>3, <2>1
<1>8. PICK h : h = CHOOSE u : Follows(u)
  OBVIOUS
<1>9. Follows(h)
  <2> HIDE DEF Follows
  <2> QED BY <1>7, <1>8
<1>10. AtBeginning(f, pos) = h[t].f
  BY <1>1, <1>8 DEF AtBeginning
<1>11. h[0] = s0 /\ \A n \in 1..t : h[n] = BeginTurn(h[n - 1])
  <2>1. \A n \in 0..t : h[n] = IF n = 0 THEN Walk(f, pos) ELSE BeginTurn(h[n - 1])
    BY <1>9
  <2>2. 0 \in 0..t /\ \A n \in 1..t : n \in 0..t /\ n # 0
    OBVIOUS
  <2> HIDE DEF Follows
  <2> QED BY <1>3, <2>1, <2>2
<1> HIDE DEF Follows
<1> DEFINE P == {n \in 0..t : h[n] \in Walks /\ Down(h[n], pos)}
<1>12. 0 \in P
  <2>1. Down(s0, pos)
    BY <1>3 DEF Down
  <2> QED BY <1>11, <2>1
<1>13. \A n \in 1..t : n - 1 \in P => n \in P
  BY <1>11, BeginTurnIs
<1>14. \A n \in 0..t : n \in P
  <2> HIDE DEF P
  <2> QED BY <1>12, <1>13, UpTo
<1>15. Down(h[t], pos)
  BY <1>14
<1> QED BY <1>10, <1>15 DEF Down

(* A finite set of numbers has a greatest one, and Max is it.              *)
LEMMA MaxIs ==
  ASSUME NEW n \in Nat, NEW S \in SUBSET (0..n), S # {}
  PROVE  Max(S) \in S /\ \A y \in S : y <= Max(S)
<1>1. PICK T : T = {n - x : x \in S}
  OBVIOUS
<1>2. T \in SUBSET Nat /\ T # {}
  <2>1. \A x \in S : x \in 0..n /\ n - x \in Nat
    OBVIOUS
  <2> QED BY <1>1, <2>1
<1>3. PICK m \in T : \A u \in T : m <= u
  BY <1>2, WFNat
<1>4. PICK x \in S : m = n - x
  BY <1>1, <1>3
<1>5. \A y \in S : x >= y
  <2>1. TAKE y \in S
  <2>2. n - y \in T
    BY <1>1
  <2> QED BY <1>3, <1>4, <2>2
<1>6. Max(S) \in S /\ \A y \in S : Max(S) >= y
  BY <1>5 DEF Max
<1>7. \A y \in S : y \in Int
  OBVIOUS
<1> QED BY <1>6, <1>7

(* What the detection finds has the runs' frames.                          *)
LEMMA DetectedKeeps ==
  ASSUME WholeStrip, WellPlaced(Nice), Slots >= 1
  PROVE  Keeps(Detected)
<1>1. PICK n \in Nat : n = Slots - 1
  BY SizesAre
<1>2. Nice \in Frames /\ Framed(Nice) \in SUBSET (0..n)
  BY <1>1 DEF WellPlaced, Framed
<1>3. PICK kf, kl : kf = FirstOf(Nice) /\ kl = LastOf(Nice)
  OBVIOUS
<1>4. PICK first, end :
        /\ first = IF Framed(Nice) = {} THEN 0 ELSE Nice.at[kf].start
        /\ end = IF Framed(Nice) = {} THEN LAST ELSE Nice.at[kl].start + Nice.at[kl].width
  OBVIOUS
<1>5. ASSUME Framed(Nice) # {}
      PROVE  /\ kf \in Framed(Nice) /\ kl \in Framed(Nice)
             /\ \A k \in Framed(Nice) : k \in Int /\ kf <= k /\ k <= kl
  <2>1. kf = Min(Framed(Nice)) /\ kl = Max(Framed(Nice))
    BY <1>3, <1>5 DEF FirstOf, LastOf
  <2>2. Framed(Nice) \in SUBSET Nat
    BY <1>2
  <2>3. kf \in Framed(Nice) /\ \A k \in Framed(Nice) : kf <= k
    BY <1>5, <2>1, <2>2, MinIs
  <2>4. kl \in Framed(Nice) /\ \A k \in Framed(Nice) : k <= kl
    BY <1>2, <1>5, <2>1, MaxIs
  <2> QED BY <1>2, <2>3, <2>4
<1>6. PICK found, mid :
        /\ found = Marked(Nice, kf..kl, 1)
        /\ mid = Marked(IF Nice.count > 1 /\ kf < kl THEN Between(found, kf, kl) ELSE found, kf..kl, 2)
  OBVIOUS
<1>7. Keeps(found) /\ found \in Frames /\ \A k \in 0..(Cap - 1) : Same(found, Nice, k)
  <2>1. Keeps(Nice)
    BY <1>2 DEF Keeps, Same
  <2> QED BY <1>2, <1>6, <2>1, MarkedKeeps, MarkedIs
<1>8. Keeps(mid)
  <2>1. CASE Nice.count > 1 /\ kf < kl
    <3>1. Framed(Nice) # {}
      <4>1. ASSUME Framed(Nice) = {} PROVE FALSE
        <5>1. kf = Slots - 1 /\ kl = 0
          BY <1>3, <4>1 DEF FirstOf, LastOf
        <5> QED BY <1>1, <2>1, <5>1
      <4> QED BY <4>1
    <3>2. Keeps(Between(found, kf, kl))
      BY <1>5, <1>7, <2>1, <3>1, BetweenKeeps
    <3> QED BY <1>6, <2>1, <3>2, MarkedKeeps
  <2>2. CASE ~(Nice.count > 1 /\ kf < kl)
    BY <1>6, <1>7, <2>2, MarkedKeeps
  <2> QED BY <2>1, <2>2
<1>9. PICK h \in Nat, p \in Nat, s \in Nat : h = H /\ p = PITCH /\ s = SIZE /\ 10 * s >= 9 * p /\ h >= 6 /\ p >= 200
  BY Geometry
<1>10. PICK e \in Int : e = H + end /\ FreeFrom(e)
  <2>1. CASE Framed(Nice) = {}
    <3>1. H + end \in Int
      BY <1>4, <1>9, <2>1, SizesAre
    <3> QED BY <2>1, <3>1 DEF FreeFrom
  <2>2. CASE Framed(Nice) # {}
    <3>1. PICK x \in Nat, w \in Int : x = Nice.at[kl].start /\ w = Nice.at[kl].width
      BY <1>2, <1>5, <2>2, FramedIs
    <3>2. kl = PlaceOf(x) /\ 5 * w >= 4 * s
      BY <1>5, <1>9, <2>2, <3>1 DEF WellPlaced, Sits
    <3>3. PICK b \in Int : b = h + x + w
      OBVIOUS
    <3>4. H + end = b
      BY <1>4, <1>9, <2>2, <3>1, <3>3
    <3>5. ASSUME NEW q \in Nat, q >= b PROVE PlaceOf(q) \notin Framed(Nice)
      <4>1. 2 * x + p <= 2 * q
        BY <1>9, <3>2, <3>3, <3>5
      <4>2. kl < PlaceOf(q) /\ PlaceOf(q) \in Nat /\ kl \in Int
        BY <1>5, <1>9, <2>2, <3>2, <4>1, Apart, PlaceIs
      <4> QED BY <1>5, <2>2, <4>2
    <3> QED BY <3>4, <3>5 DEF FreeFrom
  <2> QED BY <2>1, <2>2
<1>11. PICK a \in Int : a = first - H /\ FreeTo(a)
  <2>1. CASE Framed(Nice) = {}
    <3>1. first - H \in Int
      BY <1>4, <1>9, <2>1
    <3> QED BY <2>1, <3>1 DEF FreeTo
  <2>2. CASE Framed(Nice) # {}
    <3>1. PICK x \in Nat : x = Nice.at[kf].start
      BY <1>2, <1>5, <2>2, FramedIs
    <3>2. kf = PlaceOf(x)
      BY <1>5, <2>2, <3>1 DEF WellPlaced, Sits
    <3>3. PICK b \in Int : b = x - h
      OBVIOUS
    <3>4. first - H = b
      BY <1>4, <1>9, <2>2, <3>1, <3>3
    <3>5. ASSUME NEW q \in Nat, 2 * q + p <= 2 * b + 2 * h PROVE PlaceOf(q) \notin Framed(Nice)
      <4>1. 2 * q + p <= 2 * x
        BY <3>3, <3>5
      <4>2. PlaceOf(q) < kf /\ PlaceOf(q) \in Nat /\ kf \in Int
        BY <1>5, <1>9, <2>2, <3>2, <4>1, Apart, PlaceIs
      <4> QED BY <1>5, <2>2, <4>2
    <3> QED BY <1>9, <3>4, <3>5 DEF FreeTo
  <2> QED BY <2>1, <2>2
<1>12. Keeps(AtEnd(mid, e))
  BY <1>8, <1>10, AtEndKeeps
<1>13. Keeps(Marked(AtEnd(mid, e), kl..(Slots - 1), 4))
  BY <1>12, MarkedKeeps
<1>14. Keeps(AtBeginning(Marked(AtEnd(mid, e), kl..(Slots - 1), 4), a))
  BY <1>11, <1>13, AtBeginningKeeps
<1>15. Keeps(Marked(AtBeginning(Marked(AtEnd(mid, e), kl..(Slots - 1), 4), a), 0..(kf - 1), 3))
  BY <1>14, MarkedKeeps
<1>16. Detected = IF mid.count < 1 THEN mid
                  ELSE Marked(AtBeginning(Marked(AtEnd(mid, e), kl..(Slots - 1), 4), a), 0..(kf - 1), 3)
  BY <1>3, <1>4, <1>6, <1>10, <1>11, Zenon DEF Detected
<1> QED BY <1>8, <1>15, <1>16

-----------------------------------------------------------------------------
(* The rectangles                                                          *)

(* A rectangle of top and bottom.                                          *)
RectWith(e, t, b) ==
  [top |-> t, bottom |-> b, lo_top |-> t \div RATIO, lo_bottom |-> ((b - t + 1) \div RATIO - 1) + t \div RATIO, type |-> e.src]

(* How frame e comes to its top and bottom.                                *)
ShapedBy(e, t, b, t0, b0, t1, b1) ==
  /\ \/ e.width < SIZE /\ e.start < 5 /\ t0 = RATIO * (e.width + e.start) - LINES /\ b0 = RATIO * (e.width + e.start)
     \/ ~(e.width < SIZE /\ e.start < 5) /\ t0 = RATIO * e.start /\ b0 = RATIO * e.start - 1 + LINES
  /\ (t0 < 0 /\ t1 = 0) \/ (~(t0 < 0) /\ t1 = t0)
  /\ (Readable <= b0 /\ b1 = Readable - 1) \/ (~(Readable <= b0) /\ b1 = b0)
  /\ \/ b1 - t1 >= RATIO * 16 /\ t = t1 /\ b = b1
     \/ ~(b1 - t1 >= RATIO * 16) /\ e.start < 5 /\ t = t1 /\ b = RATIO * 16 + t1
     \/ ~(b1 - t1 >= RATIO * 16) /\ ~(e.start < 5) /\ t = b1 - RATIO * 16 /\ b = b1
Shape(e, t, b) == \E t0, b0, t1, b1 \in Int : ShapedBy(e, t, b, t0, b0, t1, b1)

(* So its rectangle is.                                                    *)
LEMMA RectIs ==
  ASSUME WholeStrip, NEW e \in Slotted
  PROVE  \E t, b \in Int : Rect(e) = RectWith(e, t, b) /\ Shape(e, t, b)
<1>1. PICK x \in Nat, w \in Int, ra \in Nat, li \in Int, rd \in Int : x = e.start /\ w = e.width /\ ra = RATIO /\ li = LINES /\ rd = Readable
  <2>1. RATIO \in Nat /\ SIZE \in Nat
    BY Geometry
  <2>2. SIZE * RATIO \in Int
    BY <2>1
  <2>3. e.start \in Nat /\ e.width \in Int
    BY DEF Slotted
  <2> QED BY <2>1, <2>2, <2>3, SizesAre DEF LINES
<1>2. PICK bot \in Int, tx \in Int : bot = ra * (w + x) /\ tx = ra * x
  OBVIOUS
<1>3. PICK all : all = IF w < SIZE /\ x < 5 THEN [top |-> bot - li, bottom |-> bot] ELSE [top |-> tx, bottom |-> tx - 1 + li]
  OBVIOUS
<1>4. PICK t0 \in Int, b0 \in Int :
        /\ all = [top |-> t0, bottom |-> b0]
        /\ (w < SIZE /\ x < 5 /\ t0 = bot - li /\ b0 = bot) \/ (~(w < SIZE /\ x < 5) /\ t0 = tx /\ b0 = tx - 1 + li)
  <2>1. CASE w < SIZE /\ x < 5
    <3>1. bot - li \in Int
      OBVIOUS
    <3> QED BY <1>3, <2>1, <3>1
  <2>2. CASE ~(w < SIZE /\ x < 5)
    <3>1. tx - 1 + li \in Int
      OBVIOUS
    <3> QED BY <1>3, <2>2, <3>1
  <2> QED BY <2>1, <2>2
<1>5. all.top = t0 /\ all.bottom = b0
  BY <1>4
<1>6. PICK t1 \in Int : (t0 < 0 /\ t1 = 0) \/ (~(t0 < 0) /\ t1 = t0)
  OBVIOUS
<1>7. PICK b1 \in Int : (rd <= b0 /\ b1 = rd - 1) \/ (~(rd <= b0) /\ b1 = b0)
  OBVIOUS
<1>8. PICK c : c = Clip(all)
  OBVIOUS
<1>9. c = [top |-> t1, bottom |-> b1]
  <2>1. c = [top |-> IF t0 < 0 THEN 0 ELSE t0, bottom |-> IF rd <= b0 THEN rd - 1 ELSE b0]
    BY <1>1, <1>5, <1>8 DEF Clip
  <2>2. (IF t0 < 0 THEN 0 ELSE t0) = t1
    BY <1>6
  <2>3. (IF rd <= b0 THEN rd - 1 ELSE b0) = b1
    BY <1>7
  <2> QED BY <2>1, <2>2, <2>3
<1>10. c.top = t1 /\ c.bottom = b1
  BY <1>9
<1>11. PICK r : r = LeastRows(c, e)
  OBVIOUS
<1>12. PICK t \in Int, b \in Int :
         /\ r.top = t /\ r.bottom = b
         /\ \/ b1 - t1 >= ra * 16 /\ t = t1 /\ b = b1
            \/ ~(b1 - t1 >= ra * 16) /\ x < 5 /\ t = t1 /\ b = ra * 16 + t1
            \/ ~(b1 - t1 >= ra * 16) /\ ~(x < 5) /\ t = b1 - ra * 16 /\ b = b1
  <2>1. PICK up \in Int, dn \in Int : up = b1 - ra * 16 /\ dn = ra * 16 + t1
    OBVIOUS
  <2>2. CASE b1 - t1 >= ra * 16
    <3>1. r = c
      BY <1>1, <1>10, <1>11, <2>2 DEF LeastRows
    <3> QED BY <1>10, <2>2, <3>1
  <2>3. CASE ~(b1 - t1 >= ra * 16) /\ x < 5
    <3>1. r = [c EXCEPT !.bottom = dn]
      BY <1>1, <1>10, <1>11, <2>1, <2>3 DEF LeastRows
    <3>2. r = [top |-> t1, bottom |-> dn]
      BY <1>9, <3>1
    <3> QED BY <2>1, <2>3, <3>2
  <2>4. CASE ~(b1 - t1 >= ra * 16) /\ ~(x < 5)
    <3>1. r = [c EXCEPT !.top = up]
      BY <1>1, <1>10, <1>11, <2>1, <2>4 DEF LeastRows
    <3>2. r = [top |-> up, bottom |-> b1]
      BY <1>9, <3>1
    <3> QED BY <2>1, <2>4, <3>2
  <2> QED BY <2>2, <2>3, <2>4
<1>13. Rect(e) = RectWith(e, t, b)
  <2>1. all = IF e.width < SIZE /\ e.start < 5 THEN [top |-> RATIO * (e.width + e.start) - LINES, bottom |-> RATIO * (e.width + e.start)]
              ELSE [top |-> RATIO * e.start, bottom |-> RATIO * e.start - 1 + LINES]
    BY <1>1, <1>2, <1>3
  <2>2. r = LeastRows(Clip(IF e.width < SIZE /\ e.start < 5
                           THEN [top |-> RATIO * (e.width + e.start) - LINES, bottom |-> RATIO * (e.width + e.start)]
                           ELSE [top |-> RATIO * e.start, bottom |-> RATIO * e.start - 1 + LINES]), e)
    BY <1>8, <1>11, <2>1
  <2>3. Rect(e) = [top |-> r.top, bottom |-> r.bottom, lo_top |-> r.top \div RATIO,
                   lo_bottom |-> ((r.bottom - r.top + 1) \div RATIO - 1) + r.top \div RATIO, type |-> e.src]
    BY <2>2, Zenon DEF Rect
  <2> QED BY <1>12, <2>3 DEF RectWith
<1>14. Shape(e, t, b)
  <2>1. (w < SIZE /\ x < 5 /\ t0 = ra * (w + x) - li /\ b0 = ra * (w + x)) \/ (~(w < SIZE /\ x < 5) /\ t0 = ra * x /\ b0 = ra * x - 1 + li)
    BY <1>2, <1>4
  <2>2. ShapedBy(e, t, b, t0, b0, t1, b1)
    BY <1>1, <1>6, <1>7, <1>12, <2>1, Zenon DEF ShapedBy
  <2> QED BY <2>2 DEF Shape
<1> QED BY <1>13, <1>14

(* A strip with a slot has rows enough.                                    *)
LEMMA RowsAreMany ==
  ASSUME WholeStrip, Slots >= 1
  PROVE  Rows \in Nat /\ 2 * Rows >= PITCH /\ Rows >= 100 /\ Readable >= 99 * RATIO
<1>1. PICK r \in Int, s \in Int : r = Rows /\ s = Slots
  BY SizesAre
<1>2. PICK p \in Nat \ {0} : p = PITCH /\ p >= 200
  BY Geometry
<1>3. PICK a \in Int : a = r * 2
  OBVIOUS
<1>4. s = a \div p
  BY <1>1, <1>2, <1>3 DEF Slots
<1>5. p * s <= a
  BY <1>4, QuotientIs
<1>6. PICK n \in Nat : s = 1 + n
  BY <1>1
<1>7. p * s = p + p * n /\ p * n \in Nat
  BY <1>6
<1>8. 2 * r >= p
  BY <1>3, <1>5, <1>7
<1>9. PICK ra \in {4, 6, 8} : ra = RATIO
  BY Geometry
<1>10. PICK rd \in Int : rd = Readable /\ rd >= ra * (r - 1)
  BY <1>1, <1>9, SizesAre
<1>11. rd >= 99 * ra
  <2>1. r >= 100
    BY <1>2, <1>8
  <2>2. CASE ra = 4
    BY <1>10, <2>1, <2>2
  <2>3. CASE ra = 6
    BY <1>10, <2>1, <2>3
  <2>4. CASE ra = 8
    BY <1>10, <2>1, <2>4
  <2> QED BY <2>2, <2>3, <2>4
<1> QED BY <1>1, <1>2, <1>8, <1>9, <1>10, <1>11

(* Its rectangles have sixteen rows, all of them readable.                 *)
LEMMA ShapeIs ==
  ASSUME WholeStrip, Slots >= 1, NEW e \in Slotted, e.start >= 1, NEW t \in Int, NEW b \in Int, Shape(e, t, b)
  PROVE  t >= 0 /\ b < Readable /\ b - t >= 16 * RATIO
<1>1. PICK x \in Nat, w \in Int : x = e.start /\ w = e.width /\ x >= 1
  BY DEF Slotted
<1>2. PICK ra \in {4, 6, 8}, s \in Nat, rd \in Int : ra = RATIO /\ s = SIZE /\ rd = Readable /\ s >= 180 /\ rd >= 99 * ra
  BY Geometry, SizesAre, RowsAreMany
<1>3. PICK t0 \in Int, b0 \in Int, t1 \in Int, b1 \in Int :
        /\ \/ w < s /\ x < 5 /\ t0 = ra * (w + x) - s * ra /\ b0 = ra * (w + x)
           \/ ~(w < s /\ x < 5) /\ t0 = ra * x /\ b0 = ra * x - 1 + s * ra
        /\ (t0 < 0 /\ t1 = 0) \/ (~(t0 < 0) /\ t1 = t0)
        /\ (rd <= b0 /\ b1 = rd - 1) \/ (~(rd <= b0) /\ b1 = b0)
        /\ \/ b1 - t1 >= ra * 16 /\ t = t1 /\ b = b1
           \/ ~(b1 - t1 >= ra * 16) /\ x < 5 /\ t = t1 /\ b = ra * 16 + t1
           \/ ~(b1 - t1 >= ra * 16) /\ ~(x < 5) /\ t = b1 - ra * 16 /\ b = b1
  BY <1>1, <1>2 DEF Shape, ShapedBy, LINES
<1>4. CASE ra = 4
  BY <1>1, <1>2, <1>3, <1>4
<1>5. CASE ra = 6
  BY <1>1, <1>2, <1>3, <1>5
<1>6. CASE ra = 8
  BY <1>1, <1>2, <1>3, <1>6
<1> QED BY <1>2, <1>4, <1>5, <1>6

(* So they can be read out.                                                *)
Reads(r) ==
  /\ r.top >= 0 /\ r.bottom < Readable /\ r.bottom - r.top + 1 >= 2 * RATIO
  /\ r.bottom + 1 + 2 * RATIO <= strip.lines
  /\ r.lo_top >= 0 /\ r.lo_bottom - r.lo_top + 1 >= 2 /\ r.lo_bottom < Stored

(* Each of them.                                                           *)
LEMMA RectReads ==
  ASSUME WholeStrip, Slots >= 1, NEW e \in Slotted, e.start >= 1
  PROVE  Reads(Rect(e))
<1>1. PICK t \in Int, b \in Int : Rect(e) = RectWith(e, t, b) /\ Shape(e, t, b)
  BY RectIs
<1>2. t >= 0 /\ b < Readable /\ b - t >= 16 * RATIO
  BY <1>1, ShapeIs
<1>3. PICK ra \in {4, 6, 8}, pl \in {3, 4}, rd \in Int, l \in Nat :
        ra = RATIO /\ pl = PLANES /\ rd = Readable /\ l = strip.lines /\ l = rd + (pl - 1) * ra
  BY Geometry, SizesAre DEF WholeStrip
<1>4. PICK q1 \in Int, q2 \in Int, st \in Int : q1 = t \div ra /\ q2 = (b - t + 1) \div ra /\ st = l \div ra + 1
  OBVIOUS
<1>5. ra * q1 <= t /\ t < ra * q1 + ra
  BY <1>4, QuotientIs
<1>6. ra * q2 <= b - t + 1 /\ b - t + 1 < ra * q2 + ra
  BY <1>4, QuotientIs
<1>7. l < ra * (st - 1) + ra
  BY <1>4, QuotientIs
<1>8. t >= 0 /\ b < rd /\ b - t >= 16 * ra
  BY <1>2, <1>3
<1>9. l >= rd + 2 * ra
  <2>1. CASE ra = 4
    BY <1>3, <2>1
  <2>2. CASE ra = 6
    BY <1>3, <2>2
  <2>3. CASE ra = 8
    BY <1>3, <2>3
  <2> QED BY <2>1, <2>2, <2>3
<1>10. b - t + 1 >= 2 * ra /\ b + 1 + 2 * ra <= l /\ q1 >= 0 /\ ((q2 - 1) + q1) - q1 + 1 >= 2 /\ (q2 - 1) + q1 < st
  <2>1. CASE ra = 4
    BY <1>5, <1>6, <1>7, <1>8, <1>9, <2>1
  <2>2. CASE ra = 6
    BY <1>5, <1>6, <1>7, <1>8, <1>9, <2>2
  <2>3. CASE ra = 8
    BY <1>5, <1>6, <1>7, <1>8, <1>9, <2>3
  <2> QED BY <2>1, <2>2, <2>3
<1>11. PICK r : r = RectWith(e, t, b)
  OBVIOUS
<1>12. r.top = t /\ r.bottom = b /\ r.lo_top = q1 /\ r.lo_bottom = (q2 - 1) + q1
  BY <1>3, <1>4, <1>11 DEF RectWith
<1>13. Stored = st
  BY <1>3, <1>4 DEF Stored
<1>14. Reads(r)
  BY <1>3, <1>8, <1>10, <1>12, <1>13 DEF Reads
<1> QED BY <1>1, <1>11, <1>14

(* A run of a frame's length is in the rectangle of its frame.             *)
Covers(r, rn) ==
  /\ r.top <= RATIO * (rn.start + (LongOf - SIZE) \div 3 + 1)
  /\ r.bottom + 1 >= Lower(RATIO * (rn.start + rn.len - (LongOf - SIZE)), Readable)

(* If that is at its place.                                                *)
LEMMA RectCovers ==
  ASSUME WholeStrip, Slots >= 1, NEW e \in Slotted, NEW k, Sits(e, k),
         NEW i \in 1..Len(Runs), OneFrame(Runs[i]), e.start = RunPlace(Runs[i])
  PROVE  Covers(Rect(e), Runs[i])
<1>1. PICK t \in Int, b \in Int : Rect(e) = RectWith(e, t, b) /\ Shape(e, t, b)
  BY RectIs
<1>2. PICK x \in Nat, w \in Int : x = e.start /\ w = e.width
  BY DEF Slotted
<1>3. PICK ra \in {4, 6, 8}, s \in Nat, rd \in Int, l \in Int, lo \in Nat, sh \in Nat :
        /\ ra = RATIO /\ s = SIZE /\ rd = Readable /\ s >= 180 /\ rd >= ra * l /\ l = LAST /\ lo = LongOf /\ sh = ShortOf
        /\ 100 * lo <= 115 * s /\ 115 * s < 100 * lo + 100 /\ 95 * s < 100 * sh + 100 /\ Rows = l + 1
  <2>1. LAST \in Int /\ Readable \in Int /\ Readable >= RATIO * LAST /\ Rows = LAST + 1
    BY SizesAre
  <2> QED BY <2>1, Geometry
<1>4. x >= 1 /\ w <= s /\ 5 * w >= 4 * s /\ x + w <= l /\ (w < s => x + w = l - 1)
  BY <1>2, <1>3 DEF Sits
<1>5. PICK a \in Nat, m \in Nat : a = Runs[i].start /\ m = Runs[i].len /\ a + m <= l + 2
  <2>1. PICK a \in Nat, m \in Nat : a = Runs[i].start /\ m = Runs[i].len /\ a + m <= Rows + 1
    BY RunsAre
  <2>2. Rows + 1 = l + 2
    BY <1>3
  <2> QED BY <2>1, <2>2
<1>6. sh < m /\ m < lo
  BY <1>3, <1>5 DEF OneFrame
<1>7. PICK n \in Int : n = m - s
  OBVIOUS
<1>22. PICK th \in Int : th = Third(n)
  BY ThirdIs
<1>8. (n >= 0 => 3 * th <= n /\ th >= 0) /\ (n < 0 => n <= 3 * th /\ th <= 0)
  <2>1. ASSUME n >= 0 PROVE th >= 0 /\ 3 * th <= n
    BY <1>22, <2>1, ThirdIs
  <2>2. ASSUME n < 0 PROVE n <= 3 * th /\ th <= 0
    BY <1>22, <2>2, ThirdIs
  <2> QED BY <2>1, <2>2
<1>9. x >= th + a /\ (x = 1 \/ x = th + a)
  <2>1. x = Upper(1, th + a)
    BY <1>2, <1>3, <1>5, <1>7, <1>22 DEF RunPlace
  <2>2. PICK z \in Int : z = th + a
    OBVIOUS
  <2>3. x = (IF 1 < z THEN z ELSE 1)
    BY <2>1, <2>2 DEF Upper
  <2> QED BY <2>2, <2>3
<1>10. PICK y \in Int : y = (lo - s) \div 3 /\ lo - s <= 3 * y + 2
  OBVIOUS
<1>11. x <= a + y + 1
  BY <1>3, <1>4, <1>6, <1>7, <1>8, <1>9, <1>10
<1>21. s >= 180 /\ 100 * lo <= 115 * s /\ 115 * s < 100 * lo + 100 /\ a + m <= l + 2
  BY <1>3, <1>5
<1>12. a + m - (lo - s) <= x + s /\ a + m - (lo - s) <= l - 24
  <2>1. a + m - (lo - s) <= l - 24
    BY <1>21
  <2>2. CASE n >= 0
    BY <1>6, <1>7, <1>8, <1>9, <2>1, <2>2
  <2>3. CASE n < 0
    BY <1>6, <1>7, <1>8, <1>9, <1>21, <2>1, <2>3
  <2> QED BY <2>2, <2>3
<1>13. PICK t0 \in Int, b0 \in Int, t1 \in Int, b1 \in Int :
        /\ \/ w < s /\ x < 5 /\ t0 = ra * (w + x) - s * ra /\ b0 = ra * (w + x)
           \/ ~(w < s /\ x < 5) /\ t0 = ra * x /\ b0 = ra * x - 1 + s * ra
        /\ (t0 < 0 /\ t1 = 0) \/ (~(t0 < 0) /\ t1 = t0)
        /\ (rd <= b0 /\ b1 = rd - 1) \/ (~(rd <= b0) /\ b1 = b0)
        /\ \/ b1 - t1 >= ra * 16 /\ t = t1 /\ b = b1
           \/ ~(b1 - t1 >= ra * 16) /\ x < 5 /\ t = t1 /\ b = ra * 16 + t1
           \/ ~(b1 - t1 >= ra * 16) /\ ~(x < 5) /\ t = b1 - ra * 16 /\ b = b1
  <2>1. ra = RATIO /\ s = SIZE /\ rd = Readable
    BY <1>3
  <2>2. PICK t0 \in Int, b0 \in Int, t1 \in Int, b1 \in Int : ShapedBy(e, t, b, t0, b0, t1, b1)
    BY <1>1 DEF Shape
  <2>3. \/ w < s /\ x < 5 /\ t0 = ra * (w + x) - s * ra /\ b0 = ra * (w + x)
        \/ ~(w < s /\ x < 5) /\ t0 = ra * x /\ b0 = ra * x - 1 + s * ra
    BY <1>2, <2>1, <2>2, Zenon DEF ShapedBy, LINES
  <2>4. /\ (t0 < 0 /\ t1 = 0) \/ (~(t0 < 0) /\ t1 = t0)
        /\ (rd <= b0 /\ b1 = rd - 1) \/ (~(rd <= b0) /\ b1 = b0)
    BY <2>1, <2>2, Zenon DEF ShapedBy
  <2>5. \/ b1 - t1 >= ra * 16 /\ t = t1 /\ b = b1
        \/ ~(b1 - t1 >= ra * 16) /\ x < 5 /\ t = t1 /\ b = ra * 16 + t1
        \/ ~(b1 - t1 >= ra * 16) /\ ~(x < 5) /\ t = b1 - ra * 16 /\ b = b1
    BY <1>2, <2>1, <2>2, Zenon DEF ShapedBy
  <2> QED BY <2>3, <2>4, <2>5
<1>14. t <= ra * x /\ (b + 1 >= ra * (a + m - (lo - s)) \/ b + 1 >= rd)
  <2>1. rd >= ra * l
    BY <1>3
  <2>2. CASE ra = 4
    BY <1>3, <1>4, <1>12, <1>13, <2>1, <2>2
  <2>3. CASE ra = 6
    BY <1>3, <1>4, <1>12, <1>13, <2>1, <2>3
  <2>4. CASE ra = 8
    BY <1>3, <1>4, <1>12, <1>13, <2>1, <2>4
  <2> QED BY <2>2, <2>3, <2>4
<1>15. t <= ra * (a + y + 1)
  <2>1. CASE ra = 4
    BY <1>11, <1>14, <2>1
  <2>2. CASE ra = 6
    BY <1>11, <1>14, <2>2
  <2>3. CASE ra = 8
    BY <1>11, <1>14, <2>3
  <2> QED BY <2>1, <2>2, <2>3
<1>16. b + 1 >= Lower(ra * (a + m - (lo - s)), rd)
  <2>1. PICK z \in Int : z = ra * (a + m - (lo - s))
    OBVIOUS
  <2>2. b + 1 >= Lower(z, rd)
    BY <1>14, <2>1 DEF Lower
  <2> QED BY <2>1, <2>2
<1>17. PICK r : r = RectWith(e, t, b)
  OBVIOUS
<1>18. r.top = t /\ r.bottom = b
  BY <1>17 DEF RectWith
<1>19. /\ RATIO * (Runs[i].start + (LongOf - SIZE) \div 3 + 1) = ra * (a + y + 1)
       /\ Lower(RATIO * (Runs[i].start + Runs[i].len - (LongOf - SIZE)), Readable) = Lower(ra * (a + m - (lo - s)), rd)
  BY <1>3, <1>5, <1>10
<1>20. Covers(r, Runs[i])
  BY <1>15, <1>16, <1>18, <1>19 DEF Covers
<1> QED BY <1>1, <1>17, <1>20

(* The blind frames: one at each pitch, the first of them in any case.     *)
LEMMA BlindIs ==
  ASSUME WholeStrip, Slots >= 1
  PROVE  Blind \in Frames /\ 0 \in Framed(Blind)
<1>1. PICK p \in Nat, s \in Nat, r \in Nat, m \in Nat, c \in Nat :
        /\ p = PITCH /\ s = SIZE /\ r = Rows /\ m = Margin /\ c = Cap /\ c >= 1
        /\ p >= 200 /\ s + 12 <= p /\ s >= 180 /\ 2 * r >= p /\ 2 * m <= p - s /\ m >= 6
  <2>1. PICK p \in Nat, s \in Nat : p = PITCH /\ s = SIZE /\ p >= 200 /\ s + 12 <= p /\ s >= 180
    BY Geometry
  <2>2. PICK m \in Nat : m = (p - s) \div 2 /\ 2 * m <= p - s /\ m >= 6
    BY <2>1
  <2>3. m = Margin
    BY <2>1, <2>2 DEF Margin
  <2>4. PICK r \in Nat, c \in Nat : r = Rows /\ c = Cap /\ c >= 1 /\ 2 * r >= p
    BY <2>1, RowsAreMany, SizesAre
  <2> QED BY <2>1, <2>2, <2>3, <2>4
<1> DEFINE Begin(n) == n * PITCH + Margin
           Whole(n) == PITCH + 4 < LeftAt(n)
           Stub(n)  == ~Whole(n) /\ (n = 0 \/ Whole(n - 1)) /\ SIZE \div 2 < LeftAt(n)
           Width(n) == IF Whole(n) THEN SIZE ELSE (Rows - 1 - Begin(n)) - 4
           one(n)   == [start |-> Begin(n), width |-> Width(n), src |-> IF Width(n) > 0 THEN 9 ELSE 0]
           put      == {n \in 0..(Cap - 1) : Whole(n) \/ Stub(n)}
<1>2. PICK at : at = [n \in 0..(Cap - 1) |-> IF Whole(n) \/ Stub(n) THEN one(n) ELSE Empty]
  OBVIOUS
<1>3. Blind = [at |-> at, count |-> Cardinality(put)]
  BY <1>2 DEF Blind
<1>4. Empty \in Slotted
  BY DEF Empty, Slotted
<1>5. ASSUME NEW n \in 0..(Cap - 1) PROVE one(n) \in Slotted
  <2>1. PICK np \in Nat : np = n * p
    BY <1>1
  <2>2. PICK b \in Nat : b = Begin(n)
    <3>1. Begin(n) = np + m
      BY <1>1, <2>1
    <3>2. np + m \in Nat
      OBVIOUS
    <3> HIDE DEF Begin
    <3> QED BY <3>1, <3>2
  <2> HIDE DEF Begin, Whole
  <2>3. Width(n) = s \/ Width(n) = (r - 1 - b) - 4
    BY <1>1, <2>2
  <2>4. Width(n) \in Int
    BY <2>3
  <2> HIDE DEF Width
  <2>5. PICK u \in Nat : u = IF Width(n) > 0 THEN 9 ELSE 0
    OBVIOUS
  <2> QED BY <2>2, <2>4, <2>5 DEF Slotted
<1>6. at \in [0..(Cap - 1) -> Slotted]
  <2> HIDE DEF one, Whole, Stub
  <2> QED BY <1>2, <1>4, <1>5
<1>7. Cardinality(put) \in Nat
  <2>1. IsFiniteSet(0..(Cap - 1))
    <3>1. PICK x \in Int, y \in Int : x = 0 /\ y = Cap - 1
      BY SizesAre
    <3>2. IsFiniteSet(x..y)
      BY FS_Interval
    <3> QED BY <3>1, <3>2
  <2>2. put \in SUBSET (0..(Cap - 1))
    OBVIOUS
  <2> HIDE DEF put
  <2>3. IsFiniteSet(put)
    BY <2>1, <2>2, FS_Subset
  <2> QED BY <2>3, FS_CardinalityType
<1>8. Blind \in Frames
  <2> HIDE DEF put
  <2> QED BY <1>3, <1>6, <1>7 DEF Frames
<1>9. 0 \in 0..(Slots - 1) /\ 0 \in 0..(Cap - 1) /\ Blind.at = at
  <2> HIDE DEF put
  <2> QED BY <1>1, <1>3, SizesAre
<1>10. LeftAt(0) = r - 1
  BY <1>1 DEF LeftAt
<1>11. PICK half \in Int : half = SIZE \div 2 /\ 2 * half <= s
  BY <1>1
<1>12. Whole(0) \/ Stub(0)
  <2>1. half < r - 1
    BY <1>1, <1>11
  <2> QED BY <1>10, <1>11, <2>1
<1>13. Begin(0) = m /\ Begin(0) # 0
  BY <1>1
<1>14. Width(0) # 0
  <2>1. Width(0) = s \/ Width(0) = (r - 1 - m) - 4
    <3> HIDE DEF Begin, Whole
    <3> QED BY <1>1, <1>13
  <2>2. s # 0 /\ (r - 1 - m) - 4 # 0
    BY <1>1
  <2> HIDE DEF Width
  <2> QED BY <2>1, <2>2
<1>15. at[0].start = Begin(0) /\ at[0].width = Width(0)
  <2> HIDE DEF Whole, Stub, Begin, Width
  <2> QED BY <1>2, <1>9, <1>12
<1>16. IsFrame(Blind.at[0])
  <2> HIDE DEF Begin, Width
  <2> QED BY <1>9, <1>13, <1>14, <1>15 DEF IsFrame
<1> QED BY <1>8, <1>9, <1>16 DEF Framed

(* Ascending has each number of the set, and only those.                   *)
LEMMA AscendingIs ==
  ASSUME NEW n \in Nat, NEW ks \in SUBSET (0..n)
  PROVE  /\ Cardinality(ks) \in Nat /\ (ks # {} => Cardinality(ks) >= 1)
         /\ \A i \in 1..Cardinality(ks) : Ascending(ks)[i] \in ks
         /\ \A k \in ks : \E i \in 1..Cardinality(ks) : Ascending(ks)[i] = k
<1>1. IsFiniteSet(ks)
  <2>1. PICK x \in Int, y \in Int : x = 0 /\ y = n
    OBVIOUS
  <2>2. IsFiniteSet(x..y) /\ ks \in SUBSET (x..y)
    BY <2>1, FS_Interval
  <2> QED BY <2>2, FS_Subset
<1>2. PICK c \in Nat : c = Cardinality(ks) /\ (ks # {} => c >= 1)
  <2>1. Cardinality(ks) \in Nat /\ (Cardinality(ks) = 0 <=> ks = {})
    BY <1>1, FS_CardinalityType, FS_EmptySet
  <2>2. PICK d \in Nat : d = Cardinality(ks)
    BY <2>1
  <2>3. d = 0 <=> ks = {}
    BY <2>1, <2>2
  <2>4. ASSUME ks # {} PROVE d >= 1
    <3>1. d # 0
      BY <2>3, <2>4
    <3> QED BY <3>1
  <2> QED BY <2>2, <2>4
<1> DEFINE Under(k) == {j \in ks : j < k}
<1>3. ASSUME NEW k \in ks
      PROVE  /\ IsFiniteSet(Under(k)) /\ Cardinality(Under(k)) \in 0..(c - 1)
  <2>1. Under(k) \in SUBSET ks /\ k \notin Under(k)
    OBVIOUS
  <2> HIDE DEF Under
  <2>2. IsFiniteSet(Under(k)) /\ Cardinality(Under(k)) <= c /\ (c = Cardinality(Under(k)) => ks = Under(k))
    BY <1>1, <1>2, <2>1, FS_Subset
  <2>3. Cardinality(Under(k)) \in Nat
    BY <2>2, FS_CardinalityType
  <2> QED BY <2>1, <2>2, <2>3
<1>4. ASSUME NEW j \in ks, NEW k \in ks, j < k PROVE Cardinality(Under(j)) < Cardinality(Under(k))
  <2>4. \A x \in ks : x \in Int
    OBVIOUS
  <2>5. \A x \in ks : x < j => x < k
    BY <1>4, <2>4
  <2>1. Under(j) \in SUBSET Under(k) /\ j \in Under(k) /\ j \notin Under(j)
    <3>1. Under(j) \in SUBSET Under(k)
      BY <2>5
    <3>2. ~(j < j)
      BY <2>4
    <3> QED BY <1>4, <3>1, <3>2
  <2> HIDE DEF Under
  <2>2. Cardinality(Under(j)) <= Cardinality(Under(k)) /\ (Cardinality(Under(k)) = Cardinality(Under(j)) => Under(k) = Under(j))
    BY <1>3, <2>1, FS_Subset
  <2>3. Cardinality(Under(j)) \in Int /\ Cardinality(Under(k)) \in Int
    BY <1>3
  <2> QED BY <2>1, <2>2, <2>3
<1> HIDE DEF Under
<1>5. PICK rank : rank = [k \in ks |-> Cardinality(Under(k)) + 1]
  OBVIOUS
<1>6. \A k \in ks : rank[k] = Cardinality(Under(k)) + 1 /\ rank[k] \in 1..c
  <2>1. TAKE k \in ks
  <2>2. Cardinality(Under(k)) \in 0..(c - 1)
    BY <1>3
  <2> QED BY <1>5, <2>2
<1>7. rank \in [ks -> 1..c]
  BY <1>5, <1>6
<1>8. \A j, k \in ks : rank[j] = rank[k] => j = k
  <2>1. SUFFICES ASSUME NEW j \in ks, NEW k \in ks, rank[j] = rank[k] PROVE j = k
    OBVIOUS
  <2>2. j \in Int /\ k \in Int /\ Cardinality(Under(j)) \in Int /\ Cardinality(Under(k)) \in Int
    BY <1>3
  <2>3. Cardinality(Under(j)) = Cardinality(Under(k))
    BY <1>6, <2>1, <2>2
  <2>4. ~(j < k) /\ ~(k < j)
    BY <1>4, <2>2, <2>3
  <2> QED BY <2>2, <2>4
<1>9. rank \in Injection(ks, 1..c)
  BY <1>7, <1>8 DEF Injection, IsInjective
<1>10. IsFiniteSet(1..c) /\ Cardinality(1..c) = c
  <2>1. PICK x \in Int, y \in Int : x = 1 /\ y = c
    OBVIOUS
  <2>2. IsFiniteSet(x..y) /\ Cardinality(x..y) = (IF x > y THEN 0 ELSE y - x + 1)
    BY FS_Interval
  <2>3. (IF x > y THEN 0 ELSE y - x + 1) = c
    BY <2>1
  <2> QED BY <2>1, <2>2, <2>3
<1>11. rank \in Surjection(ks, 1..c)
  BY <1>2, <1>9, <1>10, FS_Injection
<1>12. \A i \in 1..c : \E k \in ks : rank[k] = i
  BY <1>11 DEF Surjection
<1>13. \A k \in ks, i \in 1..c : Cardinality({j \in ks : j < k}) = i - 1 <=> rank[k] = i
  <2>1. TAKE k \in ks, i \in 1..c
  <2>2. Cardinality(Under(k)) \in 0..(c - 1) /\ rank[k] = Cardinality(Under(k)) + 1
    BY <1>3, <1>6
  <2>3. Cardinality(Under(k)) = i - 1 <=> rank[k] = i
    BY <2>2
  <2> QED BY <2>3 DEF Under
<1>14. ASSUME NEW i \in 1..c PROVE Ascending(ks)[i] \in ks /\ rank[Ascending(ks)[i]] = i
  <2>1. Ascending(ks)[i] = CHOOSE k \in ks : Cardinality({j \in ks : j < k}) = i - 1
    BY <1>2 DEF Ascending
  <2>2. \E k \in ks : Cardinality({j \in ks : j < k}) = i - 1
    BY <1>12, <1>13
  <2>3. PICK a : a = CHOOSE k \in ks : Cardinality({j \in ks : j < k}) = i - 1
    OBVIOUS
  <2>4. a \in ks /\ Cardinality({j \in ks : j < a}) = i - 1
    BY <2>2, <2>3
  <2> QED BY <1>13, <2>1, <2>3, <2>4
<1>15. ASSUME NEW k \in ks PROVE \E i \in 1..c : Ascending(ks)[i] = k
  <2>1. rank[k] \in 1..c
    BY <1>6
  <2>2. Ascending(ks)[rank[k]] = k
    BY <1>8, <1>14, <2>1
  <2> QED BY <2>1, <2>2
<1> QED BY <1>2, <1>14, <1>15

(* The rectangles are those of the frames.                                 *)
LEMMA RectsAre ==
  ASSUME WholeStrip, Slots >= 1, NEW f, NEW rs, rs = Rects(f)
  PROVE  /\ \A i \in DOMAIN rs : \E k \in Framed(f) : rs[i] = Rect(f.at[k])
         /\ \A k \in Framed(f) : \E i \in DOMAIN rs : rs[i] = Rect(f.at[k])
         /\ Framed(f) # {} => rs # <<>>
<1>1. PICK n \in Nat : n = Slots - 1
  BY SizesAre
<1>2. PICK ks \in SUBSET (0..n) : ks = Framed(f)
  BY <1>1 DEF Framed
<1>3. PICK c \in Nat : c = Cardinality(ks)
  BY AscendingIs
<1>4. PICK as : as = Ascending(ks)
  OBVIOUS
<1>5. DOMAIN as = 1..c
  BY <1>3, <1>4 DEF Ascending
<1>6. rs = [i \in 1..c |-> Rect(f.at[as[i]])]
  BY <1>2, <1>4, <1>5 DEF Rects
<1>7. \A i \in 1..c : as[i] \in ks
  BY <1>3, <1>4, AscendingIs
<1>8. \A k \in ks : \E i \in 1..c : as[i] = k
  BY <1>3, <1>4, AscendingIs
<1>9. ks # {} => rs # <<>>
  <2>1. SUFFICES ASSUME ks # {} PROVE rs # <<>>
    OBVIOUS
  <2>2. c >= 1
    BY <1>3, <2>1, AscendingIs
  <2>3. 1 \in DOMAIN rs
    BY <1>6, <2>2
  <2> QED BY <2>3
<1>10. DOMAIN rs = 1..c /\ \A i \in 1..c : rs[i] = Rect(f.at[as[i]])
  BY <1>6
<1>11. \A i \in DOMAIN rs : \E k \in ks : rs[i] = Rect(f.at[k])
  BY <1>7, <1>10
<1>12. \A k \in ks : \E i \in DOMAIN rs : rs[i] = Rect(f.at[k])
  BY <1>8, <1>10
<1> QED BY <1>2, <1>9, <1>11, <1>12

-----------------------------------------------------------------------------
(* The ends of the runs, one after the other.                              *)
EndsAre(e, gs, ls, n) ==
  /\ e[0] = 0 /\ \A i \in 0..n : e[i] \in Nat /\ e[i] <= e[n]
  /\ \A i \in 1..n : e[i] = e[i - 1] + gs[i] + ls[i]
  /\ \A i, j \in 0..n : i <= j => e[i] <= e[j]

(* Such they are.                                                          *)
LEMMA EndOfIs ==
  ASSUME NEW n \in Nat, NEW gs \in [1..n -> Nat], NEW ls \in [1..n -> Nat]
  PROVE  EndsAre(EndOf(gs, ls, n), gs, ls, n)
<1> DEFINE Follows(h) == h = [i \in 0..n |-> IF i = 0 THEN 0 ELSE h[i - 1] + gs[i] + ls[i]]
<1>1. PICK turn : turn = [i \in 1..n |-> [x \in Nat |-> x + gs[i] + ls[i]]]
  OBVIOUS
<1>2. turn \in [1..n -> [Nat -> Nat]]
  <2>1. \A i \in 1..n, x \in Nat : x + gs[i] + ls[i] \in Nat
    OBVIOUS
  <2> QED BY <1>1, <2>1
<1>3. PICK z \in Nat : z = 0
  OBVIOUS
<1>4. PICK q \in [0..n -> Nat] : LoopOf(q, z, turn, n)
  BY <1>2, LoopIs
<1>5. Follows(q)
  <2>1. ASSUME NEW i \in 0..n PROVE q[i] = IF i = 0 THEN 0 ELSE q[i - 1] + gs[i] + ls[i]
    <3>1. CASE i = 0
      BY <1>3, <1>4, <3>1 DEF LoopOf
    <3>2. CASE i # 0
      <4>1. i \in 1..n /\ i - 1 \in 0..n
        BY <3>2
      <4>2. q[i] = turn[i][q[i - 1]] /\ q[i - 1] \in Nat
        BY <1>4, <4>1 DEF LoopOf
      <4> QED BY <1>1, <3>2, <4>1, <4>2
    <3> QED BY <3>1, <3>2
  <2> QED BY <2>1
<1>6. PICK h : h = CHOOSE u : Follows(u)
  OBVIOUS
<1>7. Follows(h)
  <2> HIDE DEF Follows
  <2> QED BY <1>5, <1>6
<1>8. EndOf(gs, ls, n) = h
  BY <1>6 DEF EndOf
<1>9. h[0] = 0 /\ \A i \in 1..n : h[i] = h[i - 1] + gs[i] + ls[i]
  <2>1. \A i \in 0..n : h[i] = IF i = 0 THEN 0 ELSE h[i - 1] + gs[i] + ls[i]
    BY <1>7
  <2>2. 0 \in 0..n /\ \A i \in 1..n : i \in 0..n /\ i # 0
    OBVIOUS
  <2> HIDE DEF Follows
  <2> QED BY <2>1, <2>2
<1> HIDE DEF Follows
<1> DEFINE P == {j \in 0..n : h[j] \in Nat /\ \A i \in 0..j : h[i] \in Nat /\ h[i] <= h[j]}
<1>10. 0 \in P
  BY <1>9
<1>11. ASSUME NEW j \in 1..n, j - 1 \in P PROVE j \in P
  <2>1. PICK a \in Nat, g \in Nat, l \in Nat : a = h[j - 1] /\ g = gs[j] /\ l = ls[j]
    BY <1>11
  <2>2. PICK b \in Nat : b = h[j] /\ a <= b
    <3>1. h[j] = a + g + l
      BY <1>9, <2>1
    <3>2. a + g + l \in Nat /\ a <= a + g + l
      OBVIOUS
    <3> QED BY <3>1, <3>2
  <2>3. ASSUME NEW i \in 0..j PROVE h[i] \in Nat /\ h[i] <= h[j]
    <3>1. CASE i = j
      BY <2>2, <3>1
    <3>2. CASE i # j
      <4>1. i \in 0..(j - 1)
        BY <3>2
      <4>2. PICK c \in Nat : c = h[i] /\ c <= a
        BY <1>11, <2>1, <4>1
      <4> QED BY <2>2, <4>2
    <3> QED BY <3>1, <3>2
  <2> QED BY <2>2, <2>3
<1>12. \A j \in 0..n : j \in P
  <2> HIDE DEF P
  <2> QED BY <1>10, <1>11, UpTo
<1>13. \A i, j \in 0..n : i <= j => h[i] \in Nat /\ h[i] <= h[j]
  <2>1. \A i, j \in 0..n : i <= j => i \in 0..j
    OBVIOUS
  <2> QED BY <1>12, <2>1
<1>14. \A i \in 0..n : h[i] \in Nat /\ h[i] <= h[n]
  <2>1. n \in 0..n /\ \A i \in 0..n : i <= n
    OBVIOUS
  <2> QED BY <1>13, <2>1
<1> HIDE DEF P
<1> QED BY <1>8, <1>9, <1>13, <1>14 DEF EndsAre

(* A strip without a slot has no run of a frame's length.                  *)
LEMMA ShortHasNone ==
  ASSUME WholeStrip, ~(Slots >= 1)
  PROVE  \A i \in DOMAIN Runs : ~OneFrame(Runs[i])
<1>1. SUFFICES ASSUME NEW i \in 1..Len(Runs), OneFrame(Runs[i]) PROVE FALSE
  BY RunsAre
<1>2. PICK r \in Int, m \in Nat, a \in Nat : r = Rows /\ m = Runs[i].len /\ a = Runs[i].start /\ a + m <= r + 1
  BY RunsAre, SizesAre
<1>3. PICK s \in Nat, p \in Nat, sh \in Nat :
        s = SIZE /\ p = PITCH /\ sh = ShortOf /\ p >= 200 /\ 10 * s >= 9 * p /\ 95 * s < 100 * sh + 100
  BY Geometry
<1>4. sh < m
  BY <1>1, <1>2, <1>3 DEF OneFrame
<1>5. r \in Nat /\ 2 * r >= p
  BY <1>2, <1>3, <1>4
<1>6. PICK q \in Nat : q = Slots /\ 2 * r < p * q + p
  <2>1. Slots \in Nat /\ Slots = PlaceOf(r)
    BY <1>2, <1>5, SizesAre
  <2>2. 2 * r < PITCH * PlaceOf(r) + PITCH
    BY <1>5, PlaceIs
  <2> QED BY <1>3, <2>1, <2>2
<1>7. q # 0
  <2>1. ASSUME q = 0 PROVE FALSE
    <3>1. p * q = 0
      BY <2>1
    <3> QED BY <1>5, <1>6, <3>1
  <2> QED BY <2>1
<1> QED BY <1>6, <1>7

(* The rectangles of what is detected, and of the blind frames.            *)
LEMMA DetectedIsSound ==
  ASSUME WholeStrip, Slots >= 1, NEW rs, rs = Rects(Detected)
  PROVE  /\ \A i \in DOMAIN rs : Reads(rs[i])
         /\ \A i \in DOMAIN Runs : OneFrame(Runs[i]) => \E k \in DOMAIN rs : Covers(rs[k], Runs[i])
<1>1. NiceAt(Nice, Len(Runs)) /\ WellPlaced(Nice)
  BY NiceIs DEF NiceAt
<1>2. PICK f : f = Detected /\ Keeps(f) /\ f \in Frames
  BY <1>1, DetectedKeeps DEF Keeps
<1>3. rs = Rects(f)
  BY <1>2
<1>4. ASSUME NEW i \in DOMAIN rs PROVE Reads(rs[i])
  <2>1. PICK k \in Framed(f) : rs[i] = Rect(f.at[k])
    BY <1>3, RectsAre
  <2>2. f.at[k] \in Slotted /\ f.at[k].start >= 1
    BY <1>2, FramedIs
  <2> QED BY <2>1, <2>2, RectReads
<1>5. ASSUME NEW i \in 1..Len(Runs), OneFrame(Runs[i]) PROVE \E k \in DOMAIN rs : Covers(rs[k], Runs[i])
  <2>1. PICK k \in Framed(Nice) : Nice.at[k].start = RunPlace(Runs[i])
    BY <1>1, <1>5 DEF NiceAt
  <2>2. Nice \in Frames /\ Sits(Nice.at[k], k)
    BY <1>1 DEF WellPlaced
  <2>3. Same(f, Nice, k)
    BY <1>2 DEF Keeps
  <2>4. k \in Framed(f)
    BY <2>3 DEF Framed, IsFrame, Same
  <2>5. PICK e : e = f.at[k]
    OBVIOUS
  <2>6. e \in Slotted /\ Sits(e, k) /\ e.start = RunPlace(Runs[i])
    <3>1. e \in Slotted
      BY <1>2, <2>4, <2>5, FramedIs
    <3>2. e.start = Nice.at[k].start /\ e.width = Nice.at[k].width
      BY <2>3, <2>5 DEF Same
    <3> QED BY <2>1, <2>2, <3>1, <3>2, SitsAlike
  <2>7. Covers(Rect(e), Runs[i])
    BY <1>5, <2>6, RectCovers
  <2>8. PICK n \in DOMAIN rs : rs[n] = Rect(e)
    BY <1>3, <2>4, <2>5, RectsAre
  <2> QED BY <2>7, <2>8
<1> QED BY <1>4, <1>5, RunsAre

(* The latter cannot be none.                                              *)
LEMMA BlindIsSound ==
  ASSUME WholeStrip, Slots >= 1, NEW rs, rs = Rects(Blind)
  PROVE  rs # <<>> /\ \A i \in DOMAIN rs : Reads(rs[i])
<1>1. PICK f : f = Blind /\ f \in Frames /\ 0 \in Framed(f)
  BY BlindIs
<1>2. rs = Rects(f)
  BY <1>1
<1>3. ASSUME NEW i \in DOMAIN rs PROVE Reads(rs[i])
  <2>1. PICK k \in Framed(f) : rs[i] = Rect(f.at[k])
    BY <1>2, RectsAre
  <2>2. f.at[k] \in Slotted /\ f.at[k].start >= 1
    BY <1>1, FramedIs
  <2> QED BY <2>1, <2>2, RectReads
<1>4. rs # <<>>
  BY <1>1, <1>2, RectsAre
<1> QED BY <1>3, <1>4

(* Blind when nothing was detected, so that no run was a frame.            *)
FrameInv ==
  /\ WholeStrip /\ FramesAreSound
  /\ mode = "blind" => Slots >= 1 /\ \A i \in DOMAIN Runs : ~OneFrame(Runs[i])

(* What FramesAreSound says, by its parts.                                 *)
LEMMA SoundIs ==
  FramesAreSound <=>
    /\ \A i \in DOMAIN rects : Reads(rects[i])
    /\ mode = "done" /\ Slots >= 1 => rects # <<>>
    /\ mode = "done" => \A i \in DOMAIN Runs : OneFrame(Runs[i]) => \E k \in DOMAIN rects : Covers(rects[k], Runs[i])
BY Zenon DEF FramesAreSound, FramesCanBeRead, StripHasFrame, GoodRunsAreFrames, Reads, Covers

(* It begins with a strip as it may be.                                    *)
LEMMA FrameBegins ==
  ASSUME FrameInit
  PROVE  FrameInv
<1>1. PICK n \in 0..RUNS : \E gs \in [1..n -> GAPS], ls \in [1..n -> BRIGHTS], last \in ENDS, odd \in ODD :
         /\ \A i \in 2..n : gs[i] # 0
         /\ strip = [lines  |-> RATIO * (EndOf(gs, ls, n)[n] + last) + odd,
                     bright |-> [i \in 1..n |-> [start |-> EndOf(gs, ls, n)[i - 1] + gs[i], len |-> ls[i]]]]
  BY DEF FrameInit
<1>2. PICK gs \in [1..n -> GAPS], ls \in [1..n -> BRIGHTS], last \in ENDS, odd \in ODD :
         /\ \A i \in 2..n : gs[i] # 0
         /\ strip = [lines  |-> RATIO * (EndOf(gs, ls, n)[n] + last) + odd,
                     bright |-> [i \in 1..n |-> [start |-> EndOf(gs, ls, n)[i - 1] + gs[i], len |-> ls[i]]]]
  BY <1>1
<1>3. n \in Nat /\ gs \in [1..n -> Nat] /\ ls \in [1..n -> Nat \ {0}] /\ ls \in [1..n -> Nat]
  <2>1. GAPS \subseteq Nat /\ BRIGHTS \subseteq Nat \ {0} /\ BRIGHTS \subseteq Nat
    BY FrameAssumption
  <2>2. n \in Nat
    BY FrameAssumption
  <2>3. gs \in [1..n -> Nat]
    BY <2>1
  <2>4. ls \in [1..n -> Nat \ {0}]
    BY <2>1
  <2>5. ls \in [1..n -> Nat]
    BY <2>1
  <2> QED BY <2>2, <2>3, <2>4, <2>5
<1>4. PICK ra \in {4, 6, 8}, pl \in {3, 4}, la \in Nat, od \in Nat :
        ra = RATIO /\ pl = PLANES /\ la = last /\ od = odd /\ od < ra /\ la >= pl - 2
  BY FrameAssumption, GeometryAssumption
<1>5. PICK e : e = EndOf(gs, ls, n) /\ EndsAre(e, gs, ls, n)
  BY <1>3, EndOfIs
<1>6. PICK en \in Nat : en = e[n]
  BY <1>3, <1>5 DEF EndsAre
<1>7. strip.lines = ra * (en + la) + od /\ strip.bright = [i \in 1..n |-> [start |-> e[i - 1] + gs[i], len |-> ls[i]]]
  BY <1>2, <1>4, <1>5, <1>6
<1>8. PICK l \in Nat : l = strip.lines /\ l \div ra = en + la
  <2>1. PICK m \in Nat : m = en + la
    OBVIOUS
  <2>2. PICK k \in Nat : k = ra * m + od
    OBVIOUS
  <2>3. k \div ra = m
    <3>1. CASE ra = 4
      BY <1>4, <2>2, <3>1
    <3>2. CASE ra = 6
      BY <1>4, <2>2, <3>2
    <3>3. CASE ra = 8
      BY <1>4, <2>2, <3>3
    <3> QED BY <3>1, <3>2, <3>3
  <2> QED BY <1>7, <2>1, <2>2, <2>3
<1>9. PICK r \in Int : r = Rows /\ en <= r
  <2>1. Rows = en + la + 1 - (pl - 1)
    BY <1>4, <1>8 DEF Rows, Stored
  <2> QED BY <1>4, <2>1
<1>10. PICK S : S = [start : Nat, len : Nat \ {0}]
  OBVIOUS
<1>11. PICK b : b = strip.bright
  OBVIOUS
<1>12. ASSUME NEW i \in 1..n
       PROVE  b[i] \in S /\ b[i].start + b[i].len = e[i] /\ b[i].start = e[i - 1] + gs[i] /\ e[i] <= en
  <2>1. i \in 0..n /\ i - 1 \in 0..n
    OBVIOUS
  <2>2. PICK x \in Nat, y \in Nat, g \in Nat, m \in Nat \ {0} : x = e[i - 1] /\ y = e[i] /\ g = gs[i] /\ m = ls[i]
    BY <1>3, <1>5, <2>1 DEF EndsAre
  <2>3. y = x + g + m /\ y <= en
    BY <1>5, <1>6, <2>1, <2>2 DEF EndsAre
  <2>4. b[i] = [start |-> x + g, len |-> m]
    BY <1>7, <1>11, <2>2
  <2>5. b[i].start = x + g /\ b[i].len = m
    BY <2>4
  <2>6. b[i] \in S
    BY <1>10, <2>4
  <2> QED BY <2>2, <2>3, <2>5, <2>6
<1>13. b \in Seq(S) /\ Len(b) = n
  BY <1>3, <1>7, <1>11, <1>12
<1>14. ASSUME NEW i \in 1..n, NEW j \in 1..n, i < j PROVE b[i].start + b[i].len < b[j].start
  <2>1. j \in 2..n /\ i \in 0..n /\ j - 1 \in 0..n /\ i <= j - 1
    BY <1>14
  <2>2. PICK x \in Nat, y \in Nat, g \in Nat : x = e[i] /\ y = e[j - 1] /\ g = gs[j] /\ x <= y
    BY <1>3, <1>5, <2>1 DEF EndsAre
  <2>3. g # 0
    BY <1>2, <2>1, <2>2
  <2>4. x < y + g
    BY <2>2, <2>3
  <2> QED BY <1>12, <2>2, <2>4
<1>15. ASSUME NEW i \in 1..n PROVE b[i].start + b[i].len <= r
  <2>1. i \in 0..n
    OBVIOUS
  <2>2. PICK x \in Nat : x = e[i]
    BY <1>5, <2>1 DEF EndsAre
  <2>3. x <= en /\ b[i].start + b[i].len = x
    BY <1>12, <2>2
  <2>4. x <= r
    BY <1>9, <2>3
  <2> QED BY <2>3, <2>4
<1>16. WholeStrip
  BY <1>8, <1>9, <1>10, <1>11, <1>13, <1>14, <1>15 DEF WholeStrip
<1>17. mode = "new" /\ rects = <<>>
  BY DEF FrameInit
<1>18. FramesAreSound
  <2>1. DOMAIN rects = {} /\ mode # "done"
    BY <1>17
  <2> QED BY <2>1, SoundIs
<1> QED BY <1>16, <1>17, <1>18 DEF FrameInv

(* Each pass leaves what FrameInv says.                                    *)
LEMMA FrameGoesOn ==
  ASSUME FrameInv, [FrameNext]_frameVars
  PROVE  FrameInv'
<1>1. strip' = strip
  BY DEF FrameNext, FullPass, BlindPass, frameVars
<1>2. WholeStrip /\ WholeStrip'
  <2>1. WholeStrip
    BY DEF FrameInv
  <2> QED BY <1>1, <2>1 DEF WholeStrip, Rows, Stored
<1>3. Slots' = Slots /\ Runs' = Runs
  BY <1>1 DEF Slots, Rows, Stored, Runs, Rising
<1>4. Readable' = Readable /\ Stored' = Stored
  BY <1>1 DEF Readable, Stored
<1>7. ASSUME NEW rs, rs = rects', \A i \in DOMAIN rs : Reads(rs[i]),
             mode' = "done" /\ Slots >= 1 => rs # <<>>,
             mode' = "done" => \A i \in DOMAIN Runs : OneFrame(Runs[i]) => \E k \in DOMAIN rs : Covers(rs[k], Runs[i]),
             mode' = "blind" => Slots >= 1 /\ \A i \in DOMAIN Runs : ~OneFrame(Runs[i])
      PROVE  FrameInv'
  <2>1. FramesCanBeRead'
    BY <1>1, <1>4, <1>7, Zenon DEF FramesCanBeRead, Reads
  <2>2. StripHasFrame'
    BY <1>3, <1>7, Zenon DEF StripHasFrame
  <2>3. GoodRunsAreFrames'
    BY <1>3, <1>4, <1>7, Zenon DEF GoodRunsAreFrames, Covers, OneFrame
  <2>4. mode' = "blind" => Slots' >= 1 /\ \A i \in DOMAIN Runs' : ~(ShortOf < Runs'[i].len /\ Runs'[i].len < LongOf)
    BY <1>3, <1>7, Zenon DEF OneFrame
  <2> QED BY <1>2, <2>1, <2>2, <2>3, <2>4, Zenon DEF FrameInv, FramesAreSound, OneFrame
<1>8. CASE FullPass /\ ~(Slots < 1)
  <2>1. PICK rs : rs = Rects(Detected)
    OBVIOUS
  <2>2. rects' = rs /\ mode' = (IF rs = <<>> THEN "blind" ELSE "done") /\ Slots >= 1
    BY <1>2, <1>8, <2>1, SizesAre DEF FullPass, Nothing
  <2>3. /\ \A i \in DOMAIN rs : Reads(rs[i])
        /\ \A i \in DOMAIN Runs : OneFrame(Runs[i]) => \E k \in DOMAIN rs : Covers(rs[k], Runs[i])
    BY <1>2, <2>1, <2>2, DetectedIsSound
  <2>4. mode' = "done" => rs # <<>>
    BY <2>2
  <2>5. ASSUME mode' = "blind" PROVE \A i \in DOMAIN Runs : ~OneFrame(Runs[i])
    <3>1. rs = <<>>
      BY <2>2, <2>5
    <3>2. DOMAIN rs = {}
      BY <3>1
    <3> QED BY <2>3, <3>2
  <2> QED BY <1>7, <2>2, <2>3, <2>4, <2>5
<1>9. CASE FullPass /\ Slots < 1
  <2>1. rects' = <<>> /\ mode' = "done" /\ ~(Slots >= 1)
    BY <1>2, <1>9, SizesAre DEF FullPass
  <2>2. \A i \in DOMAIN Runs : ~OneFrame(Runs[i])
    BY <1>2, <2>1, ShortHasNone
  <2>3. PICK rs : rs = <<>> /\ DOMAIN rs = {}
    OBVIOUS
  <2> QED BY <1>7, <2>1, <2>2, <2>3
<1>10. CASE BlindPass
  <2>1. PICK rs : rs = Rects(Blind)
    OBVIOUS
  <2>2. rects' = rs /\ mode' = "done" /\ mode = "blind"
    BY <1>10, <2>1 DEF BlindPass
  <2>3. Slots >= 1 /\ \A i \in DOMAIN Runs : ~OneFrame(Runs[i])
    BY <2>2 DEF FrameInv
  <2>4. rs # <<>> /\ \A i \in DOMAIN rs : Reads(rs[i])
    BY <1>2, <2>1, <2>3, BlindIsSound
  <2> QED BY <1>7, <2>2, <2>3, <2>4
<1>11. CASE UNCHANGED frameVars
  <2>1. rects' = rects /\ mode' = mode
    BY <1>11 DEF frameVars
  <2>2. FramesAreSound /\ (mode = "blind" => Slots >= 1 /\ \A i \in DOMAIN Runs : ~OneFrame(Runs[i]))
    BY DEF FrameInv
  <2>3. PICK rs : rs = rects
    OBVIOUS
  <2>4. /\ \A i \in DOMAIN rs : Reads(rs[i])
        /\ mode' = "done" /\ Slots >= 1 => rs # <<>>
        /\ mode' = "done" => \A i \in DOMAIN Runs : OneFrame(Runs[i]) => \E k \in DOMAIN rs : Covers(rs[k], Runs[i])
    BY <2>1, <2>2, <2>3, SoundIs, Zenon
  <2> QED BY <1>7, <2>1, <2>2, <2>3, <2>4
<1> QED BY <1>8, <1>9, <1>10, <1>11 DEF FrameNext

(* What the detector promises holds of every strip: whatever its runs,     *)
(* the scan's geometry and its ends (pkf_frame_ex).                        *)
THEOREM FramesStaySound == FrameSpec => []FramesAreSound
<1>1. FrameInit => FrameInv
  BY FrameBegins
<1>2. FrameInv /\ [FrameNext]_frameVars => FrameInv'
  BY FrameGoesOn
<1>3. FrameInv => FramesAreSound
  BY DEF FrameInv
<1> QED BY <1>1, <1>2, <1>3, PTL DEF FrameSpec

=============================================================================
