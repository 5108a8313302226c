-------------------------------- MODULE DxTable --------------------------------
(***************************************************************************)
(* The end of a strip's DX (core/src/boards/dx.c, 35 mm): the frame table  *)
(* is cleaned of impossible lines, its gaps are filled and it is extended  *)
(* to all entries (gap_fill), a code is chosen that most others agree with *)
(* (anchor), and every entry's code is counted from it (extrapolate).  A   *)
(* table is its entries, of which the last overlaps the perforation        *)
(* counters, and its count; an entry's flags say how it came by its line   *)
(* and its code.                                                           *)
(***************************************************************************)
EXTENDS Integers, Sequences, FiniteSetsExt

CONSTANTS
  ENTRIES,      \* entries (100)
  M,          \* the word's modulus (2^32)
  BIG,        \* the line counter's range (0x10000, half of it for four planes)
  SPACING,    \* hole+0xb64: lines between two half-frames
  LEAD,       \* entries put before the first frame at least (5)
  FILM,       \* hole+0x3c: the line of the film's begin
  TABLES(_)   \* what a strip, head or tail first, may have read: sequences of [code, line]

ASSUME DxTableAssumption ==
  /\ {ENTRIES, M, BIG, SPACING, LEAD} \subseteq Nat \ {0} /\ FILM \in Nat

INVALID == -1000     \* a code that is none

VARIABLES
  read, head_first,   \* the strip's table as it was read, and which way
  done, out           \* what the analysis made of it

tvars == <<read, head_first, done, out>>
LOW == SPACING - SPACING \div 8
HIGH == SPACING + SPACING \div 8
Less(a, b) == (a - b) % M
Read(e) == ~e.a /\ ~e.b

(* FUN_10014470                                                            *)
Removed(t, p) ==
  [n |-> t.n - 1, e |-> [i \in DOMAIN t.e |-> IF p <= i /\ i <= ENTRIES - 3 THEN t.e[i + 1] ELSE t.e[i]]]

(* FUN_10014350: as many entries as the table has room for, after `at` a   *)
(* spacing apart, or before it and no line below zero.                     *)
Fits(t, count) == Min({count, ENTRIES - t.n})
Insert(t, count, at, after) ==
  LET c == Fits(t, count)
      lo == IF after THEN at + 1 ELSE at
      hi == lo + c - 1
      n == t.n + c
      Old(i) == IF hi < i /\ i < n THEN t.e[i - c] ELSE t.e[i]
      Line(i) == IF after THEN (t.e[lo - 1].line + (i - lo + 1) * SPACING) % M
                 ELSE Max({Old(hi + 1).line - (hi + 1 - i) * SPACING, 0})
  IN [n |-> n, e |-> [i \in DOMAIN t.e |->
        IF lo <= i /\ i <= hi THEN [code |-> INVALID, line |-> Line(i), a |-> TRUE, b |-> FALSE] ELSE Old(i)]]

-----------------------------------------------------------------------------
(* FUN_10014a10                                                            *)

(* The distance of a gap from a whole number of spacings, per frame.       *)
Cost(gap) ==
  LET q == gap \div SPACING
  IN Min({((q + 1) * SPACING - gap) \div (q + 1), (gap - SPACING * q) \div (q + 1)})

(* One line that is a counter's range too far is brought back when both    *)
(* its neighbours then fit.                                                *)
TooFar(t, i) ==
  LET Gap(k) == Less(t.e[k + 1].line, t.e[k].line)
  IN /\ i < t.n - 2 /\ Gap(i) - BIG \in LOW..HIGH
     /\ (Gap(i + 1) + BIG) % M \in LOW..HIGH

RECURSIVE Cleaned(_, _, _)
Cleaned(t, i, cost) ==
  IF i >= t.n - 1 THEN [t |-> t, cost |-> cost]
  ELSE LET l0 == t.e[i].line
           l1 == t.e[i + 1].line
           gap == Less(l1, l0)
       IN IF gap \div SPACING < 7 THEN Cleaned(t, i + 1, [cost EXCEPT ![i] = Cost(gap)])
          ELSE IF l0 < l1
          THEN IF gap <= BIG THEN Cleaned(t, i + 1, cost)
               ELSE IF TooFar(t, i) THEN Cleaned([t EXCEPT !.e[i + 1].line = l1 - BIG], i + 1, cost)
               ELSE Cleaned(Removed(t, i + 1), i, cost)
          ELSE Cleaned(Removed(t, IF i = 0 THEN 0 ELSE i + 1), i, cost)

(* The best-placed entry; the gaps after it and before it are filled.      *)
Best(cost, lim) ==
  IF \A k \in 0..lim - 1 : cost[k] = M THEN 0
  ELSE CHOOSE k \in 0..lim - 1 :
         \A j \in 0..lim - 1 : cost[k] < cost[j] \/ (cost[k] = cost[j] /\ k <= j)
Missing(gap) ==
  LET c == gap \div SPACING IN IF gap - SPACING * c <= SPACING \div 2 THEN c - 1 ELSE c

RECURSIVE FilledAfter(_, _)
FilledAfter(t, k) ==
  IF k >= t.n - 1 THEN t
  ELSE LET gap == Less(t.e[k + 1].line, t.e[k].line)
       IN IF gap < LOW THEN FilledAfter(Removed(t, k + 1), k)
          ELSE IF gap > HIGH
          THEN FilledAfter(Insert(t, Missing(gap), k, TRUE), k + 1 + Fits(t, Missing(gap)))
          ELSE FilledAfter(t, k + 1)

RECURSIVE FilledBefore(_, _)
FilledBefore(t, b) ==
  IF b <= 0 THEN t
  ELSE LET gap == Less(t.e[b].line, t.e[b - 1].line)
       IN FilledBefore(IF gap < LOW THEN Removed(t, b - 1)
                       ELSE IF gap > HIGH THEN Insert(t, Missing(gap), b, FALSE) ELSE t, b - 1)

(* The film's first frame gets at least LEAD entries before it, and the    *)
(* table is filled to its end.                                             *)
GapFilled(t0) ==
  LET c == Cleaned(t0, 0, [k \in 0..ENTRIES - 1 |-> M])
      best == Best(c.cost, c.t.n - 1)
      f == FilledBefore(FilledAfter(c.t, best), best)
      Frames == {k \in DOMAIN f.e : Read(f.e[k]) /\ FILM <= f.e[k].line}
      first == IF Frames = {} THEN 0 ELSE Min(Frames)
      led == Insert(f, Max({LEAD, Less(f.e[first].line, FILM) \div SPACING}), 0, FALSE)
  IN Insert(led, ENTRIES, led.n - 1, TRUE)

-----------------------------------------------------------------------------
(* FUN_100144b0: of the valid codes, the one that most others confirm,     *)
(* from the middle outwards; the last is not asked.  -1: too few do.  A     *)
(* table read backwards whose entry 0 is valid is taken at its end (dx.c:744). *)
Step == IF head_first THEN 1 ELSE -1
Anchor_Unasked(e, n0) == Max({k \in 0..ENTRIES - 1 : e[k].code >= -6} \cup {-1})
Anchor(e, n0) ==
  LET Ok == {k \in 0..ENTRIES - 1 : e[k].code >= -6}
      lo == Min(Ok)
      hi == Max(Ok)
      mid == lo + (hi - lo) \div 2
      Votes(k) == Cardinality({j \in Ok : j < hi /\ e[j].code = e[k].code + Step * (j - k)})
      down == CHOOSE k \in lo..mid : \A j \in lo..mid : Votes(j) < Votes(k) \/ (Votes(j) = Votes(k) /\ j <= k)
      most == Max({Votes(k) : k \in lo..hi - 1})
      up == Min({k \in mid..hi - 1 : Votes(k) = most})
  IN IF Ok = {} THEN -1
     ELSE IF lo = hi \/ (~head_first /\ lo = 0) THEN hi
     ELSE IF most < (IF n0 \div 8 < 3 THEN 1 ELSE 2) THEN -1
     ELSE IF Votes(down) = most THEN down ELSE up

(* FUN_100147a0, FUN_10014820                                              *)
Extrapolated(e, p) ==
  [k \in DOMAIN e |->
     LET want == e[p].code + Step * (k - p)
     IN IF k = ENTRIES \/ e[k].code = want THEN e[k] ELSE [e[k] EXCEPT !.code = want, !.b = TRUE]]

-----------------------------------------------------------------------------
Entry(r) == [code |-> r.code, line |-> r.line, a |-> FALSE, b |-> FALSE]
Blank == Entry([code |-> 0, line |-> 0])
AsRead(s) == [n |-> Len(s), e |-> [k \in 0..ENTRIES |-> IF k < Len(s) THEN Entry(s[k + 1]) ELSE Blank]]

(* FUN_100150e0 up to the speed analysis                                   *)
AnalysedOf(s) ==
  LET g == GapFilled(AsRead(s))
      p == Anchor(g.e, Len(s))
      good == Cardinality({k \in 0..ENTRIES - 1 : Read(g.e[k])})
  IN [ok |-> p # -1, good |-> good, e |-> IF p # -1 THEN Extrapolated(g.e, p) ELSE g.e]

TableInit ==
  /\ head_first \in BOOLEAN /\ read \in TABLES(head_first)
  /\ done = FALSE /\ out = [ok |-> FALSE, good |-> 0, e |-> <<>>]
AnalyseTable == ~done /\ done' = TRUE /\ out' = AnalysedOf(read) /\ UNCHANGED <<read, head_first>>

-----------------------------------------------------------------------------
(* What the table tells of the film                                        *)

(* The strip of regular film the tables are read from: its frames' lines   *)
(* and codes.                                                              *)
CodeOf(frame) == IF head_first THEN 10 + frame ELSE 30 - frame
CodeAt(line) == CodeOf((line - FILM - SPACING \div 2) \div SPACING)
Right == {k \in DOMAIN read : read[k].line < BIG /\ read[k].code = CodeAt(read[k].line)}
Wrong == {k \in DOMAIN read : read[k].code \notin {INVALID, CodeAt(read[k].line % BIG)}}

(* Whatever the reader missed of a regular film - frames not seen, words   *)
(* without a code, an edge a line off, one that is a counter's range too   *)
(* far -, every entry of the finished table has the code the film has at   *)
(* the entry's line, as long as a wrong code is outvoted: by two right ones*)
(* that are not the strip's last, which has no vote.                       *)
CodesAreTheFilms ==
  done /\ out.ok /\ (Wrong = {} \/ Cardinality(Right \ {Max(Right \cup Wrong)}) > 1) =>
    \A k \in 0..ENTRIES - 1 : out.e[k].line > 0 => out.e[k].code = CodeAt(out.e[k].line)

(* The finished table goes through the film in its order, a spacing at a   *)
(* time, from the film's begin; and no more entries count as read than     *)
(* were.                                                                   *)
EntriesAreSpaced ==
  done =>
    /\ out.good <= Len(read)
    /\ \A k \in 1..ENTRIES - 1 :
         \/ out.e[k].line - out.e[k - 1].line \in LOW..HIGH
         \/ out.e[k - 1].line = 0 /\ out.e[k].line <= HIGH

(* A line that Dx!LinesAreTrue leaves a counter's range too far is brought *)
(* back, when the frames beside it were read: all the strip's entries are  *)
(* used.                                                                   *)
Far == {k \in DOMAIN read : read[k].line >= BIG}
RangeIsUndone ==
  done /\ Far \subseteq 2..Len(read) - 1
       /\ (\A k \in Far : {read[k].line - BIG - read[k - 1].line, read[k + 1].line - (read[k].line - BIG)} \subseteq LOW..HIGH)
    => out.good = Len(read)

(* What the finished table says of the film.                               *)
TableIsTheFilms == CodesAreTheFilms /\ EntriesAreSpaced /\ RangeIsUndone
=============================================================================
