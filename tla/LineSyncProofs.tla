--------------------------- MODULE LineSyncProofs ---------------------------
(***************************************************************************)
(* The lines of a scan are a matter of the bytes the scanner sends and of  *)
(* the re-arms, however the USB reads cut the bytes into chunks: for every *)
(* length of a line, search window, number of skipped words and chunk size *)
(* the callback gets whole lines, no line start is passed over, and each   *)
(* byte is counted once.                                                   *)
(*                                                                         *)
(* The invariant LineInv speaks of the piece of a chunk still to be looked *)
(* at, From to To. It is kept by each of the ways sync_chunk goes on with a*)
(* piece, which are the steps of LineSync; tap_lines, which two of them    *)
(* call, has lemmas of its own.                                            *)
(***************************************************************************)
EXTENDS LineSync, SequenceTheorems, FunctionTheorems, FiniteSetTheorems, WellFoundedInduction, TLAPS

(* No error so far.                                                        *)
IsOk == chunk.sy = "OK"
(* The end of the word that n lies in or begins.                           *)
Up(n) == n + (n % 2)
(* A run of n successive bytes.                                            *)
Run(from, n) == [k \in 1..n |-> from + k - 1]
(* A line as the callback gets it.                                         *)
Line == [seg : Nat, line : Nat, off : Nat, data : Seq(Nat)]

(* Types and ranges. Between two chunks there is no chunk, and the piece   *)
(* still to be looked at never reaches past MAX_BYTES.                     *)
NumInv ==
  /\ skip0 \in Nat /\ resync \in BOOLEAN /\ synced \in BOOLEAN /\ rd \in {"loop", "sync"}
  /\ chunk = [put |-> chunk.put, at |-> chunk.at, sy |-> chunk.sy]
  /\ chunk.put \in Nat /\ chunk.at \in 0..chunk.put /\ chunk.sy \in {"OK", "LOST_SYNC", "NOMEM"}
  /\ rd = "loop" => chunk.put = 0
  /\ bytes \in Nat /\ To <= MAX_BYTES
  /\ origin \in 0..MAX_BYTES /\ origin % 2 = 0
  /\ search_start \in 0..MAX_BYTES + 1 /\ search_start % 2 = 0
  /\ lines_base \in Nat /\ lead_bytes \in Nat /\ tap_line \in Nat
  /\ left \in 0..WINDOW /\ skip \in 0..skip0
  /\ cuts \in Seq([from : Nat, to : Nat]) /\ tap_seg = Len(cuts)
  /\ marks \subseteq Words(0, To)
  /\ lines \in Seq(Line)

(* The tap lies a whole number of lines behind the origin, and that many   *)
(* lines have been counted for it; what waits in pend are the bytes from   *)
(* there to the piece. After a line start was found and before its first   *)
(* bytes are tapped, the tap is unset and the start lies in the piece.     *)
TapInv ==
  /\ tap_next = Unset => pend = <<>>
  /\ ~synced => tap_next = Unset
  /\ synced => origin \in marks
  /\ tap_next # Unset =>
       /\ tap_next \in origin..MAX_BYTES /\ pend = Run(tap_next, Len(pend)) /\ Len(pend) \in 0..LB-1
       /\ \E m \in 0..MAX_BYTES : tap_next = origin + m * LB /\ tap_line = lines_base + m
  /\ Len(lines) = TapLine
  /\ synced /\ IsOk =>
       IF tap_next = Unset THEN rd = "sync" /\ From <= origin /\ origin < To
       ELSE tap_next + Len(pend) = From /\ (tap_next < From => tap_next \in marks)

(* The search: skip words are still to be dropped, in segment 0 alone, and *)
(* then left words to be looked at, which end where the window does. A     *)
(* search that begins behind an odd byte is ahead of the bytes. All words  *)
(* passed over have bit 0 clear, but for those that segment 0 drops.       *)
SearchInv ==
  /\ skip > 0 => ~synced /\ tap_seg = 0 /\ search_start = 0 /\ (IsOk => Up(From) + 2 * skip <= 2 * skip0)
  /\ IsOk /\ ~synced =>
       /\ search_start <= Up(From)
       /\ search_start > From => \E c \in DOMAIN cuts : cuts[c].to = From
       /\ ~resync => left >= 1 /\ Up(From) + 2 * skip + 2 * left = WindowEnd
       /\ \A o \in marks : search_start <= o /\ o < From => o < 2 * skip0 /\ tap_seg = 0

(* What has been looked at ends at the piece, or at a line start just      *)
(* found.                                                                  *)
Seen == IF synced /\ tap_next = Unset THEN origin ELSE From
InLine(o) == \E i \in 1..Len(lines) : lines[i].off <= o /\ o < lines[i].off + LB
InCut(o) == \E c \in 1..Len(cuts) : cuts[c].from <= o /\ o < cuts[c].to
IsDropped(o) == o < 2 * skip0 /\ (cuts # <<>> => o < cuts[1].to)
(* A word with bit 0 set that has been looked at is in a line, was cut off *)
(* by a re-arm, was dropped at the start of segment 0, or waits in the tap.*)
MarksInv ==
  IsOk => \A o \in marks : o < Seen => InLine(o) \/ InCut(o) \/ IsDropped(o) \/ (synced /\ o >= TapNext)

(* The lines handed out end at Edge, as does all that was cut off. Line i  *)
(* of ls is whole, lies behind line i - 1, and is on the right side of     *)
(* every re-arm.                                                           *)
Edge == IF synced THEN TapNext ELSE From
LineOk(ls, e, i) == LET l == ls[i] IN
  /\ l.line = i - 1 /\ l.off \in marks /\ l.data = Run(l.off, LB)
  /\ l.off + LB <= e /\ l.seg <= tap_seg
  /\ i > 1 => ls[i-1].off + LB <= l.off /\ ls[i-1].seg <= l.seg
  /\ \A c \in 1..Len(cuts) : IF l.seg < c THEN l.off + LB <= cuts[c].to ELSE l.off >= cuts[c].to
LinesInv ==
  /\ \A i \in 1..Len(lines) : LineOk(lines, Edge, i)
  /\ \A c \in 1..Len(cuts) : cuts[c].to <= Edge /\ cuts[c].to <= bytes

(* The starts of the segments: what the table holds of a segment is its    *)
(* first line, or the line start whose line is not handed out yet.         *)
LastIsOfSeg == Len(lines) > 0 /\ lines[Len(lines)].seg = tap_seg
StartsInv ==
  /\ DOMAIN seg_start \subseteq 0..tap_seg
  /\ \A i \in 1..Len(lines) :
       /\ lines[i].seg \in DOMAIN seg_start
       /\ (i = 1 \/ lines[i-1].seg < lines[i].seg) => seg_start[lines[i].seg] = [off |-> lines[i].off, line |-> lines[i].line]
  /\ ~synced => (tap_seg \in DOMAIN seg_start => LastIsOfSeg)
  /\ synced /\ IsOk => tap_seg \in DOMAIN seg_start
  /\ synced /\ IsOk /\ ~LastIsOfSeg =>
       TapNext = origin /\ TapLine = lines_base /\ seg_start[tap_seg] = [off |-> origin, line |-> lines_base]

(* Sync is lost only for a reason: a line start is missing, or a whole     *)
(* window has no word with bit 0 set.                                      *)
LostInv ==
  chunk.sy = "LOST_SYNC" =>
    /\ ~resync
    /\ IF synced THEN \E o \in origin..To-1 : (o - origin) % LB = 0 /\ o \notin marks
       ELSE To >= WindowEnd - 1 /\ Words(search_start + Dropped, WindowEnd) \cap marks = {}

(* What was counted before the present grid or search, as lines and as     *)
(* lead, are all bytes up to its beginning. A read that brings nothing can *)
(* take a re-arm behind an odd byte twice, and count that byte twice.      *)
CountInv == ~EMPTY_READS => lines_base * LB + lead_bytes = IF synced THEN origin ELSE search_start

(* The inductive invariant: LinesAreOfTheBytes tells of the bytes between  *)
(* two chunks, and this tells of them in the midst of one, at each piece of*)
(* it.                                                                     *)
LineInv == NumInv /\ TapInv /\ SearchInv /\ MarksInv /\ LinesInv /\ StartsInv /\ LostInv /\ CountInv

-----------------------------------------------------------------------------
(* Arithmetic                                                              *)

(* A line has an even number of bytes.                                     *)
LEMMA EvenLines == \E w \in Nat : LB = 2 * w
BY LineAssumption

(* The other constants.                                                    *)
LEMMA Numbers ==
  /\ LB \in Nat /\ LB >= 2 /\ WINDOW \in Nat /\ WINDOW >= 1
  /\ CHUNK \in Nat /\ MAX_BYTES \in Nat
<1>1. PICK w \in 1..MAX_BYTES : LB = 2 * w
  BY LineAssumption
<1> QED BY <1>1, LineAssumption

(* The multiples of a line's length.                                       *)
LEMMA LinesAt ==
  ASSUME NEW m \in Nat
  PROVE  m * LB \in Nat /\ (m * LB) % 2 = 0 /\ m <= m * LB /\ (m + 1) * LB = m * LB + LB
<1>1. PICK w \in Nat : LB = 2 * w
  BY EvenLines
<1>2. m * LB = 2 * (m * w) /\ m * w \in Nat
  BY <1>1
<1>3. (m + 1) * LB = m * LB + LB
  BY Numbers
<1>4. m <= m * LB
  <2>1. LB = 1 + (LB - 1) /\ LB - 1 \in Nat
    BY Numbers
  <2>2. m * LB = m + m * (LB - 1) /\ m * (LB - 1) \in Nat
    BY <2>1
  <2> QED BY <2>2
<1> QED BY <1>2, <1>3, <1>4

(* Two ways to write a number as lines and a rest differ by no line.       *)
LEMMA Apart ==
  ASSUME NEW m \in Nat, NEW q \in Int, NEW r \in 0..LB-1, NEW t \in 0..LB-1, m * LB + r = q * LB + t
  PROVE  q = m
<1>1. \A a, b \in Int, x, y \in 0..LB-1 : a + x = b + y => a < b + LB /\ b < a + LB
  BY Numbers
<1>2. m * LB \in Int /\ q * LB \in Int
  BY Numbers
<1>3. m * LB < q * LB + LB /\ q * LB < m * LB + LB
  BY <1>1, <1>2
<1>4. \A a, b \in Int : a > b => \E d \in Nat : a = b + 1 + d
  <2> TAKE a, b \in Int
  <2> HAVE a > b
  <2> WITNESS a - b - 1 \in Nat
  <2> QED OBVIOUS
<1>5. \A b \in Int, d \in Nat : (b + 1 + d) * LB = b * LB + LB + d * LB /\ d * LB \in Nat
  BY LinesAt, Numbers
<1>6. \A a, b \in Int : a > b => a * LB >= b * LB + LB
  <2> SUFFICES ASSUME NEW b \in Int, NEW d \in Nat
               PROVE  (b + 1 + d) * LB >= b * LB + LB
    BY <1>4
  <2>1. \A x, y \in Int, z \in Nat : x = y + LB + z => x >= y + LB
    BY Numbers
  <2>2. (b + 1 + d) * LB \in Int /\ b * LB \in Int
    BY Numbers
  <2> QED BY <1>5, <2>1, <2>2
<1>7. \A x, y \in Int : x < y + LB => ~ (x >= y + LB)
  BY Numbers
<1>8. ~ (m > q) /\ ~ (q > m)
  BY <1>2, <1>3, <1>6, <1>7
<1> QED BY <1>8

(* Division of a number of lines and a rest.                               *)
LEMMA DivIs ==
  ASSUME NEW m \in Nat, NEW r \in 0..LB-1
  PROVE  (m * LB + r) \div LB = m /\ (m * LB + r) % LB = r
<1> DEFINE x == m * LB + r
           q == x \div LB
           t == x % LB
<1>1. x \in Nat /\ LB \in Nat \ {0}
  BY LinesAt, Numbers
<1>2. x = LB * q + t /\ t \in 0..LB-1 /\ q \in Int
  <2> HIDE DEF x
  <2> QED BY <1>1, Z3
<1> HIDE DEF q, t
<1>3. x = m * LB + r
  OBVIOUS
<1> HIDE DEF x
<1>4. q = m
  <2>1. LB * q = q * LB
    BY <1>2, Numbers
  <2> QED BY <1>2, <1>3, <2>1, Apart
<1>5. t = r
  BY <1>1, <1>2, <1>3, <1>4, LinesAt
<1> QED BY <1>4, <1>5 DEF q, t, x

(* Every number is a number of lines and a rest.                           *)
LEMMA DivExists ==
  ASSUME NEW x \in Nat
  PROVE  \E m \in 0..x, r \in 0..LB-1 : x = m * LB + r
<1> DEFINE q == x \div LB
           t == x % LB
<1>1. x = LB * q + t /\ t \in 0..LB-1 /\ q \in Int
  BY Numbers, Z3
<1> HIDE DEF q, t
<1>2. q \in Nat
  <2>1. SUFFICES ASSUME q < 0 PROVE FALSE
    BY <1>1
  <2>2. PICK d \in Nat : q = -1 - d
    BY <1>1, <2>1
  <2>3. LB * q = -LB - d * LB /\ d * LB \in Nat
    BY <2>2, LinesAt, Numbers
  <2> QED BY <1>1, <2>3, Numbers
<1>3. q <= x
  BY <1>1, <1>2, LinesAt, Numbers
<1> QED BY <1>1, <1>2, <1>3, Numbers

(* The next even number.                                                   *)
LEMMA UpIs ==
  ASSUME NEW n \in Nat
  PROVE  /\ Up(n) \in Nat /\ Up(n) % 2 = 0 /\ n <= Up(n) /\ Up(n) <= n + 1 /\ (n % 2 = 0 => Up(n) = n)
         /\ \A o \in Nat : o % 2 = 0 /\ n <= o => Up(n) <= o
BY DEF Up

(* The least of a non-empty set of numbers.                                *)
LEMMA LeastIs ==
  ASSUME NEW S \in SUBSET Nat, S # {}
  PROVE  Min(S) \in S /\ \A y \in S : Min(S) <= y
<1>0. \E x \in S : \A y \in S : ~ (<<y, x>> \in OpToRel(<, Nat))
  BY NatLessThanWellFounded, WFMin
<1>1. PICK x \in S : \A y \in S : ~ (<<y, x>> \in OpToRel(<, Nat))
  BY <1>0
<1>2. \A y \in S : ~ (y < x)
  BY <1>1 DEF OpToRel
<1>3. \A y \in S : x <= y
  BY <1>2
<1> QED BY <1>3 DEF Min

(* The lesser of two numbers.                                              *)
LEMMA LesserIs ==
  ASSUME NEW a \in Nat, NEW b \in Nat
  PROVE  Min({a, b}) = IF a <= b THEN a ELSE b
<1>1. Min({a, b}) \in {a, b} /\ \A y \in {a, b} : Min({a, b}) <= y
  BY LeastIs
<1> QED BY <1>1

(* The number of words between two places.                                 *)
LEMMA WordsCount ==
  ASSUME NEW a \in Nat, NEW b \in Nat
  PROVE  /\ IsFiniteSet(Words(a, b))
         /\ Cardinality(Words(a, b)) \in Nat
         /\ 2 * Cardinality(Words(a, b)) = IF a <= b THEN Up(b) - Up(a) ELSE 0
<1> DEFINE l == (a + 1) \div 2
           h == (b + 1) \div 2
           I == l..(h - 1)
           f == [n \in I |-> 2 * n]
<1>1. l \in Nat /\ h \in Nat /\ 2 * l = Up(a) /\ 2 * h = Up(b)
  BY DEF Up
<1>2. IsFiniteSet(I) /\ Cardinality(I) = IF l <= h - 1 THEN h - 1 - l + 1 ELSE 0
  BY <1>1, FS_Interval
<1> HIDE DEF l, h
<1>3. f \in Bijection(I, Words(a, b))
  <2>1. \A n \in I : 2 * n \in Words(a, b)
    BY <1>1 DEF Words, Up
  <2>2. \A o \in Words(a, b) : \E n \in I : o = 2 * n
    <3> TAKE o \in Words(a, b)
    <3>1. o \in Nat /\ o % 2 = 0 /\ a <= o /\ o < b
      BY DEF Words
    <3>2. PICK n \in Nat : o = 2 * n
      BY <3>1
    <3> QED BY <1>1, <3>1, <3>2 DEF Up
  <2>3. \A m, n \in I : 2 * m = 2 * n => m = n
    BY <1>1
  <2>4. f \in [I -> Words(a, b)]
    BY <2>1
  <2>5. \A m, n \in I : f[m] = f[n] => m = n
    BY <2>3
  <2>6. \A o \in Words(a, b) : \E n \in I : f[n] = o
    BY <2>2
  <2> HIDE DEF f
  <2> QED BY <2>4, <2>5, <2>6, Fun_IsBij
<1>4. IsFiniteSet(Words(a, b)) /\ Cardinality(Words(a, b)) = Cardinality(I)
  BY <1>2, <1>3, FS_Bijection DEF ExistsBijection
<1>5. a <= b => Up(a) <= Up(b)
  BY DEF Up
<1>6. a > b => Up(b) <= Up(a)
  BY DEF Up
<1> QED BY <1>1, <1>2, <1>4, <1>5, <1>6

-----------------------------------------------------------------------------
(* The search                                                              *)

(* The first word the search looks at, and the one where it ends.          *)
Base == Up(From) + 2 * skip
Reach == Base + 2 * left

(* The numbers of the invariant.                                           *)
LEMMA Places ==
  ASSUME NumInv
  PROVE  /\ bytes \in Nat /\ From \in Nat /\ To \in Nat /\ bytes <= From /\ From <= To /\ To <= MAX_BYTES
         /\ skip \in Nat /\ left \in Nat /\ left <= WINDOW /\ skip <= skip0 /\ skip0 \in Nat
         /\ \A o \in marks : o \in Nat /\ o % 2 = 0 /\ o < To
<1>1. bytes \in Nat /\ chunk.put \in Nat /\ chunk.at \in 0..chunk.put /\ To <= MAX_BYTES
  BY DEF NumInv
<1>2. skip \in Nat /\ left \in Nat /\ left <= WINDOW /\ skip <= skip0 /\ skip0 \in Nat
  BY Numbers DEF NumInv
<1>3. From \in Nat /\ To \in Nat /\ bytes <= From /\ From <= To
  BY <1>1 DEF From, To
<1>4. \A o \in marks : o \in Nat /\ o % 2 = 0 /\ o < To
  <2>1. marks \subseteq Words(0, To)
    BY DEF NumInv
  <2> QED BY <1>3, <2>1 DEF Words
<1> QED BY <1>1, <1>2, <1>3, <1>4

(* The words of a range, one by one.                                       *)
LEMMA MembersOfWords ==
  ASSUME NEW a \in Nat, NEW b \in Nat, NEW o
  PROVE  o \in Words(a, b) <=> o \in Nat /\ o % 2 = 0 /\ a <= o /\ o < b
BY DEF Words

(* The words looked at: those behind the skipped ones, and outside resync  *)
(* mode within what is left of the window.                                 *)
LEMMA SearchedIs ==
  ASSUME NumInv, InPiece
  PROVE  /\ Base \in Nat /\ Base % 2 = 0 /\ From <= Base /\ Reach \in Nat /\ Reach % 2 = 0
         /\ AfterSkip = {o \in Words(From, To) : Base <= o}
         /\ Searched = {o \in Words(From, To) : Base <= o /\ (resync \/ o < Reach)}
<1>1. Base \in Nat /\ Base % 2 = 0 /\ From <= Base /\ Reach \in Nat /\ Reach % 2 = 0 /\ Up(Base) = Base /\ Up(From) <= Base
  BY Places, UpIs DEF Base, Reach, Up
<1>2. ASSUME NEW o \in Words(From, To)
      PROVE  2 * Before(o, Words(From, To)) = o - Up(From) /\ Before(o, Words(From, To)) \in Nat
  <2>1. o \in Nat /\ o % 2 = 0 /\ From <= o /\ o < To
    BY Places, MembersOfWords
  <2>2. {p \in Words(From, To) : p < o} = Words(From, o)
    BY <2>1, Places DEF Words
  <2>3. Up(o) = o
    BY <2>1, UpIs
  <2> QED BY <2>1, <2>2, <2>3, Places, WordsCount DEF Before
<1>3. AfterSkip = {o \in Words(From, To) : Base <= o}
  <2>1. ASSUME NEW o \in Words(From, To) PROVE Before(o, Words(From, To)) >= skip <=> Base <= o
    <3>1. o \in Nat /\ skip \in Nat /\ Up(From) \in Nat
      BY Places, MembersOfWords, UpIs
    <3>2. Before(o, Words(From, To)) \in Nat /\ 2 * Before(o, Words(From, To)) = o - Up(From)
      BY <1>2
    <3> QED BY <3>1, <3>2 DEF Base
  <2> QED BY <2>1 DEF AfterSkip
<1>4. ASSUME NEW o \in AfterSkip PROVE Before(o, AfterSkip) < left <=> o < Reach
  <2>1. o \in Nat /\ o % 2 = 0 /\ From <= o /\ o < To /\ Base <= o
    BY <1>3, Places, MembersOfWords
  <2>2. {p \in AfterSkip : p < o} = Words(Base, o)
    <3>1. \A p : p \in Words(From, To) <=> p \in Nat /\ p % 2 = 0 /\ From <= p /\ p < To
      BY Places, MembersOfWords
    <3>2. \A p : p \in Words(Base, o) <=> p \in Nat /\ p % 2 = 0 /\ Base <= p /\ p < o
      BY <1>1, <2>1, MembersOfWords
    <3> QED BY <1>1, <1>3, <2>1, <3>1, <3>2, Places
  <2>3. Up(o) = o
    BY <2>1, UpIs
  <2>4. 2 * Before(o, AfterSkip) = o - Base /\ Before(o, AfterSkip) \in Nat
    BY <1>1, <2>1, <2>2, <2>3, WordsCount DEF Before
  <2> QED BY <1>1, <2>1, <2>4, Places DEF Reach
<1>5. Searched = {o \in Words(From, To) : Base <= o /\ (resync \/ o < Reach)}
  <2>1. CASE resync
    BY <1>3, <2>1 DEF Searched
  <2>2. CASE ~resync
    <3>1. Searched = {o \in AfterSkip : o < Reach}
      BY <1>4, <2>2 DEF Searched
    <3> QED BY <1>3, <2>2, <3>1
  <2> QED BY <2>1, <2>2
<1> QED BY <1>1, <1>3, <1>5

(* What a piece without a line start leaves to skip and of the window.     *)
LEMMA SearchesOnTo ==
  ASSUME NumInv, InPiece, ~resync => left >= 1
  PROVE  LET s == skip - Min({skip, Cardinality(Words(From, To))})
             l == LeftAfter(Searched)
         IN /\ s \in 0..skip /\ l \in 0..left
            /\ s > 0 => Up(To) + 2 * s = Base
            /\ ~resync => IF l = 0 THEN To >= Reach - 1 ELSE Up(To) + 2 * s + 2 * l = Reach /\ To < Reach
<1> DEFINE n == Cardinality(Words(From, To))
           s == skip - Min({skip, n})
           l == LeftAfter(Searched)
<1>1. Base \in Nat /\ Base % 2 = 0 /\ From <= Base /\ Reach \in Nat /\ Reach % 2 = 0 /\ Base = Up(From) + 2 * skip /\ Reach = Base + 2 * left
  BY SearchedIs DEF Base, Reach
<1>2. n \in Nat /\ 2 * n = Up(To) - Up(From)
  BY Places, WordsCount
<1>3. Min({skip, n}) = IF skip <= n THEN skip ELSE n
  BY <1>2, Places, LesserIs
<1>4. Up(To) \in Nat /\ To <= Up(To) /\ Up(To) <= To + 1 /\ Up(To) % 2 = 0 /\ Up(From) \in Nat
  BY Places, UpIs
<1>0. skip \in Nat /\ left \in Nat /\ To \in Nat
  BY Places
<1> HIDE DEF n
<1>5. s \in 0..skip /\ (s > 0 => Up(To) + 2 * s = Base) /\ (s = 0 => Base <= Up(To))
  <2>1. CASE skip <= n
    BY <1>0, <1>1, <1>2, <1>3, <1>4, <2>1
  <2>2. CASE n < skip
    <3>1. s = skip - n
      BY <1>0, <1>2, <1>3, <2>2
    <3> HIDE DEF s
    <3> QED BY <1>0, <1>1, <1>2, <1>4, <2>2, <3>1
  <2> QED BY <1>0, <1>2, <2>1, <2>2
<1> HIDE DEF s
<1>6. CASE resync
  <2>1. l = left
    BY <1>6 DEF LeftAfter
  <2> HIDE DEF l
  <2> QED BY <1>0, <1>5, <1>6, <2>1 DEF l, s, n
<1>7. CASE ~resync
  <2> DEFINE e == IF To < Reach THEN To ELSE Reach
  <2>0. e \in Nat /\ Up(Base) = Base /\ (e = Reach => Up(e) = Reach) /\ Up(e) \in Nat
    BY <1>1, <1>4, Places, UpIs
  <2>1. Searched = Words(Base, e)
    <3>1. \A p : p \in Words(From, To) <=> p \in Nat /\ p % 2 = 0 /\ From <= p /\ p < To
      BY Places, MembersOfWords
    <3>2. \A p : p \in Words(Base, e) <=> p \in Nat /\ p % 2 = 0 /\ Base <= p /\ p < e
      BY <1>1, <2>0, MembersOfWords
    <3>3. \A p : p \in Searched <=> p \in Words(From, To) /\ Base <= p /\ p < Reach
      BY <1>7, SearchedIs
    <3>4. \A p \in Nat : p < e <=> p < To /\ p < Reach
      BY <1>1, Places
    <3>5. \A p \in Nat : Base <= p => From <= p
      BY <1>1, Places
    <3> HIDE DEF e
    <3>6. \A p : p \in Searched <=> p \in Words(Base, e)
      BY <3>1, <3>2, <3>3, <3>4, <3>5
    <3> QED BY <3>6 DEF Searched, Words, AfterSkip
  <2>2. Cardinality(Searched) \in Nat /\ 2 * Cardinality(Searched) = IF Base <= e THEN Up(e) - Base ELSE 0
    BY <1>1, <2>0, <2>1, WordsCount
  <2>3. l = left - Cardinality(Searched)
    BY <1>7 DEF LeftAfter
  <2> DEFINE c == Cardinality(Searched)
  <2>6. c \in Nat /\ l = left - c /\ (Base <= e => 2 * c = Up(e) - Base) /\ (~(Base <= e) => c = 0)
    BY <2>2, <2>3
  <2>7. e \in Nat /\ (To < Reach => e = To) /\ (~(To < Reach) => e = Reach)
    BY <2>0
  <2> HIDE DEF l, c, e
  <2>4. CASE To < Reach
    <3>1. e = To
      BY <2>4, <2>7
    <3>2. CASE Base <= To
      <4>1. s = 0 /\ 2 * c = Up(To) - Base
        BY <1>0, <1>1, <1>4, <1>5, <2>6, <3>1, <3>2
      <4>2. l \in 0..left /\ (l = 0 => To >= Reach - 1) /\ Up(To) + 2 * s + 2 * l = Reach
        <5>1. 2 * c <= 2 * left /\ 2 * l = 2 * left - 2 * c
          BY <1>0, <1>1, <1>4, <2>6, <2>4, <4>1
        <5>2. l \in 0..left
          BY <1>0, <2>6, <5>1
        <5>3. 2 * l = Reach - Up(To)
          BY <1>0, <1>1, <1>4, <4>1, <5>1
        <5> QED BY <1>0, <1>1, <1>4, <4>1, <5>2, <5>3
      <4> QED BY <1>5, <1>7, <2>4, <4>2 DEF l, s, n
    <3>3. CASE To < Base
      <4>1. l = left
        BY <1>0, <1>1, <2>6, <3>1, <3>3
      <4>2. Up(To) + 2 * s = Base
        <5>1. CASE s = 0
          <6>1. Base = Up(To)
            BY <1>0, <1>1, <1>4, <1>5, <3>3, <5>1
          <6> QED BY <1>1, <5>1, <6>1
        <5>2. CASE s > 0
          BY <1>5, <5>2
        <5>3. s \in Nat
          BY <1>0, <1>5
        <5> QED BY <5>1, <5>2, <5>3
      <4> QED BY <1>0, <1>1, <1>5, <1>7, <2>4, <4>1, <4>2 DEF l, s, n
    <3> QED BY <1>0, <1>1, <3>2, <3>3
  <2>5. CASE ~ (To < Reach)
    <3>1. e = Reach /\ Up(e) = Reach /\ Base <= e
      BY <1>0, <1>1, <2>0, <2>5, <2>7
    <3>2. l = 0 /\ To >= Reach - 1
      BY <1>0, <1>1, <2>6, <2>5, <3>1
    <3> QED BY <1>0, <1>5, <1>7, <3>2 DEF l, s, n
  <2> QED BY <2>4, <2>5
<1> QED BY <1>6, <1>7 DEF n

(* The words before the first line start were within the window.           *)
LEMMA LeftOfWindow ==
  ASSUME NumInv, InPiece, NEW o \in Searched
  PROVE  LeftAfter({p \in Searched : p < o}) \in 0..WINDOW
<1> DEFINE S == {p \in Searched : p < o}
<1>0. left \in Nat /\ left <= WINDOW /\ WINDOW \in Nat
  BY Places, Numbers
<1>1. CASE resync
  BY <1>0, <1>1 DEF LeftAfter
<1>2. CASE ~resync
  <2>1. o \in Nat /\ o % 2 = 0 /\ From <= o /\ o < To /\ Base <= o /\ o < Reach
    BY <1>2, SearchedIs, Places, MembersOfWords
  <2>2. Base \in Nat /\ Base % 2 = 0 /\ From <= Base /\ Reach = Base + 2 * left
    BY SearchedIs DEF Reach
  <2>3. S = Words(Base, o)
    <3>1. \A p : p \in Words(From, To) <=> p \in Nat /\ p % 2 = 0 /\ From <= p /\ p < To
      BY Places, MembersOfWords
    <3>2. \A p : p \in Words(Base, o) <=> p \in Nat /\ p % 2 = 0 /\ Base <= p /\ p < o
      BY <2>1, <2>2, MembersOfWords
    <3>3. \A p : p \in S <=> p \in Words(From, To) /\ Base <= p /\ p < Reach /\ p < o
      BY <1>2, SearchedIs
    <3>4. \A p \in Nat : Base <= p /\ p < o => From <= p /\ p < To /\ p < Reach
      BY <2>1, <2>2, Places
    <3>5. \A p : p \in S <=> p \in Words(Base, o)
      BY <3>1, <3>2, <3>3, <3>4
    <3> QED BY <3>5 DEF Words
  <2>4. Up(o) = o /\ Up(Base) = Base
    BY <2>1, <2>2, UpIs
  <2>5. Cardinality(S) \in Nat /\ 2 * Cardinality(S) = o - Base
    BY <2>1, <2>2, <2>3, <2>4, WordsCount
  <2> DEFINE c == Cardinality(S)
  <2>6. LeftAfter(S) = left - c
    BY <1>2 DEF LeftAfter
  <2>7. c \in Nat /\ 2 * c < 2 * left
    BY <1>0, <2>1, <2>2, <2>5
  <2> HIDE DEF c, S
  <2>8. LeftAfter(S) \in 0..WINDOW
    BY <1>0, <2>6, <2>7
  <2> QED BY <2>8 DEF S
<1> QED BY <1>1, <1>2

(* A word with bit 0 set that the search does not look at is one that the  *)
(* first segment drops.                                                    *)
LEMMA NotSearched ==
  ASSUME NumInv, SearchInv, InPiece, ~synced,
         NEW o \in marks, From <= o, o < To, o \notin Searched, resync \/ o < Reach
  PROVE  o < 2 * skip0 /\ tap_seg = 0 /\ search_start = 0
<1>1. o \in Nat /\ o % 2 = 0 /\ Up(From) <= o /\ From \in Nat /\ skip \in Nat /\ Up(From) \in Nat
  BY Places, UpIs
<1>2. o \in Words(From, To)
  BY <1>1, Places, MembersOfWords
<1>3. o < Base
  <2>1. Base \in Nat /\ ~ (Base <= o)
    BY <1>2, SearchedIs
  <2> QED BY <1>1, <2>1
<1>4. skip > 0
  BY <1>1, <1>3 DEF Base
<1>5. Base <= 2 * skip0 /\ tap_seg = 0 /\ search_start = 0
  BY <1>4 DEF SearchInv, IsOk, InPiece, Base
<1> QED BY <1>1, <1>3, <1>5, SearchedIs, Places

-----------------------------------------------------------------------------
(* The tap                                                                 *)

(* A run is a sequence of its length.                                      *)
LEMMA RunIs ==
  ASSUME NEW f \in Nat, NEW n \in Nat
  PROVE  /\ Run(f, n) \in Seq(Nat) /\ Len(Run(f, n)) = n
         /\ \A i \in 1..n : Run(f, n)[i] = f + i - 1
BY DEF Run

(* Two runs of bytes, the one behind the other, are one run.               *)
LEMMA RunsJoin ==
  ASSUME NEW f \in Nat, NEW n \in Nat, NEW m \in Nat
  PROVE  Run(f, n) \o [k \in 1..m |-> f + n + k - 1] = Run(f, n + m)
BY DEF Run

(* A part of a run is a run.                                               *)
LEMMA RunsPart ==
  ASSUME NEW f \in Nat, NEW n \in Nat, NEW a \in 1..n+1, NEW b \in 0..n, a <= b + 1
  PROVE  SubSeq(Run(f, n), a, b) = Run(f + a - 1, b - a + 1)
BY DEF Run

(* The grid the tap is on.                                                 *)
LEMMA TapIs ==
  ASSUME NumInv, TapInv, InPiece, synced
  PROVE  /\ TapNext \in Nat /\ origin \in Nat /\ origin <= TapNext /\ TapNext <= To /\ From < TapNext + LB
         /\ TapLine \in Nat /\ origin \in marks
         /\ TapNext < From => TapNext \in marks
         /\ tap_next = Unset => From <= origin
         /\ \E m \in 0..MAX_BYTES : TapNext = origin + m * LB /\ TapLine = lines_base + m
<1>0. IsOk /\ origin \in marks /\ origin \in Nat /\ lines_base \in Nat /\ LB \in Nat /\ LB >= 2 /\ MAX_BYTES \in Nat
  BY Numbers DEF InPiece, IsOk, NumInv, TapInv
<1>1. From \in Nat /\ To \in Nat /\ From <= To
  BY Places
<1>2. CASE tap_next = Unset
  <2>1. TapNext = origin /\ TapLine = lines_base /\ From <= origin /\ origin < To
    BY <1>0, <1>2 DEF TapInv, TapNext, TapLine
  <2>2. TapNext = origin + 0 * LB /\ TapLine = lines_base + 0
    BY <1>0, <2>1
  <2>3. 0 \in 0..MAX_BYTES
    BY <1>0
  <2>4. \E m \in 0..MAX_BYTES : TapNext = origin + m * LB /\ TapLine = lines_base + m
    BY <2>2, <2>3
  <2> QED BY <1>0, <1>1, <2>1, <2>4
<1>3. CASE tap_next # Unset
  <2>1. TapNext = tap_next /\ TapLine = tap_line
    BY <1>3 DEF TapNext, TapLine
  <2>2. tap_next \in origin..MAX_BYTES /\ Len(pend) \in 0..LB-1 /\ tap_next + Len(pend) = From /\ (tap_next < From => tap_next \in marks)
    BY <1>0, <1>3 DEF TapInv
  <2>3. \E m \in 0..MAX_BYTES : TapNext = origin + m * LB /\ TapLine = lines_base + m
    BY <1>3, <2>1 DEF TapInv
  <2>4. tap_line \in Nat
    BY DEF NumInv
  <2> QED BY <1>0, <1>1, <1>3, <2>1, <2>2, <2>3, <2>4
<1> QED BY <1>2, <1>3

(* A tap that is set has seen all bytes before the piece.                  *)
LEMMA TapBehind ==
  ASSUME NumInv, TapInv, synced, IsOk, tap_next # Unset
  PROVE  TapNext <= From /\ TapNext \in Nat
<1>1. TapNext = tap_next
  BY DEF TapNext
<1>2. tap_next \in origin..MAX_BYTES /\ Len(pend) \in 0..LB-1 /\ tap_next + Len(pend) = From
  BY DEF TapInv
<1>3. origin \in Nat
  BY Numbers DEF NumInv
<1>4. tap_next \in Nat /\ Len(pend) \in Nat
  BY <1>2, <1>3, Numbers
<1> QED BY <1>1, <1>2, <1>4

(* What waits and what is new are one run of bytes.                        *)
LEMMA StockIs ==
  ASSUME NumInv, TapInv, InPiece, synced, NEW end \in Nat, From <= end, TapNext <= end
  PROVE  Stock(end) = Run(TapNext, end - TapNext)
<1>1. From \in Nat /\ TapNext \in Nat
  BY Places, TapIs
<1>2. CASE pend = <<>>
  <2>1. Stock(end) = <<>> \o [k \in 1..(end - TapNext) |-> TapNext + k - 1]
    BY <1>2 DEF Stock
  <2>2. Run(TapNext, 0) = <<>>
    BY <1>1 DEF Run
  <2> DEFINE m == end - TapNext
  <2>3. m \in Nat
    BY <1>1
  <2>4. Stock(end) = <<>> \o Run(TapNext, m)
    BY <2>1 DEF Run
  <2> HIDE DEF m
  <2>5. Run(TapNext, m) \in Seq(Nat)
    BY <1>1, <2>3, RunIs
  <2>6. <<>> \o Run(TapNext, m) = Run(TapNext, m)
    BY <2>5
  <2> QED BY <2>4, <2>6 DEF m
<1>3. CASE pend # <<>>
  <2>1. tap_next # Unset /\ IsOk
    BY <1>3 DEF TapInv, InPiece, IsOk
  <2>2. TapNext = tap_next /\ pend = Run(tap_next, Len(pend)) /\ Len(pend) \in Nat /\ tap_next + Len(pend) = From
    BY <2>1, Numbers DEF TapInv, TapNext
  <2> DEFINE n == Len(pend)
  <2>3. Stock(end) = pend \o [k \in 1..(end - From) |-> From + k - 1]
    BY <1>3 DEF Stock
  <2>4. n \in Nat /\ TapNext + n = From /\ end - From \in Nat /\ pend = Run(TapNext, n)
    BY <1>1, <2>2
  <2> HIDE DEF n
  <2>5. Run(TapNext, n) \o [k \in 1..(end - From) |-> TapNext + n + k - 1] = Run(TapNext, n + (end - From))
    BY <1>1, <2>4, RunsJoin
  <2>6. n + (end - From) = end - TapNext
    BY <1>1, <2>4
  <2> QED BY <2>3, <2>4, <2>5, <2>6
<1> QED BY <1>2, <1>3

(* The whole lines of such a run, and the rest.                            *)
LEMMA WholeIs ==
  ASSUME NumInv, TapInv, InPiece, synced, NEW end \in Nat, From <= end,
         NEW q \in Nat, NEW r \in 0..LB-1, end = TapNext + q * LB + r
  PROVE  /\ Whole(end) = q /\ Rest(end) = Run(TapNext + q * LB, r)
         /\ \A k \in 1..q : SubSeq(Stock(end), (k - 1) * LB + 1, k * LB) = Run(TapNext + (k - 1) * LB, LB)
<1>1. TapNext \in Nat /\ LB \in Nat /\ q * LB \in Nat /\ r \in Nat
  BY TapIs, Numbers, LinesAt
<1>2. end - TapNext = q * LB + r /\ TapNext <= end
  BY <1>1
<1> DEFINE n == end - TapNext
<1>3. Stock(end) = Run(TapNext, n) /\ n \in Nat /\ n = q * LB + r
  BY <1>1, <1>2, StockIs
<1> HIDE DEF n
<1>4. Len(Stock(end)) = n
  BY <1>1, <1>3, RunIs
<1>5. Whole(end) = q
  BY <1>3, <1>4, DivIs DEF Whole
<1>6. Rest(end) = Run(TapNext + q * LB, r)
  <2>1. q * LB + 1 \in 1..n+1 /\ n \in 0..n
    BY <1>1, <1>3
  <2>2. SubSeq(Run(TapNext, n), q * LB + 1, n) = Run(TapNext + (q * LB + 1) - 1, n - (q * LB + 1) + 1)
    <3> DEFINE a == q * LB + 1
    <3>1. a \in 1..n+1 /\ n \in Nat /\ n \in 0..n /\ a <= n + 1
      BY <1>1, <1>3, <2>1
    <3> HIDE DEF a
    <3>2. SubSeq(Run(TapNext, n), a, n) = Run(TapNext + a - 1, n - a + 1)
      BY <1>1, <3>1, RunsPart
    <3> QED BY <3>2 DEF a
  <2>3. TapNext + (q * LB + 1) - 1 = TapNext + q * LB /\ n - (q * LB + 1) + 1 = r
    BY <1>1, <1>3
  <2> QED BY <1>3, <1>4, <1>5, <2>2, <2>3 DEF Rest
<1>7. ASSUME NEW k \in 1..q
      PROVE  SubSeq(Stock(end), (k - 1) * LB + 1, k * LB) = Run(TapNext + (k - 1) * LB, LB)
  <2>1. k - 1 \in Nat /\ q - k \in Nat /\ q = k + (q - k)
    OBVIOUS
  <2>2. (k - 1) * LB \in Nat /\ k * LB = (k - 1) * LB + LB
    BY <2>1, LinesAt
  <2>3. (q - k) * LB \in Nat /\ q * LB = k * LB + (q - k) * LB
    BY <1>1, <2>1, LinesAt
  <2> DEFINE a == (k - 1) * LB
  <2>4. a \in Nat /\ k * LB = a + LB /\ a + 1 \in 1..n+1 /\ a + LB \in 0..n /\ a + 1 <= a + LB + 1
    BY <1>1, <1>3, <2>2, <2>3
  <2> HIDE DEF a
  <2>5. SubSeq(Run(TapNext, n), a + 1, a + LB) = Run(TapNext + (a + 1) - 1, (a + LB) - (a + 1) + 1)
    <3> DEFINE x == a + 1
               y == a + LB
    <3>1. x \in 1..n+1 /\ y \in 0..n /\ x <= y + 1 /\ TapNext \in Nat /\ n \in Nat
      BY <1>1, <1>3, <2>4
    <3> HIDE DEF x, y
    <3>2. SubSeq(Run(TapNext, n), x, y) = Run(TapNext + x - 1, y - x + 1)
      BY <3>1, RunsPart
    <3> QED BY <3>2 DEF x, y
  <2>6. TapNext + (a + 1) - 1 = TapNext + a /\ (a + LB) - (a + 1) + 1 = LB
    BY <1>1, <2>4
  <2> QED BY <1>3, <2>4, <2>5, <2>6 DEF a
<1> QED BY <1>5, <1>6, <1>7

(* The line starts before the first broken one have bit 0 set.             *)
LEMMA StartsMarked ==
  ASSUME NumInv, TapInv, InPiece, synced, NEW end \in Nat, end <= To, \A o \in Broken : end <= o,
         NEW j \in Nat, TapNext + j * LB < end
  PROVE  TapNext + j * LB \in marks
<1> DEFINE x == TapNext + j * LB
<1>1. PICK m \in Nat : TapNext = origin + m * LB
  BY TapIs
<1>2. TapNext \in Nat /\ origin \in Nat /\ From \in Nat /\ To \in Nat /\ LB \in Nat /\ j * LB \in Nat /\ m * LB \in Nat
  BY TapIs, Places, Numbers, LinesAt
<1>3. origin <= TapNext /\ From < TapNext + LB /\ (TapNext < From => TapNext \in marks)
  BY TapIs
<1>4. CASE x < From
  <2>1. j = 0
    <3>1. SUFFICES ASSUME j # 0 PROVE FALSE
      OBVIOUS
    <3>2. j - 1 \in Nat /\ j * LB = (j - 1) * LB + LB /\ (j - 1) * LB \in Nat
      <4>1. j - 1 \in Nat /\ (j - 1) + 1 = j
        BY <3>1
      <4> QED BY <4>1, LinesAt
    <3> QED BY <1>2, <1>3, <1>4, <3>2
  <2>2. x = TapNext
    BY <1>2, <2>1
  <2> QED BY <1>3, <1>4, <2>2
<1>5. CASE From <= x
  <2>1. x - origin = (m + j) * LB + 0 /\ m + j \in Nat
    BY <1>1, <1>2
  <2>2. (x - origin) % LB = 0
    <3>1. 0 \in 0..LB-1 /\ m + j \in Nat
      BY <2>1, Numbers
    <3>2. ((m + j) * LB + 0) % LB = 0
      BY <3>1, DivIs
    <3> QED BY <2>1, <3>2
  <2>3. x \in From..To-1 /\ x >= origin
    BY <1>2, <1>3, <1>5
  <2>4. x \notin Broken
    BY <1>2
  <2> HIDE DEF x
  <2>5. x \in marks
    BY <2>2, <2>3, <2>4 DEF Broken
  <2> QED BY <2>5 DEF x
<1> QED BY <1>2, <1>4, <1>5

(* The lines that a call of tap_lines adds.                                *)
NewLine(k) == [seg |-> tap_seg, line |-> TapLine + k - 1, off |-> TapNext + (k - 1) * LB, data |-> Run(TapNext + (k - 1) * LB, LB)]

(* The fields of such a line.                                              *)
LEMMA NewLineIs ==
  ASSUME NumInv, TapInv, InPiece, synced, NEW k \in Nat, k >= 1
  PROVE  /\ NewLine(k) \in Line /\ NewLine(k).seg = tap_seg /\ NewLine(k).line = TapLine + k - 1
         /\ NewLine(k).off = TapNext + (k - 1) * LB /\ NewLine(k).data = Run(NewLine(k).off, LB)
         /\ (k - 1) * LB \in Nat /\ k * LB = (k - 1) * LB + LB
<1>1. k - 1 \in Nat /\ (k - 1) + 1 = k
  OBVIOUS
<1>2. (k - 1) * LB \in Nat /\ k * LB = (k - 1) * LB + LB
  BY <1>1, LinesAt
<1>3. TapNext \in Nat /\ TapLine \in Nat /\ LB \in Nat /\ tap_seg \in Nat
  <2>1. cuts \in Seq([from : Nat, to : Nat]) /\ tap_seg = Len(cuts)
    BY DEF NumInv
  <2> QED BY <2>1, TapIs, Numbers
<1>4. TapNext + (k - 1) * LB \in Nat /\ TapLine + k - 1 \in Nat
  BY <1>1, <1>2, <1>3
<1>5. Run(TapNext + (k - 1) * LB, LB) \in Seq(Nat)
  BY <1>3, <1>4, RunIs
<1> QED BY <1>2, <1>3, <1>4, <1>5 DEF NewLine, Line

(* tap_lines hands out as many lines as are whole, behind those handed out *)
(* before.                                                                 *)
LEMMA TapLinesAdd ==
  ASSUME NumInv, TapInv, InPiece, synced, NEW end \in Nat, From <= end,
         NEW q \in Nat, NEW r \in 0..LB-1, end = TapNext + q * LB + r, TapLines(end)
  PROVE  /\ tap_line' = TapLine + q
         /\ lines' \in Seq(Line) /\ Len(lines') = Len(lines) + q
         /\ \A i \in 1..Len(lines) : lines'[i] = lines[i]
         /\ \A k \in 1..q : lines'[Len(lines) + k] = NewLine(k)
<1>1. Whole(end) = q /\ \A k \in 1..q : SubSeq(Stock(end), (k - 1) * LB + 1, k * LB) = Run(TapNext + (k - 1) * LB, LB)
  BY WholeIs
<1> DEFINE N == [k \in 1..q |-> NewLine(k)]
<1>2. lines' = lines \o N
  BY <1>1 DEF TapLines, NewLine
<1>3. \A k \in 1..q : NewLine(k) \in Line
  BY NewLineIs
<1>4. N \in Seq(Line) /\ Len(N) = q /\ \A k \in 1..q : N[k] = NewLine(k)
  BY <1>3
<1>5. lines \in Seq(Line)
  BY DEF NumInv
<1> HIDE DEF N
<1>6. tap_line' = TapLine + q
  BY <1>1 DEF TapLines
<1>7. lines' \in Seq(Line) /\ Len(lines') = Len(lines) + q
  BY <1>2, <1>4, <1>5, ConcatProperties
<1>8. \A i \in 1..Len(lines) : lines'[i] = lines[i]
  <2> TAKE i \in 1..Len(lines)
  <2>1. i \in 1..Len(lines) + Len(N) /\ i <= Len(lines)
    BY <1>4, <1>5
  <2> QED BY <1>2, <1>4, <1>5, <2>1, ConcatProperties
<1>9. \A k \in 1..q : lines'[Len(lines) + k] = N[k]
  <2> TAKE k \in 1..q
  <2>1. Len(lines) \in Nat /\ Len(lines) + k \in 1..Len(lines) + Len(N) /\ ~ (Len(lines) + k <= Len(lines))
    BY <1>4, <1>5
  <2>2. (lines \o N)[Len(lines) + k] = N[Len(lines) + k - Len(lines)]
    BY <1>4, <1>5, <2>1, ConcatProperties
  <2>3. Len(lines) + k - Len(lines) = k
    BY <2>1
  <2> QED BY <1>2, <2>2, <2>3
<1> QED BY <1>4, <1>6, <1>7, <1>8, <1>9

(* A call of tap_lines over the piece up to end, no line start before it    *)
(* being broken: q lines, and r bytes of the next.                         *)
TapsTo(end, q, r) ==
  /\ InPiece /\ synced /\ end \in Nat /\ From <= end /\ end <= To
  /\ q \in Nat /\ r \in 0..LB-1 /\ end = TapNext + q * LB + r
  /\ \A o \in Broken : end <= o
  /\ TapLines(end)

(* What such a call does to the lines and the tap.                         *)
LEMMA TapsAdd ==
  ASSUME LineInv, NEW end, NEW q, NEW r, TapsTo(end, q, r)
  PROVE  /\ NumInv /\ TapInv /\ InPiece /\ IsOk /\ synced /\ q \in Nat /\ end \in Nat /\ r \in 0..LB-1 /\ r \in Nat
         /\ tap_line' = TapLine + q /\ lines' \in Seq(Line)
         /\ Len(lines') = Len(lines) + q /\ Len(lines) \in Nat /\ Len(lines) = TapLine
         /\ \A i \in 1..Len(lines) : lines'[i] = lines[i]
         /\ \A k \in 1..q : lines'[Len(lines) + k] = NewLine(k)
<1>1. NumInv /\ TapInv /\ InPiece /\ synced
  BY DEF LineInv, TapsTo
<1>2. end \in Nat /\ From <= end /\ q \in Nat /\ r \in 0..LB-1 /\ end = TapNext + q * LB + r /\ TapLines(end)
  BY DEF TapsTo
<1>3. /\ tap_line' = TapLine + q /\ lines' \in Seq(Line) /\ Len(lines') = Len(lines) + q
      /\ \A i \in 1..Len(lines) : lines'[i] = lines[i]
      /\ \A k \in 1..q : lines'[Len(lines) + k] = NewLine(k)
  BY <1>1, <1>2, TapLinesAdd
<1>4. Len(lines) \in Nat /\ Len(lines) = TapLine
  <2>1. lines \in Seq(Line)
    BY <1>1 DEF NumInv
  <2> QED BY <1>1, <2>1 DEF TapInv
<1>5. r \in Nat /\ IsOk
  BY <1>1, <1>2, Numbers DEF InPiece, IsOk
<1> QED BY <1>1, <1>2, <1>3, <1>4, <1>5

(* The lines are the old ones and the new.                                 *)
LEMMA OldOrNew ==
  ASSUME NEW n \in Nat, NEW q \in Nat, NEW i \in 1..n + q
  PROVE  i \in 1..n \/ \E k \in 1..q : i = n + k
<1>1. CASE i <= n
  BY <1>1
<1>2. CASE i > n
  <2>1. i - n \in 1..q /\ i = n + (i - n)
    BY <1>2
  <2> QED BY <2>1
<1> QED BY <1>1, <1>2

(* The new lines continue the numbering, begin with bit 0 set, lie behind  *)
(* the old ones and behind every re-arm.                                   *)
LEMMA NewLinesOk ==
  ASSUME LineInv, NEW end, NEW q, NEW r, TapsTo(end, q, r)
  PROVE  \A i \in 1..Len(lines') : LineOk(lines', TapNext + q * LB, i)
<1>0. NumInv /\ TapInv /\ LinesInv /\ InPiece /\ synced /\ q \in Nat /\ end \in Nat
  BY DEF LineInv, TapsTo
<1>1. /\ Len(lines') = Len(lines) + q /\ Len(lines) \in Nat
      /\ \A i \in 1..Len(lines) : lines'[i] = lines[i]
      /\ \A k \in 1..q : lines'[Len(lines) + k] = NewLine(k)
  BY TapsAdd
<1>2. /\ TapNext \in Nat /\ LB \in Nat /\ LB >= 2 /\ q * LB \in Nat /\ Len(lines) = TapLine /\ Edge = TapNext
      /\ tap_seg = Len(cuts) /\ tap_seg \in Nat /\ cuts \in Seq([from : Nat, to : Nat])
  <2>1. tap_seg = Len(cuts) /\ tap_seg \in Nat /\ cuts \in Seq([from : Nat, to : Nat])
    BY <1>0 DEF NumInv
  <2> QED BY <1>0, <2>1, TapIs, Numbers, LinesAt DEF TapInv, Edge
<1>3. \A i \in 1..Len(lines) : LineOk(lines, TapNext, i) /\ lines[i] \in Line
  <2> TAKE i \in 1..Len(lines)
  <2>1. LineOk(lines, Edge, i)
    BY <1>0 DEF LinesInv
  <2>2. lines \in Seq(Line)
    BY <1>0 DEF NumInv
  <2> QED BY <1>2, <2>1, <2>2
<1>4. \A c \in 1..Len(cuts) : cuts[c].to <= TapNext /\ cuts[c].to \in Nat
  <2> TAKE c \in 1..Len(cuts)
  <2>1. cuts[c].to <= Edge
    BY <1>0 DEF LinesInv
  <2>2. cuts[c] \in [from : Nat, to : Nat]
    BY <1>2, ElementOfSeq
  <2> QED BY <1>2, <2>1, <2>2
<1> DEFINE n == Len(lines)
<1>5. ASSUME NEW i \in 1..n PROVE LineOk(lines', TapNext + q * LB, i)
  <2>1. LineOk(lines, TapNext, i) /\ lines[i] \in Line /\ lines'[i] = lines[i] /\ i \in Nat
    BY <1>1, <1>3
  <2>2. i > 1 => lines'[i-1] = lines[i-1]
    BY <1>1
  <2>3. lines[i].off + LB <= TapNext => lines[i].off + LB <= TapNext + q * LB
    BY <1>2, <2>1 DEF Line
  <2> QED BY <2>1, <2>2, <2>3 DEF LineOk
<1>6. ASSUME NEW k \in 1..q PROVE LineOk(lines', TapNext + q * LB, n + k)
  <2> DEFINE l == NewLine(k)
  <2>0. k \in Nat /\ k >= 1 /\ q \in Nat /\ k <= q
    BY <1>0
  <2>1. l = lines'[n + k] /\ l \in Line /\ l.seg = tap_seg /\ l.line = n + k - 1 /\ l.data = Run(l.off, LB)
    BY <1>0, <1>1, <1>2, <2>0, NewLineIs
  <2>2. l.off = TapNext + (k - 1) * LB /\ (k - 1) * LB \in Nat /\ k * LB = (k - 1) * LB + LB
    BY <1>0, <2>0, NewLineIs
  <2> HIDE DEF l
  <2>3. k * LB <= q * LB
    <3>1. q - k \in Nat /\ q = k + (q - k)
      BY <1>0
    <3>2. q * LB = k * LB + (q - k) * LB /\ (q - k) * LB \in Nat
      BY <1>2, <3>1, LinesAt
    <3> QED BY <1>2, <2>2, <3>2
  <2>4. l.off + LB <= TapNext + q * LB
    BY <1>2, <2>2, <2>3
  <2>5. l.off \in marks
    <3>1. end = TapNext + q * LB + r /\ r \in Nat /\ end <= To /\ \A o \in Broken : end <= o
      <4>1. r \in Nat
        BY TapsAdd
      <4> QED BY <4>1 DEF TapsTo
    <3>2. TapNext + (k - 1) * LB < end /\ k - 1 \in Nat
      <4>1. \A a, b, c \in Nat : a + LB <= b => a < b + c
        BY Numbers
      <4>2. TapNext + (k - 1) * LB \in Nat /\ TapNext + q * LB \in Nat
        BY <1>2, <2>2
      <4>3. (TapNext + (k - 1) * LB) + LB <= TapNext + q * LB
        BY <2>2, <2>4
      <4> QED BY <2>0, <3>1, <4>1, <4>2, <4>3
    <3> QED BY <1>0, <2>2, <3>1, <3>2, StartsMarked
  <2>6. n + k > 1 => lines'[n + k - 1].off + LB <= l.off /\ lines'[n + k - 1].seg <= l.seg
    <3>1. CASE k = 1
      <4>1. SUFFICES ASSUME n >= 1 PROVE lines'[n].off + LB <= l.off /\ lines'[n].seg <= l.seg
        BY <1>1, <3>1
      <4>2. lines'[n] = lines[n] /\ LineOk(lines, TapNext, n)
        BY <1>1, <1>3, <4>1
      <4>3. l.off = TapNext
        BY <1>2, <2>2, <3>1
      <4> QED BY <2>1, <4>2, <4>3 DEF LineOk
    <3>2. CASE k # 1
      <4>1. k - 1 \in 1..q /\ n + (k - 1) = n + k - 1
        BY <1>1, <2>0, <3>2
      <4>2. lines'[n + k - 1] = NewLine(k - 1)
        BY <1>1, <4>1
      <4>3. NewLine(k - 1).off = TapNext + ((k - 1) - 1) * LB /\ NewLine(k - 1).seg = tap_seg
            /\ (k - 1) * LB = ((k - 1) - 1) * LB + LB /\ ((k - 1) - 1) * LB \in Nat
        <5>1. k - 1 \in Nat /\ k - 1 >= 1
          BY <4>1
        <5> QED BY <1>0, <5>1, NewLineIs
      <4>4. NewLine(k - 1).off + LB = l.off
        BY <1>2, <2>2, <4>3
      <4> QED BY <1>2, <2>1, <2>2, <4>2, <4>3, <4>4
    <3> QED BY <3>1, <3>2
  <2>7. \A c \in 1..Len(cuts) : IF l.seg < c THEN l.off + LB <= cuts[c].to ELSE l.off >= cuts[c].to
    <3> TAKE c \in 1..Len(cuts)
    <3>1. ~ (l.seg < c)
      BY <1>2, <2>1
    <3>2. l.off >= cuts[c].to
      <4>1. \A a, b, x \in Nat : x <= a => a + b >= x
        OBVIOUS
      <4> QED BY <1>2, <1>4, <2>2, <4>1
    <3> QED BY <3>1, <3>2
  <2>8. n + k \in Nat
    BY <1>1
  <2> QED BY <1>2, <2>1, <2>4, <2>5, <2>6, <2>7, <2>8 DEF LineOk
<1>7. \A i \in 1..Len(lines') : i \in 1..n \/ \E k \in 1..q : i = n + k
  <2>1. n \in Nat /\ Len(lines') = n + q
    BY <1>1
  <2> HIDE DEF n
  <2> QED BY <1>0, <2>1, OldOrNew
<1> HIDE DEF n
<1> QED BY <1>5, <1>6, <1>7

(* Each of the bytes tapped is in one of the lines.                        *)
LEMMA NewLinesCover ==
  ASSUME LineInv, NEW end, NEW q, NEW r, TapsTo(end, q, r),
         NEW o \in Nat, TapNext <= o, o < TapNext + q * LB
  PROVE  \E i \in 1..Len(lines') : lines'[i].off <= o /\ o < lines'[i].off + LB
<1>0. NumInv /\ TapInv /\ InPiece /\ synced /\ q \in Nat /\ end \in Nat
  BY DEF LineInv, TapsTo
<1>1. /\ Len(lines') = Len(lines) + q /\ Len(lines) \in Nat
      /\ \A k \in 1..q : lines'[Len(lines) + k] = NewLine(k)
  BY TapsAdd
<1>2. TapNext \in Nat /\ LB \in Nat /\ q * LB \in Nat
  BY <1>0, TapIs, Numbers, LinesAt
<1>3. PICK m \in Nat, t \in 0..LB-1 : o - TapNext = m * LB + t
  <2>1. o - TapNext \in Nat
    BY <1>2
  <2> QED BY <2>1, DivExists
<1>4. m * LB \in Nat
  BY LinesAt
<1>5. m < q
  <2>1. SUFFICES ASSUME m >= q PROVE FALSE
    BY <1>0
  <2>2. m - q \in Nat /\ m = q + (m - q)
    BY <1>0, <2>1
  <2>3. m * LB = q * LB + (m - q) * LB /\ (m - q) * LB \in Nat
    BY <1>0, <1>2, <2>2, LinesAt
  <2> QED BY <1>2, <1>3, <1>4, <2>3
<1> DEFINE k == m + 1
<1>6. k \in 1..q /\ k >= 1 /\ k \in Nat /\ k - 1 = m
  BY <1>0, <1>5
<1> HIDE DEF k
<1>7. NewLine(k).off = TapNext + m * LB
  BY <1>0, <1>6, NewLineIs
<1>8. NewLine(k).off <= o /\ o < NewLine(k).off + LB
  BY <1>2, <1>3, <1>4, <1>7
<1>9. Len(lines) + k \in 1..Len(lines')
  BY <1>0, <1>1, <1>6
<1> QED BY <1>1, <1>6, <1>8, <1>9

(* The first line of a segment is where its start is recorded.             *)
LEMMA NewLinesStart ==
  ASSUME LineInv, NEW end, NEW q, NEW r, TapsTo(end, q, r)
  PROVE  /\ \A i \in 1..Len(lines') :
              /\ lines'[i].seg \in DOMAIN seg_start
              /\ (i = 1 \/ lines'[i-1].seg < lines'[i].seg) => seg_start[lines'[i].seg] = [off |-> lines'[i].off, line |-> lines'[i].line]
         /\ q = 0 => Len(lines') = Len(lines) /\ (Len(lines) > 0 => lines'[Len(lines)] = lines[Len(lines)])
         /\ q > 0 => Len(lines') > 0 /\ lines'[Len(lines')].seg = tap_seg
<1>0. NumInv /\ TapInv /\ StartsInv /\ InPiece /\ synced /\ IsOk /\ q \in Nat /\ end \in Nat
  BY DEF LineInv, TapsTo, InPiece, IsOk
<1>1. /\ Len(lines') = Len(lines) + q /\ Len(lines) \in Nat
      /\ \A i \in 1..Len(lines) : lines'[i] = lines[i]
      /\ \A k \in 1..q : lines'[Len(lines) + k] = NewLine(k)
  BY TapsAdd
<1> DEFINE n == Len(lines)
           P(i) == /\ lines'[i].seg \in DOMAIN seg_start
                   /\ (i = 1 \/ lines'[i-1].seg < lines'[i].seg) => seg_start[lines'[i].seg] = [off |-> lines'[i].off, line |-> lines'[i].line]
<1>2. ASSUME NEW i \in 1..n PROVE P(i)
  <2>1. lines'[i] = lines[i] /\ (i # 1 => lines'[i-1] = lines[i-1])
    BY <1>1
  <2> QED BY <1>0, <2>1 DEF StartsInv
<1>3. ASSUME NEW k \in 1..q PROVE P(n + k)
  <2>1. lines'[n + k] = NewLine(k) /\ NewLine(k).seg = tap_seg /\ NewLine(k).line = TapLine + k - 1 /\ NewLine(k).off = TapNext + (k - 1) * LB
    BY <1>0, <1>1, NewLineIs
  <2>2. tap_seg \in DOMAIN seg_start /\ (~LastIsOfSeg => TapNext = origin /\ TapLine = lines_base /\ seg_start[tap_seg] = [off |-> origin, line |-> lines_base])
    BY <1>0 DEF StartsInv
  <2>3. tap_seg \in Nat /\ TapNext \in Nat /\ TapLine \in Nat /\ LB \in Nat
    <3>1. tap_seg = Len(cuts) /\ cuts \in Seq([from : Nat, to : Nat])
      BY <1>0 DEF NumInv
    <3> QED BY <1>0, <3>1, TapIs, Numbers
  <2>4. CASE k = 1
    <3>1. n + k - 1 = n /\ NewLine(k).off = TapNext /\ NewLine(k).line = TapLine
      BY <1>1, <2>1, <2>3, <2>4
    <3>2. SUFFICES ASSUME n = 0 \/ lines[n].seg < tap_seg PROVE ~LastIsOfSeg
      BY <1>1, <2>1, <2>2, <2>4, <3>1
    <3> QED BY <2>3, <3>2 DEF LastIsOfSeg
  <2>5. CASE k # 1
    <3>1. k - 1 \in 1..q /\ n + (k - 1) = n + k - 1 /\ k - 1 >= 1 /\ k - 1 \in Nat
      BY <1>0, <1>1, <2>5
    <3>2. lines'[n + k - 1].seg = tap_seg /\ n + k # 1
      <4>1. lines'[n + (k - 1)] = NewLine(k - 1) /\ NewLine(k - 1).seg = tap_seg
        BY <1>0, <1>1, <3>1, NewLineIs
      <4> QED BY <1>1, <3>1, <4>1
    <3> QED BY <2>1, <2>2, <2>3, <3>2
  <2> QED BY <2>4, <2>5
<1>4. \A i \in 1..Len(lines') : i \in 1..n \/ \E k \in 1..q : i = n + k
  BY <1>0, <1>1, OldOrNew
<1>5. q = 0 => Len(lines') = Len(lines) /\ (Len(lines) > 0 => lines'[Len(lines)] = lines[Len(lines)])
  BY <1>1
<1>6. ASSUME q > 0 PROVE Len(lines') > 0 /\ lines'[Len(lines')].seg = tap_seg
  <2>1. q \in 1..q /\ q >= 1
    BY <1>0, <1>6
  <2>2. lines'[n + q] = NewLine(q) /\ NewLine(q).seg = tap_seg
    BY <1>0, <1>1, <2>1, NewLineIs
  <2> QED BY <1>0, <1>1, <1>6, <2>2
<1> HIDE DEF n, P
<1>7. \A i \in 1..Len(lines') : P(i)
  BY <1>2, <1>3, <1>4
<1> QED BY <1>5, <1>6, <1>7 DEF P

-----------------------------------------------------------------------------
(* The steps                                                               *)

(* Before the first byte nothing has been looked at.                       *)
LEMMA LineInvInit == LineInit => LineInv
<1> SUFFICES ASSUME LineInit PROVE LineInv
  OBVIOUS
<1> USE DEF LineInit
<1>1. skip0 \in Nat /\ WINDOW \in Nat /\ WINDOW >= 1 /\ LB \in Nat /\ LB >= 2 /\ MAX_BYTES \in Nat
  BY Numbers, LineAssumption
<1>2. From = 0 /\ To = 0 /\ IsOk /\ ~synced /\ tap_seg = 0 /\ Up(From) = 0
  BY DEF From, To, NoChunk, IsOk, Up
<1>3. NumInv
  <2>1. cuts \in Seq([from : Nat, to : Nat]) /\ lines \in Seq(Line) /\ Len(cuts) = 0
    OBVIOUS
  <2>2. chunk = [put |-> chunk.put, at |-> chunk.at, sy |-> chunk.sy] /\ chunk.put = 0 /\ chunk.at = 0 /\ chunk.sy = "OK"
    BY DEF NoChunk
  <2>3. marks \subseteq Words(0, To)
    OBVIOUS
  <2>4. bytes \in Nat /\ To <= MAX_BYTES /\ origin \in 0..MAX_BYTES /\ origin % 2 = 0 /\ search_start \in 0..MAX_BYTES + 1 /\ search_start % 2 = 0
    BY <1>1, <1>2
  <2>5. left \in 0..WINDOW /\ skip \in 0..skip0 /\ lines_base \in Nat /\ lead_bytes \in Nat /\ tap_line \in Nat
    BY <1>1
  <2>6. resync \in BOOLEAN /\ synced \in BOOLEAN /\ rd \in {"loop", "sync"} /\ tap_seg = Len(cuts)
    BY <1>2, <2>1
  <2> HIDE DEF LineInit
  <2> QED BY <1>1, <2>1, <2>2, <2>3, <2>4, <2>5, <2>6 DEF NumInv
<1>4. TapInv
  BY <1>2 DEF TapInv, TapLine, Unset
<1>5. SearchInv
  BY <1>1, <1>2 DEF SearchInv, WindowEnd, Dropped
<1>6. MarksInv /\ LinesInv /\ StartsInv /\ LostInv
  BY <1>1, <1>2 DEF MarksInv, LinesInv, StartsInv, LostInv, NoChunk, LastIsOfSeg
<1>7. CountInv
  BY <1>1 DEF CountInv
<1> QED BY <1>3, <1>4, <1>5, <1>6, <1>7 DEF LineInv

(* A step of the rest of the program leaves the grid alone.                *)
LEMMA LineInvStutter == LineInv /\ UNCHANGED linevars => LineInv'
<1> SUFFICES ASSUME LineInv, UNCHANGED linevars PROVE LineInv'
  OBVIOUS
<1>1. /\ UNCHANGED <<skip0, resync, bytes, synced, origin, search_start, lines_base, lead_bytes, seg_start, rd, chunk, left, skip>>
      /\ UNCHANGED <<pend, tap_next, tap_line, tap_seg, marks, lines, cuts>>
  BY DEF linevars, cfg, grid, search, tap, history
<1>2. From' = From /\ To' = To /\ TapNext' = TapNext /\ TapLine' = TapLine /\ WindowEnd' = WindowEnd /\ IsOk' = IsOk
  BY <1>1 DEF From, To, TapNext, TapLine, WindowEnd, Dropped, IsOk
<1>3. NumInv'
  BY <1>1, <1>2 DEF LineInv, NumInv, Words
<1>4. TapInv' /\ SearchInv'
  BY <1>1, <1>2 DEF LineInv, TapInv, SearchInv, Up
<1>5. MarksInv'
  BY <1>1, <1>2 DEF LineInv, MarksInv, Seen, InLine, InCut, IsDropped
<1>6. LinesInv'
  BY <1>1, <1>2 DEF LineInv, LinesInv, Edge, LineOk
<1>7. StartsInv' /\ LostInv' /\ CountInv'
  BY <1>1, <1>2 DEF LineInv, StartsInv, LostInv, CountInv, LastIsOfSeg, Dropped
<1> QED BY <1>3, <1>4, <1>5, <1>6, <1>7 DEF LineInv

(* A new chunk: nothing of it has been looked at.                          *)
LEMMA NextChunkStep == LineInv /\ NextChunk => LineInv'
<1> SUFFICES ASSUME LineInv, NextChunk PROVE LineInv'
  OBVIOUS
<1>0. NumInv /\ TapInv /\ SearchInv /\ MarksInv /\ LinesInv /\ StartsInv /\ LostInv /\ CountInv
  BY DEF LineInv
<1>1. PICK n \in 0..CHUNK : Arrives(n)
  BY DEF NextChunk
<1>2. n \in Nat /\ bytes \in Nat /\ bytes + n <= MAX_BYTES
  BY <1>0, <1>1, Numbers DEF Arrives, NumInv
<1>3. chunk' = [put |-> n, at |-> 0, sy |-> "OK"] /\ rd = "loop" /\ rd' = "sync" /\ IsOk /\ IsOk'
  BY <1>1 DEF Arrives, NextChunk, NoChunk, IsOk
<1>4. /\ UNCHANGED <<skip0, resync, bytes, synced, origin, search_start, lines_base, lead_bytes, seg_start, left, skip>>
      /\ UNCHANGED <<pend, tap_next, tap_line, tap_seg, lines, cuts>>
  BY <1>1 DEF Arrives, cfg, grid, search, tap
<1>5. PICK m \in SUBSET Words(bytes, bytes + n) : marks' = marks \cup m
  BY <1>1 DEF Arrives
<1>6. From = bytes /\ To = bytes /\ From' = bytes /\ To' = bytes + n
  <2>1. chunk.put = 0 /\ chunk.at = 0
    BY <1>0, <1>3, SMTT(30) DEF NumInv
  <2> QED BY <1>2, <1>3, <1>4, <2>1 DEF From, To
<1>7. \A o \in marks' : o \in Nat /\ o % 2 = 0 /\ o < bytes + n /\ (o \in marks \/ o >= From)
  <2>1. \A o \in m : o \in Nat /\ o % 2 = 0 /\ o < bytes + n /\ o >= bytes
    BY <1>2, <1>5 DEF Words
  <2>2. \A o \in marks : o \in Nat /\ o % 2 = 0 /\ o < bytes
    BY <1>0, <1>6, Places
  <2> QED BY <1>2, <1>5, <1>6, <2>1, <2>2
<1>8. TapNext' = TapNext /\ TapLine' = TapLine /\ WindowEnd' = WindowEnd /\ Edge' = Edge
  BY <1>4, <1>6 DEF TapNext, TapLine, WindowEnd, Dropped, Edge
<1>9. Seen' = Seen /\ (synced => tap_next # Unset) /\ Seen = From
  <2>1. synced => tap_next # Unset
    BY <1>0, <1>3 DEF TapInv
  <2> QED BY <1>4, <1>6, <2>1 DEF Seen
<1>10. NumInv'
  <2>1. marks' \subseteq Words(0, bytes + n)
    BY <1>2, <1>7 DEF Words
  <2>2. (marks \subseteq Words(0, To))'
    BY <1>6, <2>1 DEF Words
  <2>3. (chunk = [put |-> chunk.put, at |-> chunk.at, sy |-> chunk.sy])' /\ chunk'.put = n /\ chunk'.at = 0 /\ chunk'.sy = "OK"
    BY <1>3
  <2>4. (To <= MAX_BYTES)'
    BY <1>2, <1>6
  <2> QED BY <1>0, <1>2, <1>3, <1>4, <2>2, <2>3, <2>4 DEF NumInv
<1>11. TapInv'
  BY <1>0, <1>3, <1>4, <1>5, <1>6, <1>8, <1>9 DEF TapInv
<1>12. SearchInv'
  <2>1. From' = From /\ \A o \in marks' : o < From => o \in marks
    BY <1>2, <1>6, <1>7
  <2> QED BY <1>0, <1>3, <1>4, <1>8, <2>1 DEF SearchInv, Up
<1>13. MarksInv'
  <2>1. \A o \in marks' : o < Seen => o \in marks
    BY <1>2, <1>6, <1>7, <1>9
  <2> QED BY <1>0, <1>3, <1>4, <1>8, <1>9, <2>1 DEF MarksInv, InLine, InCut, IsDropped
<1>14. LinesInv'
  BY <1>0, <1>4, <1>5, <1>8 DEF LinesInv, LineOk
<1>15. StartsInv'
  BY <1>0, <1>3, <1>4, <1>8 DEF StartsInv, LastIsOfSeg
<1>16. LostInv' /\ CountInv'
  BY <1>0, <1>3, <1>4 DEF LostInv, CountInv
<1> QED BY <1>10, <1>11, <1>12, <1>13, <1>14, <1>15, <1>16 DEF LineInv

(* A missing line start ends the scan outside resync mode.                 *)
LEMMA LosesSyncStep == LineInv /\ LosesSync => LineInv'
<1> SUFFICES ASSUME LineInv, LosesSync PROVE LineInv'
  OBVIOUS
<1>0. NumInv /\ TapInv /\ SearchInv /\ MarksInv /\ LinesInv /\ StartsInv /\ LostInv /\ CountInv
  BY DEF LineInv
<1>1. chunk' = [put |-> chunk.put, at |-> chunk.at, sy |-> "LOST_SYNC"] /\ synced /\ ~resync /\ ~IsOk'
  BY <1>0 DEF LosesSync, NumInv, IsOk
<1>2. /\ UNCHANGED <<skip0, resync, bytes, synced, origin, search_start, lines_base, lead_bytes, seg_start, rd, left, skip>>
      /\ UNCHANGED <<pend, tap_next, tap_line, tap_seg, marks, lines, cuts>>
  BY DEF LosesSync, cfg, grid, search, tap, history
<1>3. From' = From /\ To' = To /\ TapNext' = TapNext /\ TapLine' = TapLine /\ WindowEnd' = WindowEnd /\ Edge' = Edge
  BY <1>1, <1>2 DEF From, To, TapNext, TapLine, WindowEnd, Dropped, Edge
<1>4. NumInv'
  <2>1. (marks \subseteq Words(0, To))'
    BY <1>0, <1>2, <1>3 DEF NumInv, Words
  <2> QED BY <1>0, <1>1, <1>2, <1>3, <2>1 DEF NumInv
<1>5. TapInv' /\ SearchInv' /\ MarksInv' /\ StartsInv' /\ CountInv'
  BY <1>0, <1>1, <1>2, <1>3 DEF TapInv, SearchInv, MarksInv, StartsInv, CountInv, LastIsOfSeg
<1>6. LinesInv'
  BY <1>0, <1>2, <1>3 DEF LinesInv, LineOk
<1>7. LostInv'
  <2>1. PICK o \in Broken : TRUE
    BY DEF LosesSync
  <2>2. o \in From..To-1 /\ o >= origin /\ (o - origin) % LB = 0 /\ o \notin marks
    BY <2>1 DEF Broken
  <2>3. o \in origin..To-1
    BY <1>0, <2>2, Places DEF NumInv
  <2> QED BY <1>1, <1>2, <1>3, <2>2, <2>3 DEF LostInv
<1> QED BY <1>4, <1>5, <1>6, <1>7 DEF LineInv

(* The chunk's bytes count.                                                *)
LEMMA AcceptsStep == LineInv /\ Accepts => LineInv'
<1> SUFFICES ASSUME LineInv, Accepts PROVE LineInv'
  OBVIOUS
<1>0. NumInv /\ TapInv /\ SearchInv /\ MarksInv /\ LinesInv /\ StartsInv /\ LostInv /\ CountInv
  BY DEF LineInv
<1>1. /\ chunk' = [put |-> 0, at |-> 0, sy |-> chunk.sy] /\ rd = "sync" /\ rd' = "loop" /\ (IsOk => From = To) /\ IsOk' = IsOk
      /\ bytes' = bytes + chunk.put
  BY DEF Accepts, NoChunk, IsOk, Counted
<1>2. /\ UNCHANGED <<skip0, resync, synced, origin, search_start, lines_base, lead_bytes, seg_start, left, skip>>
      /\ UNCHANGED <<pend, tap_next, tap_line, tap_seg, marks, lines, cuts>>
  BY DEF Accepts, cfg, grid, search, tap, history
<1>3. From' = To /\ To' = To /\ bytes' = To /\ From \in Nat /\ To \in Nat /\ From <= To /\ bytes <= To /\ (IsOk => From' = From)
  <2>1. bytes' \in Nat /\ bytes' = To
    <3>1. bytes \in Nat /\ chunk.put \in Nat
      BY <1>0 DEF NumInv
    <3> QED BY <1>1, <3>1 DEF To
  <2>2. From' = bytes' + 0 /\ To' = bytes' + 0
    BY <1>1 DEF From, To
  <2> QED BY <1>0, <1>1, <2>1, <2>2, Places
<1>4. TapNext' = TapNext /\ TapLine' = TapLine /\ WindowEnd' = WindowEnd
  BY <1>2 DEF TapNext, TapLine, WindowEnd, Dropped
<1>5. NumInv'
  <2>1. (marks \subseteq Words(0, To))'
    BY <1>0, <1>2, <1>3 DEF NumInv, Words
  <2> QED BY <1>0, <1>1, <1>2, <1>3, <2>1 DEF NumInv
<1>6. TapInv'
  <2>1. ~ (IsOk /\ synced /\ tap_next = Unset)
    <3>1. origin \in Int /\ (IsOk /\ synced /\ tap_next = Unset => From <= origin /\ origin < To)
      BY <1>0 DEF TapInv, NumInv
    <3> QED BY <1>1, <1>3, <3>1
  <2> QED BY <1>0, <1>1, <1>2, <1>3, <1>4, <2>1 DEF TapInv
<1>7. SearchInv'
  BY <1>0, <1>1, <1>2, <1>3, <1>4 DEF SearchInv, Up
<1>8. MarksInv'
  BY <1>0, <1>1, <1>2, <1>3, <1>4 DEF MarksInv, Seen, InLine, InCut, IsDropped
<1>9. LinesInv'
  <2>1. Edge \in Int /\ Edge' \in Int /\ Edge <= Edge'
    <3>1. CASE synced
      <4>1. Edge' = Edge
        BY <1>2, <1>4, <3>1 DEF Edge
      <4>2. TapNext \in Int
        BY <1>0 DEF TapNext, TapInv, NumInv
      <4> QED BY <3>1, <4>1, <4>2 DEF Edge
    <3>2. CASE ~synced
      BY <1>2, <1>3, <3>2 DEF Edge
    <3> QED BY <3>1, <3>2
  <2>2. \A i \in 1..Len(lines) : lines[i].off \in Nat
    <3>1. \A i \in 1..Len(lines) : lines[i] \in Line
      BY <1>0, ElementOfSeq DEF NumInv
    <3> QED BY <3>1 DEF Line
  <2>3. \A c \in 1..Len(cuts) : cuts[c].to \in Nat
    <3>1. \A c \in 1..Len(cuts) : cuts[c] \in [from : Nat, to : Nat]
      BY <1>0, ElementOfSeq DEF NumInv
    <3> QED BY <3>1
  <2>4. bytes \in Nat /\ LB \in Nat
    BY <1>0, Numbers DEF NumInv
  <2>5. \A i \in 1..Len(lines) : LineOk(lines, Edge', i)
    BY <1>0, <2>1, <2>2, <2>4 DEF LinesInv, LineOk
  <2>6. \A c \in 1..Len(cuts) : cuts[c].to <= Edge' /\ cuts[c].to <= bytes'
    BY <1>0, <1>3, <2>1, <2>3, <2>4 DEF LinesInv
  <2> QED BY <1>2, <2>5, <2>6 DEF LinesInv, LineOk
<1>10. StartsInv' /\ CountInv'
  BY <1>0, <1>1, <1>2, <1>4 DEF StartsInv, CountInv, LastIsOfSeg
<1>11. LostInv'
  BY <1>0, <1>1, <1>2, <1>3, <1>4 DEF LostInv, WindowEnd, Dropped
<1> QED BY <1>5, <1>6, <1>7, <1>8, <1>9, <1>10, <1>11 DEF LineInv

(* A piece without a line start: the search goes on, or its window ends.   *)
LEMMA SearchesOnStep == LineInv /\ SearchesOn => LineInv'
<1> SUFFICES ASSUME LineInv, SearchesOn PROVE LineInv'
  OBVIOUS
<1>0. NumInv /\ TapInv /\ SearchInv /\ MarksInv /\ LinesInv /\ StartsInv /\ LostInv /\ CountInv
  BY DEF LineInv
<1>1. InPiece /\ ~synced /\ Searched \cap marks = {} /\ IsOk /\ From < To
  BY DEF SearchesOn, InPiece, IsOk
<1>2. /\ UNCHANGED <<skip0, resync, bytes, synced, origin, search_start, lines_base, lead_bytes, seg_start, rd>>
      /\ UNCHANGED <<pend, tap_next, tap_line, tap_seg, marks, lines, cuts>>
  BY DEF SearchesOn, cfg, grid, tap, history
<1>3. ~resync => left >= 1 /\ Reach = WindowEnd
  BY <1>0, <1>1 DEF SearchInv, Reach, Base
<1>4. /\ skip' \in 0..skip /\ left' \in 0..left
      /\ skip' > 0 => Up(To) + 2 * skip' = Base
      /\ ~resync => IF left' = 0 THEN To >= Reach - 1 ELSE Up(To) + 2 * skip' + 2 * left' = Reach /\ To < Reach
  BY <1>0, <1>1, <1>3, SearchesOnTo DEF SearchesOn
<1>5. chunk' = [put |-> chunk.put, at |-> chunk.put, sy |-> IF ~resync /\ left' = 0 THEN "LOST_SYNC" ELSE "OK"]
  BY <1>0 DEF SearchesOn, NumInv, InPiece
<1>6. /\ From \in Nat /\ To \in Nat /\ From < To /\ bytes \in Nat /\ skip \in Nat /\ left \in Nat
      /\ From' = To /\ To' = To /\ Base \in Nat /\ Reach \in Nat /\ Up(From) <= From + 1
      /\ Up(To) >= To /\ Up(To) \in Nat
  <2>1. From' = To /\ To' = To
    BY <1>2, <1>5 DEF From, To
  <2> QED BY <1>0, <1>1, <2>1, Places, SearchedIs, UpIs
<1>7. TapNext' = TapNext /\ TapLine' = TapLine /\ WindowEnd' = WindowEnd /\ Dropped' = Dropped
  BY <1>2 DEF TapNext, TapLine, WindowEnd, Dropped
<1>8. skip > 0 => tap_seg = 0 /\ search_start = 0 /\ Base <= 2 * skip0
  BY <1>0, <1>1 DEF SearchInv, Base
<1>9. ASSUME NEW o \in marks, From <= o, resync \/ o < Reach
      PROVE  o < 2 * skip0 /\ tap_seg = 0 /\ search_start = 0
  <2>1. o \notin Searched /\ o < To
    BY <1>0, <1>1, Places
  <2> QED BY <1>0, <1>1, <1>9, <2>1, NotSearched
<1>10. \A o \in marks : o \in Nat /\ o < To
  BY <1>0, Places
<1>11. NumInv'
  <2>1. left' \in 0..WINDOW /\ skip' \in 0..skip0'
    BY <1>0, <1>2, <1>4, <1>6, Places, Numbers
  <2>2. (marks \subseteq Words(0, To))'
    BY <1>0, <1>2, <1>6 DEF NumInv, Words
  <2>3. (chunk = [put |-> chunk.put, at |-> chunk.at, sy |-> chunk.sy])' /\ chunk'.put = chunk.put /\ chunk'.at = chunk.put /\ chunk'.sy \in {"OK", "LOST_SYNC", "NOMEM"}
    BY <1>5
  <2>4. chunk'.put \in Nat /\ chunk'.at \in 0..chunk'.put /\ rd' = "sync" /\ (To <= MAX_BYTES)'
    BY <1>0, <1>1, <1>2, <1>6, <2>3 DEF NumInv, InPiece
  <2> QED BY <1>0, <1>2, <1>6, <2>1, <2>2, <2>3, <2>4 DEF NumInv
<1>12. TapInv'
  BY <1>0, <1>1, <1>2, <1>7 DEF TapInv
<1>13. IsOk' => resync \/ left' # 0
  BY <1>5 DEF IsOk
<1>14. SearchInv'
  <2>1. ASSUME skip' > 0
        PROVE  ~synced' /\ tap_seg' = 0 /\ search_start' = 0 /\ (Up(From) + 2 * skip <= 2 * skip0)'
    <3>1. skip > 0
      BY <1>4, <1>6, <2>1
    <3> QED BY <1>1, <1>2, <1>4, <1>6, <1>8, <2>1, <3>1 DEF Up
  <2>2. search_start <= To
    <3>1. search_start <= Up(From) /\ search_start \in Nat /\ Up(From) \in Nat
      BY <1>0, <1>1, <1>6, Numbers, UpIs DEF SearchInv, NumInv
    <3> QED BY <1>6, <3>1
  <2>3. search_start' <= Up(From') /\ ~ (search_start' > From')
    <3>1. search_start \in Nat
      BY <1>0, Numbers DEF NumInv
    <3> QED BY <1>2, <1>6, <2>2, <3>1
  <2>4. IsOk' /\ ~resync' => left' >= 1 /\ Up(From') + 2 * skip' + 2 * left' = WindowEnd'
    BY <1>2, <1>3, <1>4, <1>6, <1>7, <1>13
  <2>5. ASSUME IsOk', NEW o \in marks, search_start <= o PROVE o < 2 * skip0 /\ tap_seg = 0
    <3>1. CASE o < From
      BY <1>0, <1>1, <2>5, <3>1 DEF SearchInv
    <3>2. CASE From <= o
      <4>1. resync \/ o < Reach
        BY <1>4, <1>6, <1>10, <1>13, <2>5
      <4> QED BY <1>9, <3>2, <4>1
    <3> QED BY <1>6, <1>10, <3>1, <3>2
  <2> QED BY <1>1, <1>2, <2>1, <2>3, <2>4, <2>5 DEF SearchInv, Up
<1>15. MarksInv'
  <2>1. SUFFICES ASSUME IsOk', NEW o \in marks, o < To PROVE InLine(o) \/ InCut(o) \/ IsDropped(o)
    BY <1>1, <1>2, <1>6 DEF MarksInv, Seen, InLine, InCut, IsDropped
  <2>2. CASE o < From
    BY <1>0, <1>1, <2>2 DEF MarksInv, Seen
  <2>3. CASE From <= o
    <3>1. resync \/ o < Reach
      BY <1>4, <1>6, <1>10, <1>13, <2>1
    <3>2. o < 2 * skip0 /\ tap_seg = 0
      BY <1>9, <2>3, <3>1
    <3>3. cuts = <<>>
      BY <1>0, <3>2, EmptySeq DEF NumInv
    <3> QED BY <3>2, <3>3 DEF IsDropped
  <2> QED BY <1>6, <1>10, <2>2, <2>3
<1>16. LinesInv'
  <2>1. Edge = From /\ Edge' = To
    BY <1>1, <1>2, <1>6 DEF Edge
  <2>2. \A i \in 1..Len(lines) : LineOk(lines, To, i)
    <3> TAKE i \in 1..Len(lines)
    <3>1. LineOk(lines, From, i) /\ lines[i] \in Line
      BY <1>0, <2>1, ElementOfSeq DEF LinesInv, NumInv
    <3>2. lines[i].off + LB \in Nat
      BY <3>1, Numbers DEF Line
    <3>3. lines[i].off + LB <= From => lines[i].off + LB <= To
      BY <1>6, <3>2
    <3> QED BY <3>1, <3>3 DEF LineOk
  <2>3. \A c \in 1..Len(cuts) : cuts[c].to <= To /\ cuts[c].to <= bytes
    <3> TAKE c \in 1..Len(cuts)
    <3>1. cuts[c].to <= From /\ cuts[c].to <= bytes /\ cuts[c] \in [from : Nat, to : Nat]
      BY <1>0, <2>1, ElementOfSeq DEF LinesInv, NumInv
    <3> QED BY <1>6, <3>1
  <2> QED BY <1>2, <2>1, <2>2, <2>3 DEF LinesInv, LineOk
<1>17. StartsInv' /\ CountInv'
  BY <1>0, <1>1, <1>2, <1>7 DEF StartsInv, CountInv, LastIsOfSeg
<1>18. LostInv'
  <2>1. SUFFICES ASSUME chunk'.sy = "LOST_SYNC"
                 PROVE  ~resync /\ To >= WindowEnd - 1 /\ Words(search_start + Dropped, WindowEnd) \cap marks = {}
    BY <1>1, <1>2, <1>6, <1>7 DEF LostInv
  <2>2. ~resync /\ left' = 0
    BY <1>5, <2>1
  <2>3. To >= WindowEnd - 1
    BY <1>3, <1>4, <2>2
  <2>4. search_start \in Nat /\ skip0 \in Nat /\ WINDOW \in Nat
    BY <1>0, Numbers DEF NumInv
  <2>5. (tap_seg = 0 => Dropped = 2 * skip0) /\ Dropped \in Nat /\ WindowEnd \in Nat
    BY <2>4 DEF Dropped, WindowEnd
  <2>7. SUFFICES ASSUME NEW o \in marks, search_start + Dropped <= o, o < WindowEnd PROVE FALSE
    <3>1. search_start + Dropped \in Nat
      BY <2>4, <2>5
    <3> QED BY <2>2, <2>3, <2>5, <3>1, MembersOfWords
  <2>6. o < 2 * skip0 /\ tap_seg = 0
    <3>1. CASE o < From
      <4>1. search_start <= o
        BY <1>10, <2>4, <2>5, <2>7
      <4> QED BY <1>0, <1>1, <3>1, <4>1 DEF SearchInv
    <3>2. CASE From <= o
      BY <1>3, <1>9, <2>2, <2>7, <3>2
    <3> QED BY <1>6, <1>10, <3>1, <3>2
  <2> QED BY <1>10, <2>4, <2>5, <2>6, <2>7
<1> QED BY <1>11, <1>12, <1>14, <1>15, <1>16, <1>17, <1>18 DEF LineInv

(* The first line start of a segment, or of a search that was restarted.   *)
LEMMA FindsStartStep == LineInv /\ FindsStart => LineInv'
<1> SUFFICES ASSUME LineInv, FindsStart PROVE LineInv'
  OBVIOUS
<1>0. NumInv /\ TapInv /\ SearchInv /\ MarksInv /\ LinesInv /\ StartsInv /\ LostInv /\ CountInv
  BY DEF LineInv
<1> DEFINE o == Min(Searched \cap marks)
<1>1. InPiece /\ ~synced /\ Searched \cap marks # {} /\ IsOk /\ From < To /\ rd = "sync"
  BY DEF FindsStart, InPiece, IsOk
<1>2. /\ origin' = o /\ synced' = TRUE /\ lead_bytes' = lead_bytes + o - search_start
      /\ left' = LeftAfter({p \in Searched : p < o}) /\ skip' = 0
      /\ \/ seg_start' = SegStart(o) /\ UNCHANGED chunk
         \/ seg_start = <<>> /\ UNCHANGED seg_start /\ chunk' = [chunk EXCEPT !.sy = "NOMEM"]
      /\ UNCHANGED <<skip0, resync, bytes, search_start, lines_base, rd, pend, tap_next, tap_line, tap_seg, marks, lines, cuts>>
  BY DEF FindsStart, cfg, tap, history
<1>3. o \in Searched /\ o \in marks /\ \A p \in Searched \cap marks : o <= p
  <2>1. Searched \cap marks \in SUBSET Nat
    BY <1>0, Places
  <2> QED BY <1>1, <2>1, LeastIs
<1> HIDE DEF o
<1>4. /\ From \in Nat /\ To \in Nat /\ bytes \in Nat /\ \A p \in marks : p \in Nat /\ p < To
      /\ o \in Nat /\ o % 2 = 0 /\ From <= o /\ o < To /\ o <= MAX_BYTES /\ MAX_BYTES \in Nat
      /\ (resync \/ o < Reach) /\ Reach \in Nat
  BY <1>0, <1>1, <1>3, Places, SearchedIs, MembersOfWords, Numbers
<1>5. search_start <= o /\ search_start \in Nat
  <2>1. search_start \in Nat /\ search_start <= Up(From)
    BY <1>0, <1>1, Numbers DEF NumInv, SearchInv
  <2>2. Up(From) <= o /\ Up(From) \in Nat
    BY <1>4, UpIs
  <2> QED BY <1>4, <2>1, <2>2
<1>6. /\ chunk' = [put |-> chunk.put, at |-> chunk.at, sy |-> chunk'.sy] /\ chunk'.put = chunk.put /\ chunk'.at = chunk.at
      /\ chunk'.sy \in {"OK", "NOMEM"} /\ (IsOk' => seg_start' = SegStart(o) /\ UNCHANGED chunk)
      /\ chunk.put \in Nat /\ chunk.at \in 0..chunk.put
  BY <1>0, <1>1, <1>2 DEF NumInv, IsOk
<1>7. From' = From /\ To' = To /\ tap_next = Unset /\ TapNext' = o /\ TapLine' = lines_base /\ Len(lines) = lines_base /\ TapLine = lines_base
  BY <1>0, <1>1, <1>2, <1>6 DEF From, To, TapNext, TapLine, TapInv
<1>8. NumInv'
  <2>1. left' \in 0..WINDOW
    BY <1>0, <1>1, <1>2, <1>3, LeftOfWindow
  <2>2. lead_bytes' \in Nat
    <3>1. lead_bytes \in Nat /\ lead_bytes' = lead_bytes + o - search_start
      BY <1>0, <1>2 DEF NumInv
    <3> QED BY <1>4, <1>5, <3>1
  <2>3. (marks \subseteq Words(0, To))'
    BY <1>0, <1>2, <1>7 DEF NumInv, Words
  <2>4. skip' \in 0..skip0' /\ origin' \in 0..MAX_BYTES /\ origin' % 2 = 0
    BY <1>0, <1>2, <1>4 DEF NumInv
  <2> QED BY <1>0, <1>1, <1>2, <1>6, <1>7, <2>1, <2>2, <2>3, <2>4 DEF NumInv
<1>9. TapInv'
  BY <1>0, <1>1, <1>2, <1>3, <1>4, <1>6, <1>7 DEF TapInv
<1>10. SearchInv'
  BY <1>2 DEF SearchInv
<1>11. MarksInv'
  <2>1. Seen' = o
    BY <1>2, <1>7 DEF Seen
  <2>2. SUFFICES ASSUME NEW p \in marks, p < o PROVE InLine(p) \/ InCut(p) \/ IsDropped(p)
    BY <1>2, <2>1 DEF MarksInv, InLine, InCut, IsDropped
  <2>3. CASE p < From
    BY <1>0, <1>1, <2>3 DEF MarksInv, Seen
  <2>4. CASE From <= p
    <3>1. p \notin Searched /\ (resync \/ p < Reach) /\ p < To
      BY <1>3, <1>4, <2>2
    <3>2. p < 2 * skip0 /\ tap_seg = 0
      BY <1>0, <1>1, <2>4, <3>1, NotSearched
    <3>3. cuts = <<>>
      BY <1>0, <3>2, EmptySeq DEF NumInv
    <3> QED BY <3>2, <3>3 DEF IsDropped
  <2> QED BY <1>4, <2>3, <2>4
<1>12. LinesInv'
  <2>1. Edge = From /\ Edge' = o
    BY <1>1, <1>2, <1>7 DEF Edge
  <2>2. \A i \in 1..Len(lines) : LineOk(lines, o, i)
    <3> TAKE i \in 1..Len(lines)
    <3>1. LineOk(lines, From, i) /\ lines[i] \in Line
      BY <1>0, <2>1, ElementOfSeq DEF LinesInv, NumInv
    <3>2. lines[i].off + LB \in Nat
      BY <3>1, Numbers DEF Line
    <3>3. lines[i].off + LB <= From => lines[i].off + LB <= o
      BY <1>4, <3>2
    <3> QED BY <3>1, <3>3 DEF LineOk
  <2>3. \A c \in 1..Len(cuts) : cuts[c].to <= o /\ cuts[c].to <= bytes
    <3> TAKE c \in 1..Len(cuts)
    <3>1. cuts[c].to <= From /\ cuts[c].to <= bytes /\ cuts[c] \in [from : Nat, to : Nat]
      BY <1>0, <2>1, ElementOfSeq DEF LinesInv, NumInv
    <3> QED BY <1>4, <3>1
  <2> QED BY <1>2, <2>1, <2>2, <2>3 DEF LinesInv, LineOk
<1>13. StartsInv'
  <2>1. tap_seg \in Nat
    BY <1>0 DEF NumInv
  <2>2. /\ DOMAIN seg_start' \subseteq 0..tap_seg /\ (IsOk' => tap_seg \in DOMAIN seg_start')
        /\ \A s \in DOMAIN seg_start : s \in DOMAIN seg_start' /\ seg_start'[s] = seg_start[s]
        /\ IsOk' /\ tap_seg \notin DOMAIN seg_start => seg_start'[tap_seg] = [off |-> o, line |-> lines_base]
    <3>1. CASE UNCHANGED seg_start /\ ~IsOk'
      BY <1>0, <3>1 DEF StartsInv
    <3>2. CASE seg_start' = SegStart(o)
      <4>1. CASE tap_seg \in DOMAIN seg_start
        <5>1. seg_start' = seg_start
          BY <3>2, <4>1 DEF SegStart
        <5> QED BY <1>0, <4>1, <5>1 DEF StartsInv
      <4>2. CASE tap_seg \notin DOMAIN seg_start
        <5>1. seg_start' = WithStart(o)
          BY <3>2, <4>2 DEF SegStart
        <5>2. /\ DOMAIN seg_start' = DOMAIN seg_start \cup {tap_seg}
              /\ seg_start'[tap_seg] = [off |-> o, line |-> lines_base]
              /\ \A s \in DOMAIN seg_start : seg_start'[s] = seg_start[s]
          BY <4>2, <5>1 DEF WithStart
        <5> QED BY <1>0, <2>1, <5>2 DEF StartsInv
      <4> QED BY <4>1, <4>2
    <3>3. IsOk' => seg_start' = SegStart(o)
      BY <1>6
    <3> QED BY <1>2, <3>1, <3>2, <3>3
  <2>3. ~LastIsOfSeg => tap_seg \notin DOMAIN seg_start
    BY <1>0, <1>1 DEF StartsInv
  <2>4. LastIsOfSeg' = LastIsOfSeg
    BY <1>2 DEF LastIsOfSeg
  <2>5. \A i \in 1..Len(lines) :
          /\ lines[i].seg \in DOMAIN seg_start'
          /\ (i = 1 \/ lines[i-1].seg < lines[i].seg) => seg_start'[lines[i].seg] = [off |-> lines[i].off, line |-> lines[i].line]
    BY <1>0, <2>2 DEF StartsInv
  <2> QED BY <1>2, <1>7, <2>2, <2>3, <2>4, <2>5 DEF StartsInv
<1>14. LostInv'
  BY <1>6 DEF LostInv
<1>15. CountInv'
  <2>1. SUFFICES ASSUME ~EMPTY_READS PROVE lines_base * LB + (lead_bytes + o - search_start) = o
    BY <1>2 DEF CountInv
  <2>2. lines_base * LB + lead_bytes = search_start
    BY <1>0, <1>1, <2>1 DEF CountInv
  <2>3. lines_base * LB \in Nat /\ lead_bytes \in Nat
    BY <1>0, LinesAt DEF NumInv
  <2> QED BY <1>4, <1>5, <2>2, <2>3
<1> QED BY <1>8, <1>9, <1>10, <1>11, <1>12, <1>13, <1>14, <1>15 DEF LineInv

-----------------------------------------------------------------------------
(* Between two chunks                                                      *)

(* What poll says of the grid is what the tap and the search hold.         *)
LEMMA PollIs ==
  ASSUME LineInv, Going
  PROVE  /\ From = bytes /\ To = bytes /\ bytes \in Nat /\ IsOk /\ chunk.put = 0 /\ chunk.at = 0
         /\ CutLines \in Nat /\ CutLines = TapLine /\ CutLead \in Nat
         /\ synced => /\ tap_next # Unset /\ tap_next \in Nat /\ tap_next <= bytes /\ TailBytes = Len(pend)
                      /\ CutLines * LB + Len(pend) + lead_bytes = lines_base * LB + lead_bytes - origin + bytes
         /\ ~synced => CutLines = lines_base /\ TailBytes = 0
                       /\ UnsyncedSpan = IF search_start <= bytes THEN bytes - search_start ELSE 0
<1>0. NumInv /\ TapInv /\ SearchInv
  BY DEF LineInv
<1>1. rd = "loop" /\ IsOk /\ chunk.put = 0 /\ chunk.at = 0
  BY <1>0 DEF Going, IsOk, NumInv
<1>2. bytes \in Nat /\ From = bytes /\ To = bytes /\ LB \in Nat /\ LB >= 2 /\ 0 \in 0..LB-1
      /\ origin \in Nat /\ lines_base \in Nat /\ lead_bytes \in Nat /\ search_start \in Nat /\ skip0 \in Nat /\ WINDOW \in Nat
  <2>1. bytes \in Nat /\ From = bytes + 0 /\ To = bytes + 0
    BY <1>0, <1>1 DEF NumInv, From, To
  <2>2. LB \in Nat /\ LB >= 2 /\ WINDOW \in Nat /\ MAX_BYTES \in Nat
    BY Numbers
  <2>3. origin \in Nat /\ lines_base \in Nat /\ lead_bytes \in Nat /\ search_start \in Nat /\ skip0 \in Nat
    BY <1>0, <2>2 DEF NumInv
  <2> QED BY <2>1, <2>2, <2>3
<1>3. CASE synced
  <2>1. tap_next # Unset /\ tap_next \in origin..MAX_BYTES /\ Len(pend) \in 0..LB-1 /\ tap_next + Len(pend) = bytes
    BY <1>0, <1>1, <1>2, <1>3 DEF TapInv
  <2>2. PICK m \in 0..MAX_BYTES : tap_next = origin + m * LB /\ tap_line = lines_base + m
    BY <1>0, <2>1 DEF TapInv
  <2>3. m \in Nat /\ m * LB \in Nat /\ Len(pend) \in Nat
    BY <2>1, <2>2, LinesAt, Numbers
  <2>4. InLines = m * LB + Len(pend)
    <3>1. bytes - origin = m * LB + Len(pend) /\ bytes >= origin
      BY <1>2, <2>1, <2>2, <2>3
    <3> QED BY <1>2, <1>3, <3>1 DEF InLines
  <2>5. InLines \div LB = m /\ InLines % LB = Len(pend)
    BY <2>1, <2>3, <2>4, DivIs
  <2>6. CutLines = lines_base + m /\ TailBytes = Len(pend) /\ CutLead = Len(pend) /\ TapLine = lines_base + m
    BY <1>3, <2>1, <2>2, <2>5 DEF CutLines, TailBytes, CutLead, TapLine
  <2>7. (lines_base + m) * LB = lines_base * LB + m * LB /\ lines_base * LB \in Nat
    BY <1>2, <2>3, LinesAt
  <2>8. CutLines * LB + Len(pend) + lead_bytes = lines_base * LB + lead_bytes - origin + bytes
    BY <1>2, <2>1, <2>2, <2>3, <2>6, <2>7
  <2> QED BY <1>1, <1>2, <1>3, <2>1, <2>3, <2>6, <2>8
<1>4. CASE ~synced
  <2>1. InLines = 0
    BY <1>4 DEF InLines
  <2>2. 0 = 0 * LB + 0 /\ 0 \in Nat
    BY <1>2
  <2>3. InLines \div LB = 0 /\ InLines % LB = 0
    BY <1>2, <2>1, <2>2, DivIs
  <2>4. CutLines = lines_base /\ TailBytes = 0 /\ CutLead = UnsyncedSpan /\ TapLine = lines_base
    BY <1>0, <1>2, <1>4, <2>3 DEF CutLines, TailBytes, CutLead, TapLine, TapInv
  <2>5. UnsyncedSpan = IF search_start <= bytes THEN bytes - search_start ELSE 0
    <3>1. CASE bytes <= search_start
      BY <1>2, <3>1 DEF UnsyncedSpan
    <3>2. CASE bytes > search_start
      <4> DEFINE span == bytes - search_start
                 cap == 2 * WINDOW + Dropped
      <4>1. span \in Nat /\ cap \in Nat
        BY <1>2, <3>2 DEF Dropped
      <4>2. ~resync => span <= cap
        <5>1. SUFFICES ASSUME ~resync PROVE span <= cap
          OBVIOUS
        <5>2. Up(From) + 2 * skip + 2 * left = WindowEnd
          BY <1>0, <1>1, <1>4, <5>1 DEF SearchInv
        <5>3. bytes <= Up(From) /\ Up(From) \in Nat /\ skip \in Nat /\ left \in Nat
          BY <1>0, <1>2, Places, UpIs
        <5>4. WindowEnd = search_start + cap
          BY <1>2, <4>1 DEF WindowEnd, Dropped
        <5> HIDE DEF cap
        <5> QED BY <1>2, <4>1, <5>2, <5>3, <5>4
      <4>3. Min({span, cap}) = IF span <= cap THEN span ELSE cap
        BY <4>1, LesserIs
      <4>4. UnsyncedSpan = IF resync THEN span ELSE Min({span, cap})
        BY <1>2, <1>4, <3>2 DEF UnsyncedSpan
      <4> HIDE DEF span, cap
      <4>5. UnsyncedSpan = span
        BY <4>2, <4>3, <4>4
      <4> QED BY <1>2, <3>2, <4>5 DEF span
    <3> QED BY <1>2, <3>1, <3>2
  <2>6. UnsyncedSpan \in Nat
    BY <1>2, <2>5
  <2> QED BY <1>1, <1>2, <1>4, <2>4, <2>5, <2>6
<1> QED BY <1>3, <1>4

(* A re-arm: what it cuts off is no line, and the next search begins at    *)
(* the next whole word.                                                    *)
LEMMA RearmsStep == LineInv /\ Rearms => LineInv'
<1> SUFFICES ASSUME LineInv, Rearms PROVE LineInv'
  OBVIOUS
<1>0. NumInv /\ TapInv /\ SearchInv /\ MarksInv /\ LinesInv /\ StartsInv /\ LostInv /\ CountInv
  BY DEF LineInv
<1>1. Going /\ rd = "loop" /\ chunk.sy = "OK"
  BY DEF Rearms, Going
<1>2. /\ lines_base' = CutLines /\ lead_bytes' = lead_bytes + CutLead + (bytes % 2) /\ search_start' = Up(bytes)
      /\ left' = WINDOW /\ skip' = 0 /\ tap_next' = Unset /\ pend' = <<>> /\ synced' = FALSE /\ tap_seg' = tap_seg + 1
      /\ cuts' = Append(cuts, [from |-> IF synced THEN tap_next ELSE bytes, to |-> bytes])
      /\ UNCHANGED <<skip0, resync, bytes, origin, seg_start, chunk, rd, tap_line, marks, lines>>
  BY DEF Rearms, TakesRearm, NewWindow, CutPend, cfg, Up
<1>3. /\ From = bytes /\ To = bytes /\ bytes \in Nat /\ IsOk
      /\ CutLines \in Nat /\ CutLines = TapLine /\ CutLead \in Nat
      /\ synced => tap_next # Unset /\ tap_next \in Nat /\ tap_next <= bytes
  BY <1>1, PollIs
<1>4. From' = bytes /\ To' = bytes /\ IsOk'
  BY <1>2, <1>3 DEF From, To, IsOk
<1>5. Up(bytes) \in Nat /\ Up(bytes) % 2 = 0 /\ bytes <= Up(bytes) /\ Up(bytes) <= bytes + 1 /\ bytes <= MAX_BYTES /\ MAX_BYTES \in Nat /\ WINDOW \in Nat /\ WINDOW >= 1
  BY <1>0, <1>3, Numbers, Places, UpIs
<1> DEFINE x == [from |-> IF synced THEN tap_next ELSE bytes, to |-> bytes]
           n == Len(cuts)
<1>6. /\ cuts \in Seq([from : Nat, to : Nat]) /\ n \in Nat /\ tap_seg = n /\ x \in [from : Nat, to : Nat]
      /\ cuts' \in Seq([from : Nat, to : Nat]) /\ Len(cuts') = n + 1 /\ cuts'[n + 1] = x
      /\ \A c \in 1..n : cuts'[c] = cuts[c]
  <2>1. cuts \in Seq([from : Nat, to : Nat]) /\ n \in Nat /\ tap_seg = n
    BY <1>0 DEF NumInv
  <2>2. x \in [from : Nat, to : Nat]
    BY <1>3
  <2>3. cuts' = Append(cuts, x)
    BY <1>2
  <2> HIDE DEF x
  <2> QED BY <2>1, <2>2, <2>3, AppendProperties
<1>7. x.to = bytes /\ (synced => x.from = tap_next)
  OBVIOUS
<1> HIDE DEF x, n
<1>8. \A c \in 1..Len(cuts') : c \in 1..n \/ c = n + 1
  BY <1>6
<1>9. NumInv'
  <2>1. lead_bytes' \in Nat
    <3>1. lead_bytes \in Nat
      BY <1>0 DEF NumInv
    <3>2. bytes % 2 \in Nat
      BY <1>3
    <3> QED BY <1>2, <1>3, <3>1, <3>2
  <2>2. search_start' \in 0..MAX_BYTES + 1 /\ search_start' % 2 = 0
    <3>1. Up(bytes) \in 0..MAX_BYTES + 1
      BY <1>3, <1>5
    <3>2. search_start' = Up(bytes)
      BY <1>2
    <3> QED BY <1>5, <3>1, <3>2
  <2>3. (marks \subseteq Words(0, To))'
    BY <1>0, <1>2, <1>3, <1>4 DEF NumInv, Words
  <2>4. left' \in 0..WINDOW /\ skip' \in 0..skip0'
    <3>1. skip0 \in Nat
      BY <1>0 DEF NumInv
    <3> QED BY <1>2, <1>5, <3>1
  <2>5. tap_seg' = Len(cuts')
    BY <1>2, <1>6
  <2>6. synced' \in BOOLEAN /\ lines_base' \in Nat
    BY <1>2, <1>3
  <2>7. (To <= MAX_BYTES)'
    BY <1>4, <1>5
  <2> QED BY <1>0, <1>2, <1>6, <2>1, <2>2, <2>3, <2>4, <2>5, <2>6, <2>7 DEF NumInv
<1>10. TapInv'
  <2>1. TapLine' = TapLine
    BY <1>2, <1>3 DEF TapLine
  <2> QED BY <1>0, <1>2, <2>1 DEF TapInv
<1>11. SearchInv'
  <2>1. search_start' > From' => \E c \in DOMAIN cuts' : cuts'[c].to = From'
    <3>1. n + 1 \in DOMAIN cuts'
      BY <1>6
    <3> QED BY <1>4, <1>6, <1>7, <3>1
  <2>2. WindowEnd' = Up(bytes) + 2 * WINDOW
    <3>1. Dropped' = 0
      BY <1>2, <1>6 DEF Dropped
    <3> QED BY <1>2, <1>5, <3>1 DEF WindowEnd
  <2>3. Up(From')  = Up(bytes) /\ Up(From)' = Up(bytes)
    BY <1>4 DEF Up
  <2>4. left' >= 1 /\ Up(bytes) + 2 * skip' + 2 * left' = WindowEnd'
    BY <1>2, <1>5, <2>2
  <2>5. ~ (\E o \in marks : search_start' <= o /\ o < From')
    BY <1>0, <1>2, <1>3, <1>4, <1>5, Places
  <2> QED BY <1>2, <1>4, <1>5, <2>1, <2>3, <2>4, <2>5 DEF SearchInv
<1>12. MarksInv'
  <2>1. Seen' = bytes /\ Seen = bytes
    BY <1>2, <1>3, <1>4 DEF Seen
  <2>2. SUFFICES ASSUME NEW o \in marks, o < bytes PROVE InLine(o) \/ InCut(o)' \/ IsDropped(o)'
    BY <1>2, <2>1 DEF MarksInv, InLine
  <2>3. o \in Nat
    BY <1>0, Places
  <2>4. InCut(o) => InCut(o)'
    <3>1. SUFFICES ASSUME NEW c \in 1..n, cuts[c].from <= o, o < cuts[c].to PROVE InCut(o)'
      BY DEF InCut, n
    <3>2. c \in 1..Len(cuts') /\ cuts'[c] = cuts[c]
      BY <1>6
    <3> QED BY <3>1, <3>2 DEF InCut
  <2>5. IsDropped(o) => IsDropped(o)'
    <3>1. SUFFICES ASSUME IsDropped(o) PROVE o < cuts'[1].to
      BY <1>2 DEF IsDropped
    <3>2. CASE n = 0
      BY <1>6, <1>7, <2>2, <3>2
    <3>3. CASE n # 0
      <4>1. 1 \in 1..n /\ cuts # <<>>
        BY <1>6, <3>3, EmptySeq DEF n
      <4> QED BY <1>6, <3>1, <4>1 DEF IsDropped
    <3> QED BY <3>2, <3>3
  <2>6. synced /\ o >= TapNext => InCut(o)'
    <3>1. SUFFICES ASSUME synced, o >= TapNext PROVE InCut(o)'
      OBVIOUS
    <3>2. TapNext = tap_next
      BY <1>3, <3>1 DEF TapNext
    <3>3. n + 1 \in 1..Len(cuts') /\ cuts'[n + 1].from <= o /\ o < cuts'[n + 1].to
      BY <1>3, <1>6, <1>7, <2>2, <2>3, <3>1, <3>2
    <3> QED BY <3>3 DEF InCut
  <2> QED BY <1>0, <1>3, <2>1, <2>2, <2>4, <2>5, <2>6 DEF MarksInv
<1>13. LinesInv'
  <2>1. Edge' = bytes /\ Edge \in Int /\ Edge <= bytes
    BY <1>2, <1>3, <1>4 DEF Edge, TapNext
  <2>2. ASSUME NEW i \in 1..Len(lines) PROVE (LineOk(lines, Edge, i))'
    <3>1. LineOk(lines, Edge, i) /\ lines[i] \in Line
      BY <1>0, ElementOfSeq DEF LinesInv, NumInv
    <3>2. lines[i].off + LB \in Nat /\ lines[i].seg \in Nat
      BY <3>1, Numbers DEF Line
    <3>3. lines[i].off + LB <= bytes
      <4>1. lines[i].off + LB <= Edge
        BY <3>1 DEF LineOk
      <4> QED BY <1>3, <2>1, <3>2, <4>1
    <3>4. lines[i].seg <= tap_seg + 1 /\ lines[i].seg < n + 1
      <4>1. lines[i].seg <= tap_seg
        BY <3>1 DEF LineOk
      <4> QED BY <1>6, <3>2, <4>1
    <3>5. \A c \in 1..Len(cuts') : IF lines[i].seg < c THEN lines[i].off + LB <= cuts'[c].to ELSE lines[i].off >= cuts'[c].to
      <4> TAKE c \in 1..Len(cuts')
      <4>1. CASE c \in 1..n
        <5>1. IF lines[i].seg < c THEN lines[i].off + LB <= cuts[c].to ELSE lines[i].off >= cuts[c].to
          BY <3>1, <4>1 DEF LineOk, n
        <5> QED BY <1>6, <4>1, <5>1
      <4>2. CASE c = n + 1
        BY <1>6, <1>7, <3>3, <3>4, <4>2
      <4> QED BY <1>8, <4>1, <4>2
    <3> QED BY <1>2, <2>1, <3>1, <3>3, <3>4, <3>5 DEF LineOk
  <2>3. \A c \in 1..Len(cuts') : cuts'[c].to <= bytes
    <3> TAKE c \in 1..Len(cuts')
    <3>1. CASE c \in 1..n
      BY <1>0, <1>6, <3>1 DEF LinesInv, n
    <3>2. CASE c = n + 1
      BY <1>3, <1>6, <1>7, <3>2
    <3> QED BY <1>8, <3>1, <3>2
  <2> QED BY <1>2, <2>1, <2>2, <2>3 DEF LinesInv
<1>14. StartsInv'
  <2>1. tap_seg' \notin DOMAIN seg_start /\ DOMAIN seg_start \subseteq 0..tap_seg'
    BY <1>0, <1>2, <1>6 DEF StartsInv
  <2> QED BY <1>0, <1>2, <2>1 DEF StartsInv
<1>15. LostInv'
  BY <1>1, <1>2 DEF LostInv
<1>16. CountInv'
  <2>1. SUFFICES ASSUME ~EMPTY_READS PROVE CutLines * LB + (lead_bytes + CutLead + (bytes % 2)) = Up(bytes)
    BY <1>2 DEF CountInv
  <2>2. /\ synced => /\ TailBytes = Len(pend)
                     /\ CutLines * LB + Len(pend) + lead_bytes = lines_base * LB + lead_bytes - origin + bytes
        /\ ~synced => CutLines = lines_base /\ UnsyncedSpan = IF search_start <= bytes THEN bytes - search_start ELSE 0
    BY <1>1, PollIs
  <2>3. /\ CutLines * LB \in Nat /\ lines_base * LB \in Nat /\ lead_bytes \in Nat /\ bytes % 2 \in Nat
        /\ search_start \in Nat /\ origin \in Nat /\ Up(bytes) = bytes + (bytes % 2)
    <3>1. lines_base \in Nat /\ lead_bytes \in Nat /\ search_start \in Nat /\ origin \in Nat
      BY <1>0, Numbers DEF NumInv
    <3>2. CutLines * LB \in Nat /\ lines_base * LB \in Nat
      BY <1>3, <3>1, LinesAt
    <3> QED BY <1>3, <3>1, <3>2 DEF Up
  <2>4. CASE synced
    <3>1. CutLead = Len(pend) /\ lines_base * LB + lead_bytes = origin
      BY <1>0, <2>1, <2>2, <2>4 DEF CountInv, CutLead
    <3>2. CutLines * LB + CutLead + lead_bytes = bytes
      BY <1>3, <2>2, <2>3, <2>4, <3>1
    <3>3. \A a, b, c, d \in Nat : a + c + b = bytes => a + (b + c + d) = bytes + d
      BY <1>3
    <3>4. CutLines * LB + (lead_bytes + CutLead + (bytes % 2)) = bytes + (bytes % 2)
      <4> DEFINE a == CutLines * LB
                 d == bytes % 2
      <4>1. a \in Nat /\ d \in Nat /\ lead_bytes \in Nat /\ CutLead \in Nat /\ a + CutLead + lead_bytes = bytes
        BY <1>3, <2>3, <3>2
      <4> HIDE DEF a, d
      <4>2. a + (lead_bytes + CutLead + d) = bytes + d
        BY <3>3, <4>1
      <4> QED BY <4>2 DEF a, d
    <3> QED BY <2>3, <3>4
  <2>5. CASE ~synced
    <3>1. CutLead = UnsyncedSpan /\ lines_base * LB + lead_bytes = search_start
      BY <1>0, <2>1, <2>5 DEF CountInv, CutLead
    <3>2. search_start <= bytes
      <4>1. ~ (\E c \in DOMAIN cuts : cuts[c].to = bytes)
        <5> SUFFICES ASSUME NEW c \in DOMAIN cuts, cuts[c].to = bytes PROVE FALSE
          OBVIOUS
        <5>1. cuts[c].to < bytes
          BY <2>1 DEF Rearms
        <5> QED BY <1>3, <5>1
      <4>2. ~ (search_start > bytes)
        BY <1>0, <1>3, <2>5, <4>1 DEF SearchInv
      <4> QED BY <1>3, <2>3, <4>2
    <3>3. CutLead = bytes - search_start
      BY <2>2, <2>5, <3>1, <3>2
    <3>4. CutLines * LB + lead_bytes = search_start
      BY <2>2, <2>5, <3>1
    <3> QED BY <1>3, <2>3, <3>2, <3>3, <3>4
  <2> QED BY <2>4, <2>5
<1> QED BY <1>9, <1>10, <1>11, <1>12, <1>13, <1>14, <1>15, <1>16 DEF LineInv

-----------------------------------------------------------------------------
(* On the grid                                                             *)

(* A line start is where a whole number of lines lies behind origin.       *)
LEMMA BrokenIs ==
  ASSUME NumInv, NEW o \in Broken
  PROVE  /\ o \in Nat /\ From <= o /\ o < To /\ origin <= o /\ o \notin marks
         /\ \E k \in Nat : o = origin + k * LB
<1>1. o \in From..To-1 /\ o >= origin /\ (o - origin) % LB = 0 /\ o \notin marks
  BY DEF Broken
<1>2. From \in Nat /\ To \in Nat /\ origin \in Nat /\ LB \in Nat
  <2>1. LB \in Nat /\ MAX_BYTES \in Nat
    BY Numbers
  <2>2. From \in Nat /\ To \in Nat
    BY Places
  <2> QED BY <2>1, <2>2 DEF NumInv
<1>3. o \in Nat /\ o - origin \in Nat
  BY <1>1, <1>2
<1>4. PICK k \in Nat, t \in 0..LB-1 : o - origin = k * LB + t
  <2>1. \E k \in 0..(o - origin), t \in 0..LB-1 : o - origin = k * LB + t
    BY <1>3, DivExists
  <2>2. 0..(o - origin) \subseteq Nat
    BY <1>3
  <2> QED BY <2>1, <2>2
<1>5. t = 0
  BY <1>1, <1>4, DivIs
<1>6. o = origin + k * LB
  BY <1>2, <1>3, <1>4, <1>5, LinesAt
<1> QED BY <1>1, <1>2, <1>3, <1>6

(* A call of tap_lines: how many lines there are up to end.                *)
LEMMA TapsExist ==
  ASSUME NumInv, TapInv, InPiece, synced, NEW end \in Nat, From <= end, end <= To, TapNext <= end,
         \A o \in Broken : end <= o, TapLines(end)
  PROVE  \E q \in Nat, r \in 0..LB-1 : TapsTo(end, q, r)
<1>1. TapNext \in Nat /\ end - TapNext \in Nat
  BY TapIs
<1>2. PICK q \in 0..(end - TapNext), r \in 0..LB-1 : end - TapNext = q * LB + r
  BY <1>1, DivExists
<1>3. q \in Nat /\ q * LB \in Nat /\ r \in Nat
  BY <1>1, <1>2, LinesAt, Numbers
<1>4. end = TapNext + q * LB + r
  BY <1>1, <1>2, <1>3
<1> QED BY <1>2, <1>3, <1>4 DEF TapsTo

(* No line start of the piece is broken: the lines go to the callback.     *)
LEMMA KeepsGridStep == LineInv /\ KeepsGrid => LineInv'
<1> SUFFICES ASSUME LineInv, KeepsGrid PROVE LineInv'
  OBVIOUS
<1>0. NumInv /\ TapInv /\ SearchInv /\ MarksInv /\ LinesInv /\ StartsInv /\ LostInv /\ CountInv
  BY DEF LineInv
<1>1. InPiece /\ synced /\ IsOk /\ From < To /\ rd = "sync" /\ Broken = {} /\ TapLines(To)
      /\ tap_next' = TapNext + Whole(To) * LB /\ pend' = Rest(To) /\ chunk' = [chunk EXCEPT !.at = chunk.put]
  BY DEF KeepsGrid, InPiece, IsOk
<1>2. UNCHANGED <<skip0, resync, bytes, synced, origin, search_start, lines_base, lead_bytes, seg_start, rd, left, skip, tap_seg, marks, cuts>>
  BY DEF KeepsGrid, cfg, grid, search
<1>3. From \in Nat /\ To \in Nat /\ To <= MAX_BYTES /\ bytes \in Nat /\ MAX_BYTES \in Nat
  BY <1>0, Places, Numbers
<1>4. /\ TapNext \in Nat /\ origin \in Nat /\ origin <= TapNext /\ TapNext <= To /\ From < TapNext + LB
      /\ \E m \in 0..MAX_BYTES : TapNext = origin + m * LB /\ TapLine = lines_base + m
      /\ tap_next = Unset => From <= origin
  BY <1>0, <1>1, TapIs
<1>5. PICK q \in Nat, r \in 0..LB-1 : TapsTo(To, q, r)
  BY <1>0, <1>1, <1>3, <1>4, TapsExist
<1>6. /\ To = TapNext + q * LB + r /\ q * LB \in Nat /\ r \in Nat /\ LB \in Nat /\ lines_base \in Nat
      /\ tap_line' = TapLine + q /\ lines' \in Seq(Line) /\ Len(lines') = Len(lines) + q /\ Len(lines) = TapLine /\ Len(lines) \in Nat
      /\ \A i \in 1..Len(lines) : lines'[i] = lines[i]
  <2>1. lines_base \in Nat
    BY <1>0 DEF NumInv
  <2> QED BY <1>5, <2>1, TapsAdd, LinesAt, Numbers DEF TapsTo
<1> DEFINE w == q * LB
           e == TapNext + w
<1>7. e \in Nat /\ e + r = To /\ TapNext <= e /\ e <= To
  <2>1. w \in Nat /\ r \in Nat /\ To = TapNext + w + r
    BY <1>6
  <2> HIDE DEF w
  <2> QED BY <1>3, <1>4, <2>1
<1>8. tap_next' = e /\ pend' = Run(e, r) /\ Len(pend') = r
  <2>1. Whole(To) = q /\ Rest(To) = Run(TapNext + q * LB, r)
    BY <1>0, <1>1, <1>3, <1>6, WholeIs
  <2>2. Len(Run(e, r)) = r
    BY <1>6, <1>7, RunIs
  <2> QED BY <1>1, <2>1, <2>2
<1>9. PICK m \in 0..MAX_BYTES : TapNext = origin + m * LB /\ TapLine = lines_base + m
  BY <1>4
<1>10. m \in Nat /\ m * LB \in Nat /\ m + q \in Nat /\ (m + q) * LB = m * LB + q * LB /\ m + q <= (m + q) * LB
  <2>1. m \in Nat /\ m + q \in Nat
    BY <1>3
  <2> QED BY <1>6, <2>1, LinesAt
<1>11. e = origin + (m + q) * LB /\ tap_line' = lines_base + (m + q) /\ m + q \in 0..MAX_BYTES
  <2>1. e = origin + (m + q) * LB
    <3> DEFINE v == m * LB
               u == (m + q) * LB
    <3>1. w \in Nat /\ v \in Nat /\ u = v + w /\ TapNext = origin + v
      BY <1>6, <1>9, <1>10
    <3> HIDE DEF u, v, w
    <3>2. TapNext + w = origin + u
      BY <1>4, <3>1
    <3> QED BY <3>2 DEF u
  <2>2. m + q <= MAX_BYTES
    <3> DEFINE u == (m + q) * LB
               j == m + q
    <3>1. j \in Nat /\ u \in Nat /\ j <= u /\ e = origin + u
      BY <1>10, <2>1, LinesAt
    <3> HIDE DEF u, j, e
    <3>2. j <= MAX_BYTES
      BY <1>3, <1>4, <1>7, <3>1
    <3> QED BY <3>2 DEF j
  <2> QED BY <1>3, <1>6, <1>9, <1>10, <2>1, <2>2
<1>12. /\ chunk' = [put |-> chunk.put, at |-> chunk.put, sy |-> "OK"] /\ IsOk' /\ From' = To /\ To' = To
       /\ chunk.put \in Nat
  <2>1. chunk' = [put |-> chunk.put, at |-> chunk.put, sy |-> "OK"] /\ chunk.put \in Nat
    BY <1>0, <1>1 DEF NumInv, IsOk
  <2> QED BY <1>2, <2>1 DEF From, To, IsOk
<1>13. tap_next' # Unset /\ TapNext' = e /\ TapLine' = tap_line' /\ WindowEnd' = WindowEnd /\ Edge' = e /\ Edge = TapNext
  <2>1. tap_next' # Unset
    BY <1>7, <1>8 DEF Unset
  <2> QED BY <1>1, <1>2, <1>8, <2>1 DEF TapNext, TapLine, WindowEnd, Dropped, Edge
<1> HIDE DEF e, w
<1>14. NumInv'
  <2>1. (marks \subseteq Words(0, To))'
    BY <1>0, <1>2, <1>12 DEF NumInv, Words
  <2>2. tap_line' \in Nat
    BY <1>6, <1>9, <1>10, <1>11
  <2>3. (To <= MAX_BYTES)' /\ rd' = "sync" /\ chunk'.put \in Nat /\ chunk'.at \in 0..chunk'.put /\ chunk'.sy = "OK"
        /\ (chunk = [put |-> chunk.put, at |-> chunk.at, sy |-> chunk.sy])'
    <3>1. To' <= MAX_BYTES
      BY <1>3, <1>12
    <3>2. chunk'.put = chunk.put /\ chunk'.at = chunk.put /\ chunk'.sy = "OK"
      BY <1>12
    <3>3. (chunk = [put |-> chunk.put, at |-> chunk.at, sy |-> chunk.sy])'
      BY <1>12
    <3>4. chunk'.put \in Nat /\ chunk'.at \in 0..chunk'.put
      BY <1>12, <3>2
    <3>5. (To <= MAX_BYTES)'
      BY <3>1
    <3> QED BY <1>1, <1>2, <3>2, <3>3, <3>4, <3>5
  <2> QED BY <1>0, <1>2, <1>6, <2>1, <2>2, <2>3 DEF NumInv
<1>15. TapInv'
  <2>1. tap_next' \in origin..MAX_BYTES
    BY <1>3, <1>4, <1>7, <1>8
  <2>2. Len(lines') = TapLine'
    BY <1>6, <1>13
  <2>3. e < To => e \in marks
    <3>1. SUFFICES ASSUME e < To PROVE e \in marks
      OBVIOUS
    <3>2. TapNext + q * LB < To
      BY <3>1 DEF e, w
    <3> QED BY <1>0, <1>1, <1>3, <3>2, StartsMarked DEF e, w
  <2>4. tap_next' = origin + (m + q) * LB /\ tap_line' = lines_base + (m + q) /\ m + q \in 0..MAX_BYTES
    BY <1>8, <1>11
  <2>5. pend' = Run(tap_next', Len(pend')) /\ Len(pend') \in 0..LB-1 /\ tap_next' + Len(pend') = To
    BY <1>5, <1>7, <1>8
  <2>6. origin \in marks
    BY <1>0, <1>1 DEF TapInv
  <2> QED BY <1>1, <1>2, <1>8, <1>12, <1>13, <2>1, <2>2, <2>3, <2>4, <2>5, <2>6 DEF TapInv
<1>16. SearchInv'
  <2>1. ~ (skip > 0)
    BY <1>0, <1>1 DEF SearchInv
  <2> QED BY <1>1, <1>2, <2>1 DEF SearchInv
<1>17. MarksInv'
  <2>1. Seen' = To
    BY <1>2, <1>12, <1>13 DEF Seen
  <2>2. SUFFICES ASSUME NEW o \in marks, o < e PROVE InLine(o)' \/ InCut(o) \/ IsDropped(o)
    <3>1. \A o \in marks : o \in Nat
      BY <1>0, Places
    <3> QED BY <1>1, <1>2, <1>7, <1>13, <2>1, <3>1 DEF MarksInv, InCut, IsDropped
  <2>3. o \in Nat
    BY <1>0, Places
  <2>4. CASE TapNext <= o
    <3>1. o < TapNext + q * LB
      BY <2>2 DEF e, w
    <3> QED BY <1>5, <2>3, <2>4, <3>1, NewLinesCover DEF InLine
  <2>5. CASE o < TapNext
    <3>1. TapNext <= Seen
      <4>1. CASE tap_next = Unset
        BY <1>1, <1>4, <4>1 DEF Seen, TapNext
      <4>2. CASE tap_next # Unset
        BY <1>0, <1>1, <4>2, TapBehind DEF Seen
      <4> QED BY <4>1, <4>2
    <3>2. Seen \in Nat
      BY <1>3, <1>4 DEF Seen
    <3>3. InLine(o) \/ InCut(o) \/ IsDropped(o)
      BY <1>0, <1>1, <1>4, <2>3, <2>5, <3>1, <3>2 DEF MarksInv
    <3>4. InLine(o) => InLine(o)'
      <4>1. \A i \in 1..Len(lines) : i \in 1..Len(lines') /\ lines'[i] = lines[i]
        BY <1>6
      <4> QED BY <4>1 DEF InLine
    <3> QED BY <3>3, <3>4
  <2> QED BY <1>4, <2>3, <2>4, <2>5
<1>18. LinesInv'
  <2>1. \A i \in 1..Len(lines') : LineOk(lines', e, i)
    BY <1>5, NewLinesOk DEF e, w
  <2>2. \A c \in 1..Len(cuts) : cuts[c].to <= e /\ cuts[c].to <= bytes
    <3> TAKE c \in 1..Len(cuts)
    <3>1. cuts[c].to <= TapNext /\ cuts[c].to <= bytes /\ cuts[c] \in [from : Nat, to : Nat]
      BY <1>0, <1>13, ElementOfSeq DEF LinesInv, NumInv
    <3> QED BY <1>4, <1>7, <3>1
  <2> QED BY <1>2, <1>13, <2>1, <2>2 DEF LinesInv, LineOk
<1>19. StartsInv'
  <2>1. /\ \A i \in 1..Len(lines') :
             /\ lines'[i].seg \in DOMAIN seg_start
             /\ (i = 1 \/ lines'[i-1].seg < lines'[i].seg) => seg_start[lines'[i].seg] = [off |-> lines'[i].off, line |-> lines'[i].line]
        /\ q = 0 => Len(lines') = Len(lines) /\ (Len(lines) > 0 => lines'[Len(lines)] = lines[Len(lines)])
        /\ q > 0 => Len(lines') > 0 /\ lines'[Len(lines')].seg = tap_seg
    BY <1>5, NewLinesStart
  <2>2. ASSUME ~LastIsOfSeg'
        PROVE  TapNext' = origin /\ TapLine' = lines_base /\ seg_start[tap_seg] = [off |-> origin, line |-> lines_base]
    <3>1. q = 0
      BY <1>2, <2>1, <2>2 DEF LastIsOfSeg
    <3>2. ~LastIsOfSeg
      BY <1>2, <2>1, <2>2, <3>1 DEF LastIsOfSeg
    <3>3. TapNext = origin /\ TapLine = lines_base /\ seg_start[tap_seg] = [off |-> origin, line |-> lines_base]
      BY <1>0, <1>1, <3>2 DEF StartsInv
    <3>4. e = TapNext /\ tap_line' = TapLine
      BY <1>4, <1>6, <3>1, Numbers DEF e, w
    <3> QED BY <1>13, <3>3, <3>4
  <2>3. DOMAIN seg_start \subseteq 0..tap_seg /\ tap_seg \in DOMAIN seg_start
    BY <1>0, <1>1 DEF StartsInv
  <2> QED BY <1>1, <1>2, <2>1, <2>2, <2>3 DEF StartsInv
<1>20. LostInv' /\ CountInv'
  BY <1>0, <1>2, <1>12 DEF LostInv, CountInv
<1> QED BY <1>14, <1>15, <1>16, <1>17, <1>18, <1>19, <1>20 DEF LineInv

(* A missing line start in resync mode: the lines before it go to the      *)
(* callback, and the search starts again where it was missed.              *)
LEMMA RestartsSearchStep == LineInv /\ RestartsSearch => LineInv'
<1> SUFFICES ASSUME LineInv, RestartsSearch PROVE LineInv'
  OBVIOUS
<1>0. NumInv /\ TapInv /\ SearchInv /\ MarksInv /\ LinesInv /\ StartsInv /\ LostInv /\ CountInv
  BY DEF LineInv
<1> DEFINE pos == Min(Broken)
<1>1. /\ InPiece /\ synced /\ IsOk /\ From < To /\ rd = "sync" /\ Broken # {} /\ resync /\ TapLines(pos)
      /\ lines_base' = lines_base + ((pos - origin) \div LB) /\ lead_bytes' = lead_bytes + ((pos - origin) % LB)
      /\ search_start' = pos /\ chunk' = [chunk EXCEPT !.at = pos - bytes]
      /\ synced' = FALSE /\ tap_next' = Unset /\ pend' = <<>>
  BY DEF RestartsSearch, InPiece, IsOk
<1>2. UNCHANGED <<skip0, resync, bytes, origin, seg_start, rd, left, skip, tap_seg, marks, cuts>>
  BY DEF RestartsSearch, cfg, search
<1>3. From \in Nat /\ To \in Nat /\ To <= MAX_BYTES /\ bytes \in Nat /\ MAX_BYTES \in Nat /\ bytes <= From
  BY <1>0, Places, Numbers
<1>4. /\ TapNext \in Nat /\ origin \in Nat /\ origin <= TapNext /\ origin \in marks
      /\ \E m \in 0..MAX_BYTES : TapNext = origin + m * LB /\ TapLine = lines_base + m
      /\ tap_next = Unset => From <= origin
  BY <1>0, <1>1, TapIs
<1>5. pos \in Broken /\ \A o \in Broken : pos <= o
  <2>1. Broken \subseteq Nat
    BY <1>0, BrokenIs
  <2> QED BY <1>1, <2>1, LeastIs
<1> HIDE DEF pos
<1>6. pos \in Nat /\ From <= pos /\ pos < To /\ origin <= pos /\ pos \notin marks /\ \E k \in Nat : pos = origin + k * LB
  BY <1>0, <1>5, BrokenIs
<1>7. PICK M \in Nat : pos = origin + M * LB
  BY <1>6
<1>8. PICK m \in 0..MAX_BYTES : TapNext = origin + m * LB /\ TapLine = lines_base + m
  BY <1>4
<1>9. M * LB \in Nat /\ m \in Nat /\ m * LB \in Nat /\ LB \in Nat /\ lines_base \in Nat /\ lead_bytes \in Nat /\ 0 \in 0..LB-1
  <2>1. m \in Nat /\ LB \in Nat /\ 0 \in 0..LB-1
    BY <1>3, Numbers
  <2>2. lines_base \in Nat /\ lead_bytes \in Nat
    BY <1>0 DEF NumInv
  <2> QED BY <1>7, <2>1, <2>2, LinesAt
<1>10. TapNext <= pos
  <2>1. CASE tap_next = Unset
    BY <1>6, <2>1 DEF TapNext
  <2>2. CASE tap_next # Unset
    <3>1. TapNext <= From
      BY <1>0, <1>1, <2>2, TapBehind
    <3> QED BY <1>3, <1>4, <1>6, <3>1
  <2> QED BY <2>1, <2>2
<1>11. PICK q \in Nat : M = m + q
  <2>1. CASE M >= m
    <3>1. M - m \in Nat /\ M = m + (M - m)
      BY <1>9, <2>1
    <3> QED BY <3>1
  <2>2. CASE M < m
    <3>1. m - M - 1 \in Nat /\ m = M + 1 + (m - M - 1)
      BY <1>9, <2>2
    <3>2. m * LB = M * LB + LB + (m - M - 1) * LB /\ (m - M - 1) * LB \in Nat
      BY <1>9, <3>1, LinesAt
    <3> DEFINE a == M * LB
               b == m * LB
               d == (m - M - 1) * LB
    <3>3. a \in Nat /\ b \in Nat /\ d \in Nat /\ b = a + LB + d /\ pos = origin + a /\ TapNext = origin + b
      BY <1>7, <1>8, <1>9, <3>2
    <3> HIDE DEF a, b, d
    <3> QED BY <1>4, <1>10, <3>3, Numbers
  <2> QED BY <1>9, <2>1, <2>2
<1> DEFINE w == q * LB
<1>12. w \in Nat /\ M * LB = m * LB + w /\ pos = TapNext + w /\ pos = TapNext + w + 0
  <2>1. w \in Nat /\ M * LB = m * LB + w
    BY <1>9, <1>11, LinesAt
  <2> DEFINE a == M * LB
             b == m * LB
  <2>2. a \in Nat /\ b \in Nat /\ a = b + w /\ pos = origin + a /\ TapNext = origin + b
    BY <1>7, <1>8, <1>9, <2>1
  <2> HIDE DEF a, b, w
  <2> QED BY <1>4, <2>1, <2>2
<1>13. TapsTo(pos, q, 0)
  <2>1. pos <= To
    BY <1>3, <1>6
  <2> QED BY <1>1, <1>5, <1>6, <1>9, <1>12, <2>1 DEF TapsTo
<1> HIDE DEF w
<1>14. /\ tap_line' = TapLine + q /\ lines' \in Seq(Line) /\ Len(lines') = Len(lines) + q /\ Len(lines) = TapLine /\ Len(lines) \in Nat
       /\ \A i \in 1..Len(lines) : lines'[i] = lines[i]
  BY <1>13, TapsAdd
<1>15. lines_base' = lines_base + M /\ lead_bytes' = lead_bytes /\ lines_base' = TapLine + q
  <2>1. pos - origin = M * LB + 0
    BY <1>4, <1>7, <1>9
  <2>2. (pos - origin) \div LB = M /\ (pos - origin) % LB = 0
    BY <1>9, <2>1, DivIs
  <2> QED BY <1>1, <1>8, <1>9, <1>11, <2>2
<1>16. /\ chunk' = [put |-> chunk.put, at |-> pos - bytes, sy |-> "OK"] /\ IsOk' /\ From' = pos /\ To' = To
       /\ chunk.put \in Nat /\ pos - bytes \in 0..chunk.put
  <2>1. chunk' = [put |-> chunk.put, at |-> pos - bytes, sy |-> "OK"] /\ chunk.put \in Nat
    BY <1>0, <1>1 DEF NumInv, IsOk
  <2>2. From' = bytes + (pos - bytes) /\ To' = To /\ To = bytes + chunk.put
    BY <1>2, <2>1 DEF From, To
  <2> QED BY <1>3, <1>6, <2>1, <2>2 DEF IsOk
<1>17. TapLine' = lines_base' /\ Edge' = pos /\ Edge = TapNext
  BY <1>1, <1>16 DEF TapLine, Edge
<1>18. pos % 2 = 0
  <2>1. origin % 2 = 0 /\ (M * LB) % 2 = 0
    BY <1>0, LinesAt DEF NumInv
  <2>2. \A a, b \in Nat : a % 2 = 0 /\ b % 2 = 0 => (a + b) % 2 = 0
    OBVIOUS
  <2> QED BY <1>4, <1>7, <1>9, <2>1, <2>2
<1>19. \A o \in marks : o \in Nat
  BY <1>0, Places
<1>20. NumInv'
  <2>1. (marks \subseteq Words(0, To))'
    BY <1>0, <1>2, <1>16 DEF NumInv, Words
  <2>2. tap_line' \in Nat /\ lines_base' \in Nat /\ lead_bytes' \in Nat
    BY <1>9, <1>14, <1>15
  <2>3. chunk'.put \in Nat /\ chunk'.at \in 0..chunk'.put /\ chunk'.sy = "OK" /\ (chunk = [put |-> chunk.put, at |-> chunk.at, sy |-> chunk.sy])'
    BY <1>16
  <2>4. (To <= MAX_BYTES)' /\ rd' = "sync" /\ synced' \in BOOLEAN
    BY <1>1, <1>2, <1>3, <1>16
  <2>5. search_start' \in 0..MAX_BYTES + 1 /\ search_start' % 2 = 0
    BY <1>1, <1>3, <1>6, <1>18
  <2> QED BY <1>0, <1>2, <1>14, <2>1, <2>2, <2>3, <2>4, <2>5 DEF NumInv
<1>21. TapInv'
  BY <1>1, <1>14, <1>15, <1>17 DEF TapInv
<1>22. SearchInv'
  <2>1. ~ (skip > 0)
    BY <1>0, <1>1 DEF SearchInv
  <2>2. pos <= Up(pos) /\ ~ (pos > pos)
    BY <1>6, UpIs
  <2>3. Up(From)' = Up(pos)
    BY <1>16 DEF Up
  <2>4. \A o \in marks : ~ (pos <= o /\ o < pos)
    BY <1>6, <1>19
  <2> QED BY <1>1, <1>2, <1>16, <2>1, <2>2, <2>3, <2>4 DEF SearchInv
<1>23. MarksInv'
  <2>1. Seen' = pos
    BY <1>1, <1>16 DEF Seen
  <2>2. SUFFICES ASSUME NEW o \in marks, o < pos PROVE InLine(o)' \/ InCut(o) \/ IsDropped(o)
    BY <1>2, <2>1 DEF MarksInv, InCut, IsDropped
  <2>3. o \in Nat
    BY <1>19
  <2>4. CASE TapNext <= o
    <3>1. o < TapNext + q * LB
      BY <1>12, <2>2 DEF w
    <3> QED BY <1>13, <2>3, <2>4, <3>1, NewLinesCover DEF InLine
  <2>5. CASE o < TapNext
    <3>1. TapNext <= Seen
      <4>1. CASE tap_next = Unset
        BY <1>1, <1>4, <4>1 DEF Seen, TapNext
      <4>2. CASE tap_next # Unset
        BY <1>0, <1>1, <4>2, TapBehind DEF Seen
      <4> QED BY <4>1, <4>2
    <3>2. Seen \in Nat
      BY <1>3, <1>4 DEF Seen
    <3>3. InLine(o) \/ InCut(o) \/ IsDropped(o)
      BY <1>0, <1>1, <1>4, <2>3, <2>5, <3>1, <3>2 DEF MarksInv
    <3>4. InLine(o) => InLine(o)'
      <4>1. \A i \in 1..Len(lines) : i \in 1..Len(lines') /\ lines'[i] = lines[i]
        BY <1>14
      <4> QED BY <4>1 DEF InLine
    <3> QED BY <3>3, <3>4
  <2> QED BY <1>4, <2>3, <2>4, <2>5
<1>24. LinesInv'
  <2>1. \A i \in 1..Len(lines') : LineOk(lines', pos, i)
    BY <1>12, <1>13, NewLinesOk DEF w
  <2>2. \A c \in 1..Len(cuts) : cuts[c].to <= pos /\ cuts[c].to <= bytes
    <3> TAKE c \in 1..Len(cuts)
    <3>1. cuts[c].to <= TapNext /\ cuts[c].to <= bytes /\ cuts[c] \in [from : Nat, to : Nat]
      BY <1>0, <1>17, ElementOfSeq DEF LinesInv, NumInv
    <3> QED BY <1>4, <1>6, <1>10, <3>1
  <2> QED BY <1>2, <1>17, <2>1, <2>2 DEF LinesInv, LineOk
<1>25. StartsInv'
  <2>1. /\ \A i \in 1..Len(lines') :
             /\ lines'[i].seg \in DOMAIN seg_start
             /\ (i = 1 \/ lines'[i-1].seg < lines'[i].seg) => seg_start[lines'[i].seg] = [off |-> lines'[i].off, line |-> lines'[i].line]
        /\ q = 0 => Len(lines') = Len(lines) /\ (Len(lines) > 0 => lines'[Len(lines)] = lines[Len(lines)])
        /\ q > 0 => Len(lines') > 0 /\ lines'[Len(lines')].seg = tap_seg
    BY <1>13, NewLinesStart
  <2>2. LastIsOfSeg'
    <3>1. CASE q > 0
      BY <1>2, <2>1, <3>1 DEF LastIsOfSeg
    <3>2. CASE q = 0
      <4>1. TapNext = pos
        BY <1>4, <1>12, <3>2, Numbers DEF w
      <4>2. LastIsOfSeg
        BY <1>0, <1>1, <1>4, <1>6, <4>1 DEF StartsInv
      <4> QED BY <1>2, <2>1, <3>2, <4>2 DEF LastIsOfSeg
    <3> QED BY <3>1, <3>2
  <2>3. DOMAIN seg_start \subseteq 0..tap_seg
    BY <1>0 DEF StartsInv
  <2> QED BY <1>1, <1>2, <2>1, <2>2, <2>3 DEF StartsInv
<1>26. LostInv'
  BY <1>16 DEF LostInv
<1>27. CountInv'
  <2>1. SUFFICES ASSUME ~EMPTY_READS PROVE (lines_base + M) * LB + lead_bytes = pos
    BY <1>1, <1>15 DEF CountInv
  <2>2. lines_base * LB + lead_bytes = origin
    BY <1>0, <1>1, <2>1 DEF CountInv
  <2>3. (lines_base + M) * LB = lines_base * LB + M * LB /\ lines_base * LB \in Nat
    BY <1>9, LinesAt
  <2> DEFINE a == lines_base * LB
             b == M * LB
  <2>4. a \in Nat /\ b \in Nat /\ a + lead_bytes = origin /\ pos = origin + b /\ (lines_base + M) * LB = a + b
    BY <1>7, <1>9, <2>2, <2>3
  <2> HIDE DEF a, b
  <2> QED BY <1>9, <2>4
<1> QED BY <1>20, <1>21, <1>22, <1>23, <1>24, <1>25, <1>26, <1>27 DEF LineInv

-----------------------------------------------------------------------------
(* The theorems                                                            *)

(* Every step keeps the invariant.                                         *)
LEMMA LineInvStep == LineInv /\ [LineNext]_linevars => LineInv'
BY LineInvStutter, NextChunkStep, LosesSyncStep, AcceptsStep, SearchesOnStep, FindsStartStep, RearmsStep, KeepsGridStep, RestartsSearchStep
   DEF LineNext, Syncs

(* Where the reader is in the bytes, for chunks, skipped words, windows    *)
(* and lines of any length and any re-arms: the inductive invariant.       *)
THEOREM LineInvariance == LineSpec => []LineInv
<1>1. LineInit => LineInv
  BY LineInvInit
<1>2. LineInv /\ [LineNext]_linevars => LineInv'
  BY LineInvStep
<1> QED BY <1>1, <1>2, PTL DEF LineSpec

(* What the invariant says of the state.                                   *)
LEMMA LineInvTypes == LineInv => LineTypeOK
<1> SUFFICES ASSUME LineInv PROVE LineTypeOK
  OBVIOUS
<1>0. NumInv /\ TapInv
  BY DEF LineInv
<1>1. MAX_BYTES \in Nat /\ LB \in Nat /\ LB >= 2
  BY Numbers
<1>2. bytes \in Nat /\ bytes <= MAX_BYTES
  BY <1>0, <1>1, Places
<1>3. {bytes, search_start} \subseteq 0..MAX_BYTES + 1 /\ origin \in Unset..MAX_BYTES
  <2>1. search_start \in 0..MAX_BYTES + 1 /\ origin \in 0..MAX_BYTES
    BY <1>0 DEF NumInv
  <2> QED BY <1>1, <1>2, <2>1 DEF Unset
<1>4. tap_next \in Unset..MAX_BYTES /\ Len(pend) < LB
  <2>1. CASE tap_next = Unset
    BY <1>0, <1>1, <2>1 DEF TapInv, Unset
  <2>2. CASE tap_next # Unset
    <3>1. tap_next \in origin..MAX_BYTES /\ Len(pend) \in 0..LB-1
      BY <1>0, <2>2 DEF TapInv
    <3>2. origin \in Nat /\ LB \in Nat /\ Len(pend) < LB
      <4>1. origin \in 0..MAX_BYTES
        BY <1>0 DEF NumInv
      <4> QED BY <1>1, <3>1, <4>1
    <3>3. tap_next \in Unset..MAX_BYTES
      BY <1>1, <3>1, <3>2 DEF Unset
    <3> QED BY <3>2, <3>3
  <2> QED BY <2>1, <2>2
<1> QED BY <1>0, <1>3, <1>4 DEF LineTypeOK, NumInv

(* A tap that is set holds a number of bytes.                              *)
LEMMA LineInvTapLen == LineInv /\ Going /\ synced => Len(pend) \in Nat
<1> SUFFICES ASSUME LineInv, Going, synced PROVE Len(pend) \in Nat
  OBVIOUS
<1>1. tap_next # Unset
  BY PollIs
<1>2. Len(pend) \in 0..LB-1
  BY <1>1 DEF LineInv, TapInv
<1> QED BY <1>2, Numbers

(* Where poll counts what the tap and the search hold, each byte is        *)
(* counted.                                                                *)
LEMMA LineInvCounts == LineInv /\ ~EMPTY_READS => EveryByteIsCounted
<1> SUFFICES ASSUME LineInv, ~EMPTY_READS, Going
             PROVE  Lines * LB + TailBytes + Lead = IF ~synced /\ search_start > bytes THEN search_start ELSE bytes
  BY DEF EveryByteIsCounted
<1>0. NumInv /\ CountInv
  BY DEF LineInv
<1>1. /\ bytes \in Nat /\ CutLines \in Nat
      /\ synced => TailBytes = Len(pend) /\ CutLines * LB + Len(pend) + lead_bytes = lines_base * LB + lead_bytes - origin + bytes
      /\ ~synced => CutLines = lines_base /\ TailBytes = 0 /\ UnsyncedSpan = IF search_start <= bytes THEN bytes - search_start ELSE 0
  BY PollIs
<1>2. Lines = CutLines
  BY DEF Lines, CutLines
<1>3. lines_base * LB \in Nat /\ CutLines * LB \in Nat /\ lead_bytes \in Nat /\ origin \in Nat /\ search_start \in Nat
  <2>1. lines_base \in Nat /\ lead_bytes \in Nat /\ origin \in Nat /\ search_start \in Nat
    BY <1>0, Numbers DEF NumInv
  <2> QED BY <1>1, <2>1, LinesAt
<1> DEFINE a == CutLines * LB
           b == lines_base * LB
<1>4. CASE synced
  <2>1. Lead = lead_bytes + 0
    BY <1>4 DEF Lead, UnsyncedSpan
  <2>2. b + lead_bytes = origin
    BY <1>0, <1>4 DEF CountInv
  <2>3. a \in Nat /\ b \in Nat /\ a + TailBytes + lead_bytes = b + lead_bytes - origin + bytes
    BY <1>1, <1>3, <1>4
  <2>4. Lines * LB = a /\ TailBytes \in Nat
    <3>1. Len(pend) \in Nat
      BY <1>4, Numbers, LineInvTapLen DEF Going
    <3> QED BY <1>1, <1>2, <1>4, <3>1
  <2> HIDE DEF a, b
  <2>5. a + TailBytes + (lead_bytes + 0) = bytes
    BY <1>1, <1>3, <2>2, <2>3, <2>4
  <2> QED BY <1>4, <2>1, <2>4, <2>5
<1>5. CASE ~synced
  <2>1. Lead = lead_bytes + (IF search_start <= bytes THEN bytes - search_start ELSE 0)
    BY <1>1, <1>5 DEF Lead
  <2>2. b + lead_bytes = search_start
    BY <1>0, <1>5 DEF CountInv
  <2>3. Lines * LB = b /\ b \in Nat /\ TailBytes = 0
    BY <1>1, <1>2, <1>3, <1>5
  <2> HIDE DEF b
  <2> QED BY <1>1, <1>3, <1>5, <2>1, <2>2, <2>3
<1> QED BY <1>4, <1>5

(* The lines of LinesInv are whole, and as many as poll counts.            *)
LEMMA LineInvWhole == LineInv => LinesAreWhole
<1> SUFFICES ASSUME LineInv PROVE LinesAreWhole
  OBVIOUS
<1>1. lines \in Seq(Line) /\ cuts \in Seq([from : Nat, to : Nat]) /\ DOMAIN lines = 1..Len(lines) /\ DOMAIN cuts = 1..Len(cuts)
  BY DEF LineInv, NumInv
<1>2. \A i \in 1..Len(lines) : LineOk(lines, Edge, i)
  BY DEF LineInv, LinesInv
<1>3. Going => Len(lines) = Lines
  <2>1. Going => CutLines = TapLine
    BY PollIs
  <2> QED BY <2>1 DEF LineInv, TapInv, CutLines, Lines
<1> QED BY <1>1, <1>2, <1>3 DEF LinesAreWhole, LineOk, Run

(* Between two chunks all bytes have been looked at: what MarksInv,        *)
(* SearchInv and LostInv say up to there they say of all bytes.            *)
LEMMA LineInvSync == LineInv => SyncIsOfTheBytes
<1> SUFFICES ASSUME LineInv PROVE SyncIsOfTheBytes
  OBVIOUS
<1>0. NumInv /\ TapInv /\ SearchInv /\ MarksInv /\ LostInv
  BY DEF LineInv
<1>1. lines \in Seq(Line) /\ cuts \in Seq([from : Nat, to : Nat]) /\ DOMAIN lines = 1..Len(lines) /\ DOMAIN cuts = 1..Len(cuts)
  BY <1>0 DEF NumInv
<1>2. ASSUME Going, NEW o \in Words(0, bytes) \cap marks
      PROVE  \/ \E i \in DOMAIN lines : o \in lines[i].off .. lines[i].off + LB - 1
             \/ \E c \in DOMAIN cuts : o \in cuts[c].from .. cuts[c].to - 1
             \/ o < 2 * skip0 /\ (cuts # <<>> => o < cuts[1].to)
             \/ synced /\ o >= tap_next
  <2>1. From = bytes /\ IsOk /\ bytes \in Nat /\ (synced => tap_next # Unset)
    BY <1>2, PollIs
  <2>2. o \in Nat /\ o < bytes /\ Seen = bytes /\ (synced => TapNext = tap_next)
    BY <1>2, <2>1, MembersOfWords DEF Seen, TapNext
  <2>3. InLine(o) \/ InCut(o) \/ IsDropped(o) \/ (synced /\ o >= tap_next)
    BY <1>0, <1>2, <2>1, <2>2 DEF MarksInv
  <2>4. CASE InLine(o)
    <3>1. PICK i \in 1..Len(lines) : lines[i].off <= o /\ o < lines[i].off + LB
      BY <2>4 DEF InLine
    <3>2. lines[i].off \in Nat /\ LB \in Nat
      <4>1. lines[i] \in Line
        BY <1>1, ElementOfSeq
      <4> QED BY <4>1, Numbers DEF Line
    <3>3. o \in lines[i].off .. lines[i].off + LB - 1
      BY <2>2, <3>1, <3>2
    <3> QED BY <1>1, <3>3
  <2>5. CASE InCut(o)
    <3>1. PICK c \in 1..Len(cuts) : cuts[c].from <= o /\ o < cuts[c].to
      BY <2>5 DEF InCut
    <3>2. cuts[c].from \in Nat /\ cuts[c].to \in Nat
      <4>1. cuts[c] \in [from : Nat, to : Nat]
        BY <1>1, ElementOfSeq
      <4> QED BY <4>1
    <3>3. o \in cuts[c].from .. cuts[c].to - 1
      BY <2>2, <3>1, <3>2
    <3> QED BY <1>1, <3>3
  <2> QED BY <2>3, <2>4, <2>5 DEF IsDropped
<1>3. ASSUME Going, ~resync
      PROVE  IF synced THEN tap_next < bytes => tap_next \in marks ELSE bytes < WindowEnd - 1
  <2>1. From = bytes /\ IsOk /\ bytes \in Nat /\ (synced => tap_next # Unset)
    BY <1>3, PollIs
  <2>2. CASE synced
    BY <1>0, <2>1, <2>2 DEF TapInv
  <2>3. CASE ~synced
    <3>1. left >= 1 /\ Up(bytes) + 2 * skip + 2 * left = WindowEnd
      BY <1>0, <1>3, <2>1, <2>3 DEF SearchInv
    <3>2. bytes <= Up(bytes) /\ Up(bytes) \in Nat /\ skip \in Nat /\ left \in Nat
      BY <1>0, <2>1, UpIs, Places
    <3>3. bytes < WindowEnd - 1
      BY <2>1, <3>1, <3>2
    <3> QED BY <2>3, <3>3
  <2> QED BY <2>2, <2>3
<1>4. ASSUME rd = "loop", chunk.sy = "LOST_SYNC"
      PROVE  /\ ~resync
             /\ IF synced THEN \E o \in origin..bytes-1 : (o - origin) % LB = 0 /\ o \notin marks
                ELSE bytes >= WindowEnd - 1 /\ Words(search_start + Dropped, WindowEnd) \cap marks = {}
  <2>1. To = bytes
    <3>1. chunk.put = 0 /\ bytes \in Nat
      BY <1>0, <1>4 DEF NumInv
    <3> QED BY <3>1 DEF To
  <2> QED BY <1>0, <1>4, <2>1 DEF LostInv
<1> QED BY <1>2, <1>3, <1>4 DEF SyncIsOfTheBytes

(* The starts of StartsInv are what pk_stream_segment_start returns.       *)
LEMMA LineInvStarts == LineInv => SegmentStartIsItsFirstLine
<1> SUFFICES ASSUME LineInv PROVE SegmentStartIsItsFirstLine
  OBVIOUS
<1>1. DOMAIN lines = 1..Len(lines)
  BY DEF LineInv, NumInv
<1> QED BY <1>1 DEF LineInv, StartsInv, SegmentStartIsItsFirstLine

(* Whole lines, the grid and the segments' starts are a matter of the      *)
(* bytes and the re-arms, also with reads that bring nothing; with such    *)
(* reads only the count of bytes can be wrong.                             *)
THEOREM GridIsOfTheBytes == LineSpec => [](LineTypeOK /\ LinesAreWhole /\ SyncIsOfTheBytes /\ SegmentStartIsItsFirstLine)
<1>1. LineInv => LineTypeOK /\ LinesAreWhole /\ SyncIsOfTheBytes /\ SegmentStartIsItsFirstLine
  BY LineInvTypes, LineInvWhole, LineInvSync, LineInvStarts
<1> QED BY <1>1, LineInvariance, PTL

(* What the stream makes of the bytes, however they are cut into chunks,   *)
(* when no read brings nothing.                                            *)
THEOREM LinesAreOfTheStream == ASSUME ~EMPTY_READS PROVE LineSpec => []LinesAreOfTheBytes
<1>1. LineInv => LinesAreOfTheBytes
  BY LineInvTypes, LineInvCounts, LineInvWhole, LineInvSync, LineInvStarts DEF LinesAreOfTheBytes
<1> QED BY <1>1, LineInvariance, PTL
=============================================================================
