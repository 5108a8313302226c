-------------------------------- MODULE Frame ---------------------------------
(***************************************************************************)
(* The frame detector (core/src/framing/frame.c) on a 35 mm strip, from    *)
(* the rows above the threshold to the rectangles it hands over.  A strip  *)
(* is the runs of its bright rows: the histogram and the two walks of the  *)
(* threshold end at some threshold, and which one only decides what runs   *)
(* there are, so the runs are any.                                         *)
(*                                                                         *)
(* A frame sits in the slot of its place, two slots to the pitch; what two *)
(* passes put into one slot is one frame, though each counts it.           *)
(***************************************************************************)
EXTENDS Integers, Sequences, FiniteSets, FiniteSetsExt

CONSTANTS
  PITCH,     \* rows from frame to frame: scan window / ratio
  SIZE,      \* rows of a frame: frame_pitch_lines / ratio
  RATIO,     \* lines of a row
  PLANES,    \* 3, or 4 with IR
  RUNS,      \* bound: bright runs of a strip
  GAPS, BRIGHTS, ENDS, ODD   \* the rows before a bright run, in it, after the last, and the
                             \* lines beyond the last whole row of a strip

ASSUME FrameAssumption ==
  /\ PITCH \in Nat /\ SIZE \in 1..PITCH /\ RATIO \in {4, 6, 8} /\ PLANES \in {3, 4} /\ RUNS \in Nat
  /\ GAPS \subseteq Nat /\ BRIGHTS \subseteq Nat \ {0} /\ ENDS \subseteq Nat /\ ODD \subseteq 0..(RATIO - 1)

(* pitch_window's three frame heights (1603, 2405 and 3206 lines to 1500,  *)
(* 2250 and 3000, at any of the ratios); and the runs are of the rows that *)
(* all planes have.                                                        *)
ASSUME GeometryAssumption ==
  /\ PITCH >= 200 /\ 10 * SIZE >= 9 * PITCH /\ PITCH - SIZE >= 12
  /\ \A n \in ENDS : n >= PLANES - 2

VARIABLES
  strip,   \* its film lines, and its runs of bright rows in order
  mode,    \* frame_pass's: detection with the strip's ends, then blind
  rects    \* the rectangles it returned
frameVars == <<strip, mode, rects>>

-----------------------------------------------------------------------------
(* The strip's sizes: pkd_strip_finish, pkd_strip_readable_rows and        *)
(* pkr_hires_readable_lines                                                *)
Stored   == strip.lines \div RATIO + 1
Rows     == Stored - (PLANES - 1)
Readable == strip.lines - (PLANES - 1) * RATIO
LAST     == Rows - 1
Slots    == (Rows * 2) \div PITCH
Cap      == Slots + 64
LINES    == SIZE * RATIO

(* find_runs: nothing without a rising edge, and a run at row 0 counts its *)
(* first row twice.                                                        *)
Rising == \E i \in DOMAIN strip.bright : strip.bright[i].start > 0
Runs   == IF ~Rising THEN <<>>
          ELSE [i \in DOMAIN strip.bright |->
                 IF strip.bright[i].start = 0 THEN [strip.bright[i] EXCEPT !.len = @ + 1] ELSE strip.bright[i]]

ShortOf == (SIZE * 95) \div 100
LongOf  == (SIZE * 115) \div 100

-----------------------------------------------------------------------------
(* The frames so far: what is in the slots, and how often a pass counted   *)
Empty == [start |-> 0, width |-> 0, src |-> 0]
NoFrames  == [at |-> [k \in 0..(Cap - 1) |-> Empty], count |-> 0]
IsFrame(e) == e.start # 0 /\ e.width # 0

PlaceOf_PerPitch(p) == p \div PITCH
PlaceOf(p) == (p * 2) \div PITCH

Put(f, p, width) ==
  [at |-> IF p >= 0 /\ PlaceOf(p) < Cap THEN [f.at EXCEPT ![PlaceOf(p)] = [@ EXCEPT !.start = p, !.width = width]] ELSE f.at,
   count |-> f.count + 1]

Framed(f) == {k \in 0..(Slots - 1) : IsFrame(f.at[k])}

(* The passes tell their own frames by their zero source.                  *)
Marked(f, ks, src) ==
  [f EXCEPT !.at = [k \in DOMAIN f.at |-> IF k \in ks /\ f.at[k].width > 0 /\ f.at[k].src = 0
                                          THEN [f.at[k] EXCEPT !.src = src] ELSE f.at[k]]]

-----------------------------------------------------------------------------
(* nice and place: a run of a frame's length is a frame, one of a pitch    *)
(* more is two.                                                            *)
Place(f, at) ==
  LET p == IF at <= 0 THEN 1 ELSE at
  IN  Put(f, p, IF p + SIZE < LAST THEN SIZE ELSE (LAST - p) - 1)

(* C's division rounds to zero.                                            *)
Third(n) == IF n >= 0 THEN n \div 3 ELSE -((-n) \div 3)

OneFrame(r)  == ShortOf < r.len /\ r.len < LongOf
TwoFrames(r) == ~OneFrame(r) /\ ShortOf + PITCH < r.len /\ r.len < LongOf + PITCH

NiceRun(f, r) ==
  IF OneFrame(r) THEN Place(f, Third(r.len - SIZE) + r.start)
  ELSE IF TwoFrames(r) THEN Place(Place(f, Third((r.len - PITCH) - SIZE) + r.start), r.start + PITCH)
  ELSE f
Nice ==
  LET after[i \in 0..Len(Runs)] == IF i = 0 THEN NoFrames ELSE NiceRun(after[i - 1], Runs[i])
  IN  after[Len(Runs)]

(* between: the frames missing between two found ones, at equal steps      *)
Gap(a, b) == (b.width \div 2 - a.width \div 2) - a.start + b.start
MissedIn(gap) ==
  LET miss == gap \div PITCH IN IF gap - miss * PITCH < PITCH \div 4 THEN miss - 1 ELSE miss

PutMissing(f, from, step, miss) ==
  LET after[m \in 0..miss] == IF m = 0 THEN f ELSE Put(after[m - 1], from + m * step, SIZE)
  IN  after[miss]

BetweenAt(s, k) ==
  LET a    == s.f.at[s.prev]
      gap  == Gap(a, s.f.at[k])
      miss == MissedIn(gap)
  IN  IF ~IsFrame(s.f.at[k]) THEN s
      ELSE [f |-> IF miss > 0 THEN PutMissing(s.f, a.start, gap \div (miss + 1), miss) ELSE s.f, prev |-> k]
Between(f, first, last) ==
  LET after[n \in 0..(last - first)] ==
        IF n = 0 THEN [f |-> f, prev |-> first] ELSE BetweenAt(after[n - 1], first + n)
  IN  after[last - first].f

-----------------------------------------------------------------------------
(* The strip's ends                                                        *)
D == PITCH - SIZE
H == D \div 2

Lower(a, b) == IF a < b THEN a ELSE b
Upper(a, b)  == IF a < b THEN b ELSE a

Overlap(a, n) ==   \* bright rows among n from a
  LET In(r) == Upper(0, Lower(a + n, r.start + r.len) - Upper(a, r.start))
      sum[i \in 0..Len(strip.bright)] == IF i = 0 THEN 0 ELSE sum[i - 1] + In(strip.bright[i])
  IN  sum[Len(strip.bright)]

(* best_window: among equal windows the one nearest the middle             *)
BestWindow(start) ==
  LET W(j)   == Overlap(start + j, SIZE)
      Off(j) == IF j > H THEN j - H ELSE H - j
      best   == Max({W(j) : j \in 0..(D - 1)})
      near   == {j \in 0..(D - 1) : W(j) = best /\ \A i \in 0..(D - 1) : W(i) = best => Off(j) <= Off(i)}
  IN  IF best = 0 THEN start + H
      ELSE start + Min(near)

(* cheap: is there a frame-sized run near the window?                      *)
Cheap(a, b) ==
  LET End(i) == Runs[i].start + Runs[i].len
      after  == {i \in DOMAIN Runs : a <= End(i)}
      before == {i \in DOMAIN Runs : Runs[i].start + D * 2 <= a}
  IN  /\ Runs # <<>>
      /\ \/ /\ a < b
            /\ IF after = {} THEN b <= End(Len(Runs))
               ELSE LET k == Min(after) IN Runs[k].start - a <= D * 20 \/ End(k) < b - 10
         \/ /\ b < a /\ before # {}
            /\ LET k == Max(before) IN a - Runs[k].len - Runs[k].start <= D * 20 \/ 10 < Runs[k].start

Clipped(p) == IF p + SIZE < LAST THEN SIZE ELSE LAST - p

(* A walk puts a frame a turn, at least half a pitch from the one before,  *)
(* so that it is over within these turns.                                  *)
Turns == Slots + 3
Walk(f, pos) == [f |-> f, pos |-> pos, on |-> TRUE]
Over(f, s)   == [s EXCEPT !.f = f, !.on = FALSE]

EndTurn(s) ==
  LET pos == s.pos
      p   == BestWindow(pos)
  IN  IF ~s.on THEN s
      ELSE IF pos >= LAST - SIZE \div 2 \/ ~Cheap(pos, Lower(pos + PITCH, LAST)) THEN Over(s.f, s)
      ELSE IF LAST - pos >= H + PITCH THEN Walk(Put(s.f, p, Clipped(p)), p + Clipped(p) + H)
      ELSE Over(IF PITCH \div 2 + H <= LAST - pos THEN Put(s.f, pos + D, Clipped(pos + D)) ELSE s.f, s)
AtEnd(f, pos) ==
  LET after[n \in 0..Turns] == IF n = 0 THEN Walk(f, pos) ELSE EndTurn(after[n - 1])
  IN  after[Turns].f

BeginTurn(s) ==
  LET pos  == s.pos
      p    == BestWindow(pos - PITCH)
      near == (pos - H) - SIZE
  IN  IF ~s.on THEN s
      ELSE IF pos <= 0 \/ ~Cheap(pos, Upper(pos - PITCH, 0)) THEN Over(s.f, s)
      ELSE IF pos >= H + PITCH THEN Walk(Put(s.f, p, SIZE), p - H)
      ELSE Over(IF PITCH \div 2 + H > pos THEN s.f
                ELSE IF 0 < near THEN Put(s.f, near, SIZE)
                ELSE Put(s.f, 1, Lower(SIZE, (pos - 1) - H)), s)
AtBeginning(f, pos) ==
  LET after[n \in 0..Turns] == IF n = 0 THEN Walk(f, pos) ELSE BeginTurn(after[n - 1])
  IN  after[Turns].f

(* e70                                                                     *)
FirstOf(f) == IF Framed(f) = {} THEN Slots - 1 ELSE Min(Framed(f))
LastOf(f)  == IF Framed(f) = {} THEN 0 ELSE Max(Framed(f))
Detected ==
  LET kf    == FirstOf(Nice)
      kl    == LastOf(Nice)
      found == Marked(Nice, kf..kl, 1)
      mid   == Marked(IF Nice.count > 1 /\ kf < kl THEN Between(found, kf, kl) ELSE found, kf..kl, 2)
      first == IF Framed(Nice) = {} THEN 0 ELSE Nice.at[kf].start
      end   == IF Framed(Nice) = {} THEN LAST ELSE Nice.at[kl].start + Nice.at[kl].width
  IN  IF mid.count < 1 THEN mid
      ELSE Marked(AtBeginning(Marked(AtEnd(mid, H + end), kl..(Slots - 1), 4), first - H), 0..(kf - 1), 3)

(* blind_place: one frame per pitch                                        *)
Margin == (PITCH - SIZE) \div 2

LeftAt(n) == (Rows - 1) - n * PITCH
Blind ==
  LET Begin(n) == n * PITCH + Margin
      Whole(n) == PITCH + 4 < LeftAt(n)
      Last(n)  == ~Whole(n) /\ (n = 0 \/ Whole(n - 1)) /\ SIZE \div 2 < LeftAt(n)
      Width(n) == IF Whole(n) THEN SIZE ELSE (Rows - 1 - Begin(n)) - 4
  IN  [at |-> [n \in 0..(Cap - 1) |->
                 IF Whole(n) \/ Last(n)
                 THEN [start |-> Begin(n), width |-> Width(n), src |-> IF Width(n) > 0 THEN 9 ELSE 0] ELSE Empty],
       count |-> Cardinality({n \in 0..(Cap - 1) : Whole(n) \/ Last(n)})]

-----------------------------------------------------------------------------
(* frame_pass's rectangles                                                 *)
Clip(r) == [top |-> IF r.top < 0 THEN 0 ELSE r.top, bottom |-> IF Readable <= r.bottom THEN Readable - 1 ELSE r.bottom]

LeastRows(r, e) ==
  IF r.bottom - r.top >= RATIO * 16 THEN r
  ELSE IF e.start < 5 THEN [r EXCEPT !.bottom = RATIO * 16 + r.top] ELSE [r EXCEPT !.top = r.bottom - RATIO * 16]

Rect(e) ==
  LET bot == RATIO * (e.width + e.start)
      all == IF e.width < SIZE /\ e.start < 5 THEN [top |-> bot - LINES, bottom |-> bot]
             ELSE [top |-> RATIO * e.start, bottom |-> RATIO * e.start - 1 + LINES]
      r   == LeastRows(Clip(all), e)
      lo  == r.top \div RATIO
  IN  [top |-> r.top, bottom |-> r.bottom, lo_top |-> lo, lo_bottom |-> ((r.bottom - r.top + 1) \div RATIO - 1) + lo, type |-> e.src]

Ascending(ks) == [i \in 1..Cardinality(ks) |-> CHOOSE k \in ks : Cardinality({j \in ks : j < k}) = i - 1]
Rects(f) == LET ks == Ascending(Framed(f)) IN [i \in DOMAIN ks |-> Rect(f.at[ks[i]])]

(* Dark rows and bright ones in turn: where the i-th run ends.             *)
EndOf(gs, ls, n) ==
  LET end[i \in 0..n] == IF i = 0 THEN 0 ELSE end[i - 1] + gs[i] + ls[i] IN end
FrameInit ==
  /\ \E n \in 0..RUNS :
       \E gs \in [1..n -> GAPS], ls \in [1..n -> BRIGHTS], last \in ENDS, odd \in ODD :
         /\ \A i \in 2..n : gs[i] # 0
         /\ strip = [lines  |-> RATIO * (EndOf(gs, ls, n)[n] + last) + odd,
                     bright |-> [i \in 1..n |-> [start |-> EndOf(gs, ls, n)[i - 1] + gs[i], len |-> ls[i]]]]
  /\ mode = "new" /\ rects = <<>>

(* pkf_frame_ex: blind when the detection found nothing                    *)
Nothing(f) == Rects(f) = <<>>

FullPass ==
  /\ mode = "new" /\ Readable > 0
  /\ IF Slots < 1 THEN mode' = "done" /\ rects' = <<>>
     ELSE mode' = (IF Nothing(Detected) THEN "blind" ELSE "done") /\ rects' = Rects(Detected)
  /\ UNCHANGED strip

BlindPass ==
  /\ mode = "blind" /\ mode' = "done"
  /\ rects' = Rects(Blind)
  /\ UNCHANGED strip

FrameNext == FullPass \/ BlindPass
FrameSpec == FrameInit /\ [][FrameNext]_frameVars

-----------------------------------------------------------------------------
(* Every rectangle the detector returns can be read out: pkr_check_rect,   *)
(* the hi-res crop with its stagger and the lo-res read-out all accept it. *)
(* One that is refused costs the colour library the whole strip.           *)
FramesCanBeRead ==
  \A i \in DOMAIN rects :
    LET r == rects[i]
    IN  /\ r.top >= 0 /\ r.bottom < Readable /\ r.bottom - r.top + 1 >= 2 * RATIO
        /\ r.bottom + 1 + 2 * RATIO <= strip.lines
        /\ r.lo_top >= 0 /\ r.lo_bottom - r.lo_top + 1 >= 2 /\ r.lo_bottom < Stored

(* A strip as long as half a pitch has a frame, whatever is on it.         *)
StripHasFrame == mode = "done" /\ Slots >= 1 => rects # <<>>

(* A run of a frame's length is in a frame, up to the rows it is longer    *)
(* than one, whatever the later passes put beside it.                      *)
GoodRunsAreFrames ==
  mode = "done" => \A i \in DOMAIN Runs : OneFrame(Runs[i]) =>
    \E k \in DOMAIN rects :
      /\ rects[k].top <= RATIO * (Runs[i].start + (LongOf - SIZE) \div 3 + 1)
      /\ rects[k].bottom + 1 >= Lower(RATIO * (Runs[i].start + Runs[i].len - (LongOf - SIZE)), Readable)

(* What the detector promises of every strip.                              *)
FramesAreSound == FramesCanBeRead /\ StripHasFrame /\ GoodRunsAreFrames
=============================================================================
