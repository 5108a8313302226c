--------------------------------- MODULE Roll ---------------------------------
(***************************************************************************)
(* A scanned roll read back (core/src/roll, decode/lores.c): its strips    *)
(* are decoded when first asked for, its frames are cut in a second pass,  *)
(* and the calls come in any order, some after a failed one.               *)
(*                                                                         *)
(* Offsets count whole lines of the raw file.  The kernel's arithmetic     *)
(* depends on the line and on the mean of the line before it, so a mean    *)
(* stands as the lines that went into it since the kernel was initialised, *)
(* and the profile sums and lo-res rows as the lines added up in them.     *)
(***************************************************************************)
EXTENDS Integers, Sequences

CONSTANTS
  ROLLS,       \* sidecars: for each strip seg, start, end, ended, film (what its packets say)
  SIZES,       \* lines the raw file holds when the roll is opened
  ROW, NPLANES, HEIGHT,   \* lines of a lo-res row, planes, lines of a frame
  FAULTS, PICKS            \* failed calls, films picked by hand

ASSUME RollAssumption ==
  /\ ROW \in Nat \ {0} /\ NPLANES \in {3, 4} /\ HEIGHT \in Nat /\ HEIGHT >= 2 * ROW /\ FAULTS \in Nat   \* pkr_check_rect
  /\ \A r \in ROLLS : r \in Seq([seg : Nat, start : Nat, end : Nat, ended : BOOLEAN, film : STRING])
  /\ SIZES \subseteq Nat

VARIABLES
  sidecar, size,   \* what pk_roll_open found
  file,            \* lines the raw file holds now
  st,              \* the strips: struct pkr_strip
  open, cal_loaded, stored,   \* the roll is open; its calibration is loaded, is in the store
  manual,          \* films picked by hand, "" where none
  keep,            \* pk_roll_input_storage: the strip it is of, what it hands over
  faults

rollVars == <<sidecar, size, file, st, open, cal_loaded, stored, manual, keep, faults>>

Strips == DOMAIN sidecar
NoKeep == [strip |-> 0, film |-> "", frames |-> <<>>, hi |-> {}]
NewStrip == [decoded |-> FALSE, sums_end |-> <<>>, mean4 |-> <<>>, rows |-> <<>>, frames |-> <<>>]

-----------------------------------------------------------------------------
(* pk_roll_open                                                            *)
Lesser(a, b) == IF a < b THEN a ELSE b
Lines(k) == LET end == Lesser(sidecar[k].end, size) IN IF end > sidecar[k].start THEN end - sidecar[k].start ELSE 0
Pre(k)   == sidecar[k].start - sidecar[k].seg
EndingLine(k) == IF sidecar[k].ended /\ Lines(k) > 0 /\ sidecar[k].end + 1 <= size THEN 1 ELSE 0   \* the ending line
Total(k) == Pre(k) + Lines(k) + EndingLine(k)

Corrupt == \E k \in Strips : sidecar[k].seg > sidecar[k].start \/ (Lines(k) > 0 /\ sidecar[k].seg > size)

Open ==
  /\ ~open /\ ~Corrupt
  /\ open' = TRUE /\ st' = [k \in Strips |-> NewStrip]
  /\ UNCHANGED <<sidecar, size, file, cal_loaded, stored, manual, keep, faults>>

Close ==
  /\ open /\ open' = FALSE /\ cal_loaded' = FALSE /\ st' = <<>> /\ keep' = NoKeep
  /\ manual' = [k \in Strips |-> ""] /\ size' = file
  /\ UNCHANGED <<sidecar, file, stored, faults>>

-----------------------------------------------------------------------------
(* Pass 1.  A line is named by its place in the file.                      *)
Line(k, l) == sidecar[k].seg + l

(* pkd_kernel_init, pkd_strip_new and the sums of the strip before: all    *)
(* that feeding a strip's lines depends on                                 *)
SumsBefore_Kept(k) == IF st[k].sums_end # <<>> THEN st[k].sums_end ELSE IF k = 1 THEN <<>> ELSE st[k - 1].sums_end
SumsBefore(k) == IF k = 1 THEN <<>> ELSE st[k - 1].sums_end
Fresh(k) == [mean |-> <<>>, mean4 |-> <<>>, sums |-> SumsBefore(k), block |-> <<>>, rows |-> <<>>]

(* pkd_kernel_line: the corrected line and the mean it leaves depend on the *)
(* line and on the mean before it (smear), so a mean is the lines it is of.  *)
MeanAfter(mean, line) == Append(mean, line)

(* pkd_strip_feed: a block of ROW lines is a row, stored once the film     *)
(* flag is up; the sums start anew after every block, stored or not.       *)
Film(k, l) == l >= Pre(k) + 1

FeedLine(k, s, l) ==
  LET line  == Line(k, l)
      mean  == MeanAfter(s.mean, line)
      sums  == Append(s.sums, line)
      block == Append(s.block, line)
      full  == Len(block) = ROW
  IN  [mean |-> mean, mean4 |-> Append(s.mean4, mean),
       sums |-> IF full THEN <<>> ELSE sums, block |-> IF full THEN <<>> ELSE block,
       rows |-> IF full /\ Film(k, l) THEN Append(s.rows, [lines |-> block, profile |-> sums]) ELSE s.rows]

(* What a strip's lines leave, after each of the first n of them.          *)
FedLines(k, n) == LET fed[l \in 0..n] == IF l = 0 THEN Fresh(k) ELSE FeedLine(k, fed[l - 1], l - 1) IN fed
Fed(k, n)  == FedLines(k, n)[n]

(* pkr_hires_readable_lines, and frames of one height (see Frame)          *)
ReadableLines(k) == LET back == (NPLANES - 1) * ROW IN IF Lines(k) > back THEN Lines(k) - back ELSE 0
FramesOf(k) == [i \in 1..(ReadableLines(k) \div HEIGHT) |-> [top |-> (i - 1) * HEIGHT, bottom |-> i * HEIGHT - 1]]

Decoded(k) ==
  LET s == Fed(k, Total(k))
  IN  IF Lines(k) = 0 THEN [NewStrip EXCEPT !.decoded = TRUE, !.sums_end = SumsBefore(k)]
      ELSE [decoded |-> TRUE, sums_end |-> s.sums, mean4 |-> s.mean4, rows |-> s.rows, frames |-> FramesOf(k)]

(* A read that fails at line n: everything is freed, and what stays of it  *)
(* is in the sums.                                                         *)
FailedAt(k, n) == [NewStrip EXCEPT !.sums_end = Fed(k, n).sums]

(* pkr_read_lines can read them.                                           *)
InFile(k, l) == Line(k, l) < file
Calibrated == cal_loaded \/ stored

(* pkr_decode_strip of a strip with those before it decoded.  A call goes  *)
(* through the strips up to its own; one that fails ends there, and a later *)
(* one goes on.                                                            *)
Next1 == CHOOSE k \in Strips : ~st[k].decoded /\ \A j \in 1..(k - 1) : st[j].decoded
Undecoded == \E k \in Strips : ~st[k].decoded

DecodeOk ==
  /\ open /\ Undecoded
  /\ LET k == Next1
     IN  /\ Lines(k) = 0 \/ (Calibrated /\ \A l \in 0..(Total(k) - 1) : InFile(k, l))
         /\ st' = [st EXCEPT ![k] = Decoded(k)]
         /\ cal_loaded' = (cal_loaded \/ Lines(k) > 0)
  /\ UNCHANGED <<sidecar, size, file, open, stored, manual, keep, faults>>

DecodeFails ==
  /\ open /\ Undecoded /\ Lines(Next1) > 0 /\ faults < FAULTS /\ faults' = faults + 1
  /\ \/ ~Calibrated /\ st' = [st EXCEPT ![Next1].sums_end = SumsBefore(Next1)] /\ UNCHANGED cal_loaded
     \/ /\ Calibrated /\ cal_loaded' = TRUE
        /\ \E n \in 0..(Total(Next1) - 1) :
             /\ \A l \in 0..(n - 1) : InFile(Next1, l)
             /\ st' = [st EXCEPT ![Next1] = FailedAt(Next1, n)]
  /\ UNCHANGED <<sidecar, size, file, open, stored, manual, keep>>

-----------------------------------------------------------------------------
(* pkr_dx: what the packets say (the scan's own manual film stands in the  *)
(* sidecar where they say nothing), unless a film was picked by hand.      *)
FilmOf(k) == IF manual[k] # "" THEN manual[k] ELSE sidecar[k].film

SetManualFilm ==
  /\ open /\ \E k \in Strips, f \in PICKS : manual[k] = "" /\ manual' = [manual EXCEPT ![k] = f]
  /\ UNCHANGED <<sidecar, size, file, st, open, cal_loaded, stored, keep, faults>>

(* pk_roll_colour_input                                                    *)
ColourInput ==
  /\ open /\ \E k \in Strips :
       /\ \A j \in 1..k : st[j].decoded
       /\ keep' = [strip |-> k, film |-> FilmOf(k), frames |-> [i \in DOMAIN st[k].frames |-> <<>>], hi |-> {}]
  /\ UNCHANGED <<sidecar, size, file, st, open, cal_loaded, stored, manual, faults>>

(* hires_crop: the kernel starts from the mean pass 1 recorded before the  *)
(* frame's first line.                                                     *)
StartMean(k, top) == IF top > 0 THEN st[k].mean4[top] ELSE <<>>

Crop(k, rc) ==
  LET top   == rc.top + Pre(k)
      lines == (rc.bottom - rc.top + 1) + 2 * ROW
      mean[i \in 0..lines] == IF i = 0 THEN StartMean(k, top) ELSE MeanAfter(mean[i - 1], Line(k, top + i - 1))
  IN  [i \in 1..lines |-> [line |-> Line(k, top + i - 1), after |-> mean[i - 1]]]

CropFits(k, rc) == rc.top + Pre(k) + (rc.bottom - rc.top + 1) + 2 * ROW <= Pre(k) + Lines(k)

(* A slot of the storage is filled or freed.                               *)
KeepWith(i, crop, hi) == [strip |-> keep.strip, film |-> keep.film, frames |-> [keep.frames EXCEPT ![i] = crop], hi |-> hi]

(* pk_roll_colour_frame: storage of another strip is refused; a loaded     *)
(* frame is kept.                                                          *)
ColourFrame ==
  /\ open /\ \E k \in Strips, i \in DOMAIN keep.frames :
       /\ keep.strip = k /\ i \notin keep.hi
       /\ LET rc == st[k].frames[i]
          IN  /\ CropFits(k, rc) /\ \A l \in rc.top..(rc.bottom + 2 * ROW) : InFile(k, Pre(k) + l)
              /\ keep' = KeepWith(i, Crop(k, rc), keep.hi \union {i})
  /\ UNCHANGED <<sidecar, size, file, st, open, cal_loaded, stored, manual, faults>>

ReleaseFrame ==
  /\ \E i \in keep.hi : keep' = KeepWith(i, <<>>, keep.hi \ {i})
  /\ UNCHANGED <<sidecar, size, file, st, open, cal_loaded, stored, manual, faults>>

(* Outside the roll: the store gets the calibration, the file is cut or    *)
(* still grows.                                                            *)
CalibrationArrives ==
  /\ ~stored /\ stored' = TRUE
  /\ UNCHANGED <<sidecar, size, file, st, open, cal_loaded, manual, keep, faults>>
FileChanges ==
  /\ file' \in SIZES \ {file} /\ faults < FAULTS /\ faults' = faults + 1
  /\ UNCHANGED <<sidecar, size, st, open, cal_loaded, stored, manual, keep>>

RollInit ==
  /\ sidecar \in ROLLS /\ size \in SIZES /\ file = size
  /\ st = <<>> /\ open = FALSE /\ cal_loaded = FALSE /\ stored \in BOOLEAN
  /\ manual = [k \in Strips |-> ""] /\ keep = NoKeep /\ faults = 0

RollNext ==
  \/ Open \/ Close \/ DecodeOk \/ DecodeFails
  \/ SetManualFilm \/ ColourInput \/ ColourFrame \/ ReleaseFrame
  \/ CalibrationArrives \/ FileChanges

RollSpec == RollInit /\ [][RollNext]_rollVars

-----------------------------------------------------------------------------
(* What Kodak's single pass over the whole roll gives, from the lines      *)
(* alone: a strip's blocks, and what its last unfinished block leaves in   *)
(* the sums for the next strip's first.                                    *)
LineSeq(k) == [i \in 1..(IF Lines(k) = 0 THEN 0 ELSE Total(k)) |-> Line(k, i - 1)]
Blocks(k)  == Len(LineSeq(k)) \div ROW
Block(k, b) == SubSeq(LineSeq(k), (b - 1) * ROW + 1, b * ROW)
Rest(k)    == SubSeq(LineSeq(k), Blocks(k) * ROW + 1, Len(LineSeq(k)))
Left[k \in 0..Len(sidecar)] == IF k = 0 THEN <<>> ELSE IF Blocks(k) = 0 THEN Left[k - 1] \o Rest(k) ELSE Rest(k)
FirstRow(k) == (Pre(k) + 1) \div ROW + 1        \* the first block that ends in the film
RowsOf(k)  ==
  [i \in 1..(IF Blocks(k) < FirstRow(k) THEN 0 ELSE Blocks(k) + 1 - FirstRow(k)) |->
    LET b == FirstRow(k) + i - 1
    IN  [lines |-> Block(k, b), profile |-> IF b = 1 THEN Left[k - 1] \o Block(k, b) ELSE Block(k, b)]]

(* A decoded strip has the rows, the profile and the sums of that single   *)
(* pass, in whatever order the strips were asked for and however often a   *)
(* decode failed half way before (ruling S-R41).                           *)
DecodeIsOnePass ==
  open => \A k \in Strips : st[k].decoded =>
    /\ st[k].rows = RowsOf(k) /\ st[k].sums_end = Left[k]
    /\ Lines(k) > 0 => Len(st[k].rows) <= Lines(k) \div ROW + 1 /\ Len(st[k].mean4) = Total(k)

(* A frame handed over has the lines of its rectangle, each corrected from *)
(* the mean that pass 1 had before it: the second pass over a part of the  *)
(* strip equals the first over all of it.  It belongs to the strip the     *)
(* storage was made from.                                                  *)
FramesAreOfPassOne ==
  open => \A i \in keep.hi :
    LET k == keep.strip
        rc == FramesOf(k)[i]
    IN  /\ Len(keep.frames[i]) = HEIGHT + 2 * ROW
        /\ \A j \in DOMAIN keep.frames[i] :
             LET l == Pre(k) + rc.top + j - 1
             IN  keep.frames[i][j] = [line |-> LineSeq(k)[l + 1], after |-> SubSeq(LineSeq(k), 1, l)]

(* A frame never needs a line the file did not have when the roll was      *)
(* opened: a partial roll hands over the frames it really holds.           *)
CropsFit ==
  open => \A k \in Strips : st[k].decoded => \A i \in DOMAIN st[k].frames :
            CropFits(k, st[k].frames[i]) /\ Line(k, Pre(k) + Lines(k)) <= size

(* What the decode and the frames handed over are.                         *)
DecodeIsSound == DecodeIsOnePass /\ FramesAreOfPassOne /\ CropsFit
=============================================================================
