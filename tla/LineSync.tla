------------------------------- MODULE LineSync -------------------------------
(***************************************************************************)
(* The line grid of the scan stream (sync_chunk, tap_lines, restart_search *)
(* and the re-arm of core/src/stream/stream.c): where in the bytes of the  *)
(* scanner the lines lie, however the bytes are cut into chunks, over      *)
(* re-arms asked for between chunks, and the callback that gets the lines. *)
(*                                                                         *)
(* A byte is represented by its place in the stream; the only datum of a   *)
(* byte that matters is whether bit 0 of its word is set (marks).          *)
(***************************************************************************)
EXTENDS Integers, Sequences, FiniteSets, FiniteSetsExt

CONSTANTS
  LB,           \* s->line_bytes
  WINDOW,       \* PKS_SYNC_WINDOW_WORDS
  Skips,        \* cfg first_skip_words
  CHUNK,        \* PKS_CHUNK
  EMPTY_READS,  \* a stream_read may return PK_OK without a byte (a zero-length packet)
  MAX_BYTES,    \* bound: bytes of the stream
  MAX_REARMS    \* bound: re-arms taken

ASSUME LineAssumption ==
  /\ LB \in {2 * w : w \in 1..MAX_BYTES} /\ WINDOW \in Nat \ {0}
  /\ Skips \subseteq Nat /\ CHUNK \in Nat \ {0} /\ EMPTY_READS \in BOOLEAN
  /\ MAX_BYTES \in Nat /\ MAX_REARMS \in Nat

VARIABLES
  skip0, resync,     \* s->skip0_words, s->resync
  bytes, synced, origin, search_start, lines_base, lead_bytes,   \* the fields of these names
  seg_start,         \* seg_off, seg_line: a segment's first synced line
  rd, chunk,         \* the reader: whether it is in a chunk, and its locals
  left, skip,        \* its pks_search
  pend, tap_next, tap_line, tap_seg,   \* its line tap
  marks,             \* history: the words with bit 0 set
  lines,             \* history: lines handed to line_cb
  cuts               \* history: what each re-arm cut off, as [from, to)

cfg    == <<skip0, resync>>
grid   == <<synced, origin, search_start, lines_base, lead_bytes>>
search == <<left, skip>>
tap    == <<pend, tap_next, tap_line, tap_seg>>
history == <<marks, lines, cuts>>
linevars == <<cfg, bytes, grid, seg_start, rd, chunk, search, tap, history>>

Unset == -1    \* TAP_UNSET
NoChunk == [put |-> 0, at |-> 0, sy |-> "OK"]

(* The low bytes of a range's words.                                       *)
Words(from, to) == {o \in from..to-1 : o % 2 = 0}

LineInit ==
  /\ skip0 \in Skips /\ resync \in BOOLEAN
  /\ bytes = 0 /\ synced = FALSE /\ origin = 0 /\ search_start = 0 /\ lines_base = 0 /\ lead_bytes = 0
  /\ seg_start = <<>> /\ rd = "loop" /\ chunk = NoChunk
  /\ left = WINDOW /\ skip = skip0
  /\ pend = <<>> /\ tap_next = Unset /\ tap_line = 0 /\ tap_seg = 0
  /\ marks = {} /\ lines = <<>> /\ cuts = <<>>

-----------------------------------------------------------------------------
(* What pk_stream_poll, _lead_words and _tail_words return, in bytes.      *)

InLines   == IF synced /\ bytes > origin THEN bytes - origin ELSE 0
Lines     == lines_base + (InLines \div LB)
TailBytes == InLines % LB

(* search_cap: the window, after the words segment 0 drops.                *)
Dropped == IF tap_seg = 0 THEN 2 * skip0 ELSE 0
UnsyncedSpan ==
  LET span == bytes - search_start IN
  IF synced \/ bytes <= search_start THEN 0
  ELSE IF resync THEN span ELSE Min({span, 2 * WINDOW + Dropped})
Lead == lead_bytes + UnsyncedSpan

-----------------------------------------------------------------------------
(* A re-arm, taken between two chunks: the lines so far count, what        *)
(* belongs to no line is lead, and a new segment's search begins.          *)

CutLead == IF synced THEN TailBytes ELSE UnsyncedSpan

CutLines == lines_base + (InLines \div LB)

NewWindow_Kept == left
NewWindow == WINDOW

CutPend == <<>>

TakesRearm ==
  /\ lines_base' = CutLines
  /\ lead_bytes' = lead_bytes + CutLead + (bytes % 2)     \* an odd byte is the rest of its word
  /\ search_start' = bytes + (bytes % 2)
  /\ left' = NewWindow /\ skip' = 0
  /\ tap_next' = Unset /\ pend' = CutPend
  /\ synced' = FALSE /\ tap_seg' = tap_seg + 1
  /\ cuts' = Append(cuts, [from |-> IF synced THEN tap_next ELSE bytes, to |-> bytes])
  /\ UNCHANGED <<cfg, bytes, origin, seg_start, chunk, tap_line, marks, lines>>

(* Two re-arms with no byte between them take a read that brought none.    *)
Rearms ==
  /\ rd = "loop" /\ UNCHANGED rd
  /\ chunk.sy = "OK" /\ Len(cuts) < MAX_REARMS
  /\ EMPTY_READS \/ \A c \in DOMAIN cuts : cuts[c].to < bytes
  /\ TakesRearm

-----------------------------------------------------------------------------
(* The next chunk, of n bytes that the ring has taken.                     *)
Arrives(n) ==
  /\ bytes + n <= MAX_BYTES
  /\ chunk' = [NoChunk EXCEPT !.put = n]
  /\ \E m \in SUBSET Words(bytes, bytes + n) : marks' = marks \cup m
  /\ UNCHANGED <<cfg, bytes, grid, seg_start, search, tap, lines, cuts>>

NextChunk ==
  /\ rd = "loop" /\ rd' = "sync" /\ chunk.sy = "OK"
  /\ \E n \in 0..CHUNK : Arrives(n)

(* The piece of the chunk still to be looked at.                           *)
From == bytes + chunk.at
To   == bytes + chunk.put
InPiece == rd = "sync" /\ From < To /\ chunk.sy = "OK"

(* sync_chunk's search drops skip words, then looks at left words (at any  *)
(* number in resync mode) for the first with bit 0 set.                    *)
Before(o, w) == Cardinality({p \in w : p < o})
AfterSkip == {o \in Words(From, To) : Before(o, Words(From, To)) >= skip}
Searched  == IF resync THEN AfterSkip ELSE {o \in AfterSkip : Before(o, AfterSkip) < left}
LeftAfter(seen) == IF resync THEN left ELSE left - Cardinality(seen)

SearchesOn ==
  /\ InPiece /\ ~synced /\ Searched \cap marks = {}
  /\ skip' = skip - Min({skip, Cardinality(Words(From, To))})
  /\ left' = LeftAfter(Searched)
  /\ chunk' = [chunk EXCEPT !.at = chunk.put, !.sy = IF ~resync /\ left' = 0 THEN "LOST_SYNC" ELSE "OK"]
  /\ UNCHANGED <<cfg, bytes, grid, seg_start, rd, tap, history>>

(* A segment keeps its first line start, whatever is found after it; the   *)
(* table of them may fail to grow at its first entry.                      *)
WithStart(o) == [i \in DOMAIN seg_start \cup {tap_seg} |->
                   IF i = tap_seg THEN [off |-> o, line |-> lines_base] ELSE seg_start[i]]
SegStart(o) == IF tap_seg \in DOMAIN seg_start THEN seg_start ELSE WithStart(o)

FindsStart ==
  /\ InPiece /\ ~synced /\ Searched \cap marks # {}
  /\ LET o == Min(Searched \cap marks) IN
     /\ origin' = o /\ synced' = TRUE
     /\ lead_bytes' = lead_bytes + o - search_start
     /\ left' = LeftAfter({p \in Searched : p < o}) /\ skip' = 0
     /\ \/ seg_start' = SegStart(o) /\ UNCHANGED chunk
        \/ seg_start = <<>> /\ UNCHANGED seg_start /\ chunk' = [chunk EXCEPT !.sy = "NOMEM"]
  /\ UNCHANGED <<cfg, bytes, search_start, lines_base, rd, tap, history>>

(* The line starts of the piece without bit 0.                             *)
Broken == {o \in From..To-1 : o >= origin /\ (o - origin) % LB = 0} \ marks

(* tap_lines: the whole lines up to byte end, the first of them completed  *)
(* from pend.                                                              *)
TapNext == IF tap_next = Unset THEN origin ELSE tap_next
TapLine == IF tap_next = Unset THEN lines_base ELSE tap_line
Stock(end) ==
  LET from == IF pend # <<>> THEN From ELSE TapNext IN pend \o [k \in 1..(end - from) |-> from + k - 1]
Whole(end) == Len(Stock(end)) \div LB
TapLines(end) ==
  /\ lines' = lines \o [k \in 1..Whole(end) |->
       [seg |-> tap_seg, line |-> TapLine + k - 1, off |-> TapNext + (k - 1) * LB,
        data |-> SubSeq(Stock(end), (k - 1) * LB + 1, k * LB)]]
  /\ tap_line' = TapLine + Whole(end)

(* The head of the next line waits in pend.                                *)
Rest(end) == SubSeq(Stock(end), Whole(end) * LB + 1, Len(Stock(end)))

KeepsGrid ==
  /\ InPiece /\ synced /\ Broken = {}
  /\ TapLines(To) /\ tap_next' = TapNext + Whole(To) * LB /\ pend' = Rest(To)
  /\ chunk' = [chunk EXCEPT !.at = chunk.put]
  /\ UNCHANGED <<cfg, bytes, grid, seg_start, rd, search, tap_seg, marks, cuts>>

LosesSync ==
  /\ InPiece /\ synced /\ Broken # {} /\ ~resync
  /\ chunk' = [chunk EXCEPT !.sy = "LOST_SYNC"]
  /\ UNCHANGED <<cfg, bytes, grid, seg_start, rd, search, tap, history>>

(* restart_search: in resync mode the grid ends where a line start is      *)
(* missing, and the search starts again there.                             *)
RestartsSearch ==
  /\ InPiece /\ synced /\ Broken # {} /\ resync
  /\ LET pos == Min(Broken) IN
     /\ TapLines(pos)
     /\ lines_base' = lines_base + ((pos - origin) \div LB)
     /\ lead_bytes' = lead_bytes + ((pos - origin) % LB)
     /\ search_start' = pos
     /\ chunk' = [chunk EXCEPT !.at = pos - bytes]
  /\ synced' = FALSE /\ tap_next' = Unset /\ pend' = <<>>
  /\ UNCHANGED <<cfg, bytes, origin, seg_start, rd, search, tap_seg, marks, cuts>>

(* The chunk's bytes count; after an error the reader looks at no more.    *)
Counted == bytes' = bytes + chunk.put
Accepts ==
  /\ rd = "sync" /\ rd' = "loop" /\ (From = To \/ chunk.sy # "OK")
  /\ Counted
  /\ chunk' = [NoChunk EXCEPT !.sy = chunk.sy]
  /\ UNCHANGED <<cfg, grid, seg_start, search, tap, history>>

Syncs == SearchesOn \/ FindsStart \/ KeepsGrid \/ LosesSync \/ RestartsSearch
LineNext == Rearms \/ NextChunk \/ Syncs \/ Accepts
LineSpec == LineInit /\ [][LineNext]_linevars

-----------------------------------------------------------------------------
(* Properties                                                              *)

Going == rd = "loop" /\ chunk.sy = "OK"

(* Types and ranges of the grid's fields; the tap holds at most the head   *)
(* of one line, and the search has at most a window left.                  *)
LineTypeOK ==
  /\ rd \in {"loop", "sync"} /\ chunk.sy \in {"OK", "LOST_SYNC", "NOMEM"} /\ chunk.at \in 0..chunk.put
  /\ {bytes, search_start} \subseteq 0..MAX_BYTES + 1 /\ {origin, tap_next} \subseteq Unset..MAX_BYTES
  /\ {lines_base, lead_bytes, tap_line} \subseteq Nat /\ tap_seg = Len(cuts) /\ synced \in BOOLEAN
  /\ left \in 0..WINDOW /\ skip \in 0..skip0 /\ Len(pend) < LB

(* Between chunks each byte is in a line, in the tail or counted as lead   *)
(* (stream.h:55-57), over any re-arms and restarted searches; a search     *)
(* that begins after an odd byte counts the rest of that word in advance.  *)
EveryByteIsCounted ==
  Going => Lines * LB + TailBytes + Lead = IF ~synced /\ search_start > bytes THEN search_start ELSE bytes

(* The callback gets whole lines: each a run of LB successive bytes that   *)
(* begins with bit 0 set, none across a re-arm, numbered as poll counts    *)
(* (stream.h:20-22), though a line may come in pieces of many chunks.      *)
LinesAreWhole ==
  /\ \A i \in DOMAIN lines : LET l == lines[i] IN
       /\ l.line = i - 1 /\ l.off \in marks
       /\ l.data = [k \in 1..LB |-> l.off + k - 1]
       /\ i > 1 => lines[i-1].off + LB <= l.off /\ lines[i-1].seg <= l.seg
       /\ \A c \in DOMAIN cuts : IF l.seg < c THEN l.off + LB <= cuts[c].to ELSE l.off >= cuts[c].to
  /\ Going => Len(lines) = Lines

(* Where the grid lies is a matter of the bytes and the re-arms, not of    *)
(* the chunks they came in: no word with bit 0 set is passed over, sync is *)
(* lost only where a line start is missing or a whole window has been seen *)
(* without one, and there it always is.                                    *)
WindowEnd == search_start + Dropped + 2 * WINDOW
SyncIsOfTheBytes ==
  /\ Going =>
       \A o \in Words(0, bytes) \cap marks :
         \/ \E i \in DOMAIN lines : o \in lines[i].off .. lines[i].off + LB - 1
         \/ \E c \in DOMAIN cuts : o \in cuts[c].from .. cuts[c].to - 1
         \/ o < 2 * skip0 /\ (cuts # <<>> => o < cuts[1].to)
         \/ synced /\ o >= tap_next
  /\ Going /\ ~resync =>
       IF synced THEN tap_next < bytes => tap_next \in marks ELSE bytes < WindowEnd - 1
  /\ rd = "loop" /\ chunk.sy = "LOST_SYNC" =>
       /\ ~resync
       /\ IF synced THEN \E o \in origin..bytes-1 : (o - origin) % LB = 0 /\ o \notin marks
          ELSE bytes >= WindowEnd - 1 /\ Words(search_start + Dropped, WindowEnd) \cap marks = {}

(* What pk_stream_segment_start says of a segment is the first line the    *)
(* callback got of it, also when its search was restarted.                 *)
SegmentStartIsItsFirstLine ==
  \A i \in DOMAIN lines : LET l == lines[i] IN
    /\ l.seg \in DOMAIN seg_start
    /\ (i = 1 \/ lines[i-1].seg < l.seg) => seg_start[l.seg] = [off |-> l.off, line |-> l.line]

(* What the stream makes of the bytes, however they are cut into chunks.   *)
LinesAreOfTheBytes ==
  LineTypeOK /\ EveryByteIsCounted /\ LinesAreWhole /\ SyncIsOfTheBytes /\ SegmentStartIsItsFirstLine
=============================================================================
