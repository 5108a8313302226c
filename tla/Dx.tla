---------------------------------- MODULE Dx ----------------------------------
(***************************************************************************)
(* The DX reader's packets (core/src/boards/dx.c): register 0x90 gives a   *)
(* 16-bit line counter, a status byte and up to five records; the parser   *)
(* rebuilds full line numbers, votes on the film's code and pairs the      *)
(* half-frame codes with the edges beside them into the frame table.  This *)
(* is the F-135 Plus's case: 35 mm film, dual edge, no cartridge.          *)
(*                                                                         *)
(* The film side is the true line of every packet and record: what the     *)
(* parser makes of them is compared with it.  A record's number is its     *)
(* place among the records parsed, and a type-3 code's frame number is its *)
(* record's number, so that a table entry tells where it came from.        *)
(***************************************************************************)
EXTENDS Integers, Sequences, SequencesExt, FiniteSetsExt

CONSTANTS
  WORD,       \* the counter's modulus (65536)
  BACK,       \* how far a record may lie behind (10000)
  SLOTS,      \* vote slots (4)
  TABLE,      \* frame-table entries (100)
  PER_PACKET, \* PK_DX_MAX_RECORDS (5)
  CODES,      \* film codes (product and specifier)
  OFFSET,     \* hole+0x58: a frame's first edge lies that far before its middle
  RECORDS,    \* what the film side may put into a record
  STATUSES,   \* and into its status byte
  STEPS, MAX_RECORDS, MAX_LINE  \* bounds: lines between two packets, records and lines in all

ASSUME DxAssumption ==
  /\ {WORD, BACK, SLOTS, TABLE, PER_PACKET} \subseteq Nat \ {0} /\ BACK < WORD
  /\ OFFSET \in Nat /\ STEPS \subseteq Nat /\ MAX_RECORDS \in Nat /\ MAX_LINE \in Nat

(* What the film side is taken to do: packets come often enough for the    *)
(* counter (but for BACK) and no record is a whole range old.              *)
ASSUME FilmAssumption ==
  /\ \A s \in STEPS : s + BACK < WORD
  /\ RECORDS \subseteq [type : 1..8, ok : BOOLEAN, code : Int, bit : 0..1, low : BOOLEAN, lag : 0..(WORD - 1)]
  /\ \A r \in RECORDS : r.ok /\ r.type \in {3, 4} => r.code \in CODES
  /\ STATUSES \subseteq [entry : BOOLEAN, exit : BOOLEAN, tail : BOOLEAN]

VARIABLES
  b_roll, b_last,   \* the board object: rollovers, the last packet's full line
  sensors,          \* the status word's two film bits
  cal, cal_abort,   \* a calibration wants no film; film was sensed during it
  tail,             \* hole+0x60: the strip comes tail first
  found,            \* hole+0x38: film was found
  e50, e54, c5c,    \* the pending edges and the pending code
  table,            \* the frame table
  slots, winner,    \* the vote
  analysed,
  now,              \* the film: the true line of the last packet
  parsed            \* history: the records parsed

board == <<b_roll, b_last, sensors, cal, cal_abort>>
hole  == <<tail, found, e50, e54, c5c, table, slots, winner>>
vars  == <<board, hole, analysed, now, parsed>>

None    == [n |-> 0, line |-> -1, bit |-> 0]
Invalid == -1       \* 0x80000000
NoFilm == 0               \* a record without a film code
NoCode  == [n |-> 0, bit |-> 0, frame |-> Invalid]

-----------------------------------------------------------------------------
(* Line numbers                                                            *)

(* The packet's counter; a smaller one than the last has rolled over.      *)
Rolled(cnt) == IF cnt < b_last % WORD THEN b_roll + 1 ELSE b_roll
Full(cnt) == cnt + Rolled(cnt) * WORD

(* Types 3 and 4 have the packet's line; the others bring the low word of  *)
(* their own, which the rollovers before this packet complete.             *)
LineOf_NoWrap(r, cnt) == IF r.type \in {3, 4} THEN Full(cnt) ELSE (r.true % WORD) + b_roll * WORD
LineOf(r, cnt) ==
  LET line == (r.true % WORD) + b_roll * WORD
  IN IF r.type \in {3, 4} THEN Full(cnt)
     ELSE IF line + BACK < b_last THEN line + WORD ELSE line

-----------------------------------------------------------------------------
(* The hole                                                                *)

(* vote: a new code takes a free slot; without one it is not counted.      *)
SlotOf(h, code) == SelectInSeq(h.slots, LAMBDA s : s.code = code)
FirstMost(s) == CHOOSE k \in DOMAIN s : \A j \in DOMAIN s : s[j].count < s[k].count \/ (j >= k /\ s[j].count = s[k].count)
Voted(h, code) ==
  LET k == SlotOf(h, code)
      s == IF k > 0 THEN [h.slots EXCEPT ![k].count = @ + 1]
           ELSE IF Len(h.slots) < SLOTS THEN Append(h.slots, [code |-> code, count |-> 1]) ELSE h.slots
  IN [h EXCEPT !.slots = s, !.winner = FirstMost(s)]

NonePending(h) == [h EXCEPT !.e50 = None, !.e54 = None]
Entered(h, entry) == [NonePending(h) EXCEPT !.table = Append(@, entry), !.c5c = NoCode]

(* pair_with_edge, head first: the code r comes after its edge; which of   *)
(* the two it may take is in the code's own two low bits.                  *)
Paired(h, r, frame) ==
  LET room == Len(h.table) < TABLE
      lead == h.e50 # None /\ r.bit = 1
      e == IF lead THEN h.e50 ELSE h.e54
  IN IF room /\ (lead \/ (h.e54 # None /\ r.low))
     THEN Entered(h, [code |-> frame, line |-> e.line + (IF lead THEN OFFSET ELSE 0), edge |-> e.n, mark |-> r.n])
     ELSE NonePending(h)

(* FUN_10013cd0, FUN_10013f50: a type-3 word has a frame number, a type-4  *)
(* word only the film's code.  Tail first, the code waits for its edge;    *)
(* doubling the invalid marker to make room for the bit leaves zero.       *)
Frame(r) == IF r.type = 3 /\ r.ok THEN r.n ELSE Invalid
Doubled(f) == IF f = Invalid THEN 0 ELSE f
CodeWord(h, r) ==
  LET v == IF r.ok THEN Voted(h, r.code) ELSE h
  IN IF h.tail THEN [NonePending(v) EXCEPT !.c5c = [n |-> r.n, bit |-> r.bit, frame |-> Doubled(Frame(r))]]
     ELSE Paired(v, r, Frame(r))

(* FUN_10014130, tail first: an edge closes the code before it when their  *)
(* bits agree.  Head first it waits for the code.                          *)
Edge(h, r) ==
  IF ~h.tail
  THEN IF r.bit = 1 THEN [h EXCEPT !.e50 = [n |-> r.n, line |-> r.line, bit |-> 1], !.e54 = None]
       ELSE [h EXCEPT !.e54 = [n |-> r.n, line |-> r.line, bit |-> 0], !.e50 = None]
  ELSE IF Len(h.table) < TABLE
       THEN IF r.bit # h.c5c.bit THEN [NonePending(h) EXCEPT !.c5c = NoCode]
            ELSE Entered(h, [code |-> h.c5c.frame, line |-> r.line + r.bit * OFFSET, edge |-> r.n, mark |-> h.c5c.n])
       ELSE [NonePending(h) EXCEPT !.c5c = NoCode]

(* FUN_100148a0: an edge with the low bit, or any fat bit, finds the film. *)
Dispatched(h, r) ==
  LET f == [h EXCEPT !.found = @ \/ r.type = 6 \/ (r.type \in {5, 7} /\ r.low)]
  IN IF r.type \in {3, 4} THEN CodeWord(f, r) ELSE IF r.type = 5 THEN Edge(f, r) ELSE f

(* A packet's records are dispatched one after the other.                  *)
DispatchedAll(h, rs) ==
  LET after[i \in 0..Len(rs)] == IF i = 0 THEN h ELSE Dispatched(after[i - 1], rs[i])
  IN  after[Len(rs)]

-----------------------------------------------------------------------------
(* pk_dx_feed_packet                                                       *)

Hole == [tail |-> tail, found |-> found, e50 |-> e50, e54 |-> e54, c5c |-> c5c,
         table |-> table, slots |-> slots, winner |-> winner]
HoleIs(h) ==
  /\ tail' = h.tail /\ found' = h.found /\ e50' = h.e50 /\ e54' = h.e54 /\ c5c' = h.c5c
  /\ table' = h.table /\ slots' = h.slots /\ winner' = h.winner

(* The record as the packet of true line `at` brings it.                   *)
Parsed(r, n, at) ==
  LET true == at - r.lag
  IN [type |-> r.type, ok |-> r.ok, code |-> r.code, bit |-> r.bit, low |-> r.low, n |-> n,
      true |-> true, fresh |-> true > now, line |-> LineOf([type |-> r.type, true |-> true], at % WORD)]

(* The status byte of the packet's first record: the sensors, and whether  *)
(* the strip comes tail first from here on.                                *)
SensorsAre(status) == sensors' = [entry |-> status.entry, exit |-> status.exit]
TailAfter(h, status) == [h EXCEPT !.tail = @ \/ status.tail]

Feed ==
  /\ ~analysed /\ ~cal
  /\ \E step \in STEPS, k \in 0..PER_PACKET, status \in STATUSES :
       /\ k <= MAX_RECORDS - Len(parsed) /\ now + step <= MAX_LINE
       /\ \E rs \in [1..k -> RECORDS] :
            LET at == now + step
                ps == [i \in 1..k |-> Parsed(rs[i], Len(parsed) + i, at)]
                h0 == IF k > 0 THEN TailAfter(Hole, status) ELSE Hole
            IN /\ \A i \in 1..k : ps[i].true >= 0
               /\ HoleIs(DispatchedAll(h0, ps))
               /\ IF k > 0 THEN SensorsAre(status) ELSE UNCHANGED sensors
               /\ now' = at /\ parsed' = parsed \o ps
               /\ b_roll' = Rolled(at % WORD) /\ b_last' = Full(at % WORD)
  /\ UNCHANGED <<cal, cal_abort, analysed>>

(* During a calibration nothing but the sensors is looked at, and film ends*)
(* it.                                                                     *)
FeedCalibrating ==
  /\ ~analysed /\ cal
  /\ \E status \in STATUSES :
       /\ SensorsAre(status)
       /\ cal' = ~(status.entry \/ status.exit) /\ cal_abort' = (status.entry \/ status.exit)
  /\ UNCHANGED <<b_roll, b_last, hole, analysed, now, parsed>>

(* pk_dx_finish_strip: the analysis is of the table as it is; no packet is *)
(* taken after it.                                                         *)
Analyse == ~analysed /\ analysed' = TRUE /\ UNCHANGED <<board, hole, now, parsed>>

DxFresh ==
  /\ b_roll = 0 /\ b_last = 0 /\ sensors = [entry |-> FALSE, exit |-> FALSE] /\ cal_abort = FALSE
  /\ tail = FALSE /\ found = FALSE /\ e50 = None /\ e54 = None /\ c5c = NoCode
  /\ table = <<>> /\ slots = <<>> /\ winner = 0
  /\ now = 0 /\ parsed = <<>>
DxInit == DxFresh /\ cal \in BOOLEAN /\ analysed = FALSE
DxNext == Feed \/ FeedCalibrating \/ Analyse
DxSpec == DxInit /\ [][DxNext]_vars

-----------------------------------------------------------------------------
(* What the parser makes of the film                                       *)

(* An edge's full line is the film's, as long as two packets are less than *)
(* the counter's range (but for BACK) apart, unless it waited on the board *)
(* while a packet after it was read and the counter rolled over in between:*)
(* then it is one range too far.                                           *)
LinesAreTrue ==
  /\ b_last = now
  /\ \A k \in 1..Len(parsed) :
       LET r == parsed[k]
       IN r.type = 5 => IF r.fresh THEN r.line = r.true ELSE r.line \in {r.true, r.true + WORD}

(* A frame's entry is made of an edge and the code word beside it: no other*)
(* edge or code came between them, head first the edge is the earlier and  *)
(* tail first the later; no edge or code serves twice and the entries are  *)
(* in the film's order.  Tail first an edge alone makes an entry too, whose*)
(* code is never a frame's.                                                *)
Marks == {k \in 1..Len(parsed) : parsed[k].type \in {3, 4, 5}}
Beside(t) == {t.edge, t.mark} \ {0}
EntriesArePairs ==
  \A i \in 1..Len(table) :
    LET t == table[i]
    IN /\ parsed[t.edge].type = 5 /\ t.line = parsed[t.edge].line + parsed[t.edge].bit * OFFSET
       /\ \A m \in Marks \ Beside(t) : m < Min(Beside(t)) \/ m > Max(Beside(t))
       /\ IF t.mark = 0 THEN t.code = Invalid /\ tail
          ELSE parsed[t.mark].type \in {3, 4} /\ (t.edge < t.mark \/ tail)
       /\ i > 1 => Max(Beside(table[i - 1])) < Min(Beside(t))

(* The vote counts what was accepted, code by code in the order they were  *)
(* first seen, and the winner is the earliest of the most frequent.        *)
Accepted(code) == {k \in 1..Len(parsed) : parsed[k].type \in {3, 4} /\ parsed[k].ok /\ parsed[k].code = code}
VoteIsCount ==
  /\ \A i \in 1..Len(slots) : slots[i].count = Cardinality(Accepted(slots[i].code))
  /\ \A i, j \in 1..Len(slots) : i < j => Min(Accepted(slots[i].code)) < Min(Accepted(slots[j].code))
  /\ \A c \in CODES : Accepted(c) # {} /\ SlotOf(Hole, c) = 0 => Len(slots) = SLOTS
  /\ Len(slots) > 0 =>
       \A j \in 1..Len(slots) : slots[j].count < slots[winner].count \/ (slots[j].count = slots[winner].count /\ winner <= j)

(* What the parser's words, edges and votes say of the packets.            *)
ParserIsTrue == LinesAreTrue /\ EntriesArePairs /\ VoteIsCount
=============================================================================
