------------------------------- MODULE MCStrips -------------------------------
(***************************************************************************)
(* What is made of a film's strips: the DX parser and its table, the frame *)
(* detector and the roll's decode, in one run: `which` says which part     *)
(* goes on, the others rest.                                               *)
(***************************************************************************)
EXTENDS Dx, DxTable, Frame, Roll

VARIABLE which
MCVars == <<which, vars, tvars, frameVars, rollVars>>

(* The parser's packets: every order of words of three film codes, a       *)
(* misread word, edges of both bits that may be old, and a fat bit.        *)
Word(type, code, bit, low) == [type |-> type, ok |-> code # NoFilm, code |-> code, bit |-> bit, low |-> low, lag |-> 0]
EdgeOf(bit, lag) == [type |-> 5, ok |-> TRUE, code |-> NoFilm, bit |-> bit, low |-> FALSE, lag |-> lag]
MCRecords ==
  {Word(3, c, 1, FALSE) : c \in CODES} \cup {Word(4, Min(CODES), 0, TRUE), Word(3, NoFilm, 1, TRUE)}
  \cup {EdgeOf(0, 0), EdgeOf(1, 0), EdgeOf(0, 4), [EdgeOf(0, 0) EXCEPT !.type = 6]}
MCStatuses == {[entry |-> FALSE, exit |-> FALSE, tail |-> FALSE], [entry |-> TRUE, exit |-> FALSE, tail |-> TRUE]}

(* The table's strips: four frames out of seven, head or tail first, in    *)
(* which any words lack the code, one code is one too high, one line a     *)
(* range too far and one a line off.                                       *)
FilmCode(frame, head) == IF head THEN 10 + frame ELSE 30 - frame
MCTables(head) ==
  {[k \in 1..4 |->
      [line |-> FILM + SPACING + f[k] * SPACING + (IF k = far THEN BIG ELSE 0) + (IF k = off THEN 1 ELSE 0),
       code |-> IF k \in missed THEN INVALID ELSE FilmCode(f[k], head) + (IF k = wrong THEN 1 ELSE 0)]] :
     f \in {<<0, a, a + b, a + b + c>> : a \in {1, 2}, b \in {1, 3}, c \in {1, 2}},
     missed \in SUBSET (1..4), wrong \in 0..4, far \in 0..4, off \in 0..4}

(* The roll's: three strips in a file of at most 27 lines, one with        *)
(* pre-film lines, one too short for a row, one without film, cut at its   *)
(* end or not.                                                             *)
Strip(seg, start, end, ended) == [seg |-> seg, start |-> start, end |-> end, ended |-> ended, film |-> IF ended THEN "dx" ELSE "none"]
MCRolls ==
  {<<Strip(0, p, 12, TRUE), b, Strip(16, q, 26, e)>> :
     p \in {0, 1}, b \in {Strip(13, 13, 14, TRUE), Strip(13, 15, 15, FALSE), Strip(13, 14, 15, TRUE)},
     q \in {16, 18}, e \in BOOLEAN}

ParserRests == DxFresh /\ cal = FALSE /\ analysed = TRUE
TableRests  == read = <<>> /\ head_first = TRUE /\ done = FALSE /\ out = [ok |-> FALSE, good |-> 0, e |-> <<>>]
FrameRests  == strip = [lines |-> 0, bright |-> <<>>] /\ mode = "none" /\ rects = <<>>
RollRests   ==
  /\ sidecar = <<>> /\ size = 0 /\ file = 0 /\ st = <<>> /\ open = FALSE /\ cal_loaded = FALSE /\ stored = FALSE
  /\ manual = <<>> /\ keep = NoKeep /\ faults = 0

MCInit ==
  \/ which = "parser" /\ DxInit /\ TableRests /\ FrameRests /\ RollRests
  \/ which = "table" /\ ParserRests /\ TableInit /\ FrameRests /\ RollRests
  \/ which = "frames" /\ ParserRests /\ TableRests /\ FrameInit /\ RollRests
  \/ which = "roll" /\ ParserRests /\ TableRests /\ FrameRests /\ RollInit

MCNext ==
  /\ UNCHANGED which
  /\ \/ which = "parser" /\ DxNext /\ UNCHANGED <<tvars, frameVars, rollVars>>
     \/ which = "table" /\ AnalyseTable /\ UNCHANGED <<vars, frameVars, rollVars>>
     \/ which = "frames" /\ FrameNext /\ UNCHANGED <<vars, tvars, rollVars>>
     \/ which = "roll" /\ RollNext /\ UNCHANGED <<vars, tvars, frameVars>>

MCSpec == MCInit /\ [][MCNext]_MCVars
=============================================================================
