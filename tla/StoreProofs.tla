------------------------------- MODULE StoreProofs -------------------------------
(***************************************************************************)
(* Proofs about what is kept on disk and read back.  Of the two stores:    *)
(* that an installed calibration and a reported selection survive failures *)
(* and power losses, that resolve picks what its rules say (CalStore), and *)
(* that the current EEPROM image stays the first (EepromStore); both rest  *)
(* on what the operators of AppendLog do to a log, which come first.  Of a *)
(* roll: that its strips and frames are those of a single pass (Roll).     *)
(***************************************************************************)
EXTENDS CalStore, EepromStore, Roll, WellFoundedInduction, SequenceTheorems, FiniteSetTheorems, TLAPS

(* A non-empty set of natural numbers has a least one. *)
LEMMA WFNat ==
  ASSUME NEW S \in SUBSET Nat, S # {}
  PROVE \E m \in S : \A j \in S : m <= j
<1>1. \E x \in S : \A y \in S : ~ (<<y, x>> \in OpToRel(<, Nat))
  BY NatLessThanWellFounded, WFMin
<1>2. PICK x \in S : \A y \in S : ~ (<<y, x>> \in OpToRel(<, Nat))
  BY <1>1
<1>3. \A y \in S : ~ (y < x)
  BY <1>2 DEF OpToRel
<1> QED BY <1>3
(* Max of a non-empty set of line numbers is its greatest. *)
LEMMA MaxIs ==
  ASSUME NEW n \in Nat, NEW S \in SUBSET (1..n), S # {}
  PROVE  Max(S) \in S /\ \A y \in S : Max(S) >= y
<1> DEFINE T == {m \in Nat : n - m \in S}
<1>1. PICK x \in S : TRUE
  OBVIOUS
<1>2. n - x \in T
  BY <1>1
<1>3. T \in SUBSET Nat /\ T # {}
  BY <1>2
<1> HIDE DEF T
<1>4. PICK t \in T : \A m \in T : t <= m
  BY <1>3, WFNat
<1> USE DEF T
<1>5. n - t \in S /\ \A y \in S : n - t >= y
  <2>1. ASSUME NEW y \in S PROVE n - t >= y
    <3>1. n - y \in Nat /\ n - (n - y) = y
      OBVIOUS
    <3>2. n - y \in T
      BY <3>1
    <3> QED BY <1>4, <3>1, <3>2
  <2> QED BY <1>4, <2>1
<1> QED BY <1>5 DEF Max

-----------------------------------------------------------------------------

(* How a line may end, what a log is whose lines say what T allows, and when line j of h says what it says in g. *)
Ends == {"nl", "bare", "cut", "bad"}
IsLog(g, T) == /\ g \in [lines : Seq([text : T, end : Ends]), hard : Nat]
               /\ g.hard <= Len(g.lines)
Same(g, h, j) == h.lines[j].text = g.lines[j].text

(* The parts of a log. *)
LEMMA LogIs ==
  ASSUME NEW g, NEW T, IsLog(g, T)
  PROVE  /\ Len(g.lines) \in Nat /\ DOMAIN g.lines = 1..Len(g.lines) /\ g.hard \in 0..Len(g.lines)
         /\ \A j \in 1..Len(g.lines) : /\ g.lines[j] \in [text : T, end : Ends] /\ g.lines[j].text \in T
                                       /\ g.lines[j].end \in Ends
<1>1. g.lines \in Seq([text : T, end : Ends]) /\ g.hard \in Nat /\ g.hard <= Len(g.lines)
  BY DEF IsLog
<1>2. Len(g.lines) \in Nat /\ DOMAIN g.lines = 1..Len(g.lines)
  BY <1>1, LenProperties
<1>3. \A j \in 1..Len(g.lines) : g.lines[j] \in [text : T, end : Ends]
  BY <1>1, <1>2, ElementOfSeq
<1> QED BY <1>1, <1>2, <1>3

(* The empty log is a log of anything. *)
LEMMA EmptyIs == \A T : IsLog(EmptyLog, T) /\ Len(EmptyLog.lines) = 0
BY EmptySeq DEF IsLog, EmptyLog

(* append_line ends a torn line first: nothing else changes, and only a torn last line stops being durable. *)
LEMMA MendedIs ==
  ASSUME NEW g, NEW T, IsLog(g, T), NEW repair \in [Torn -> {"nl", "bad"}]
  PROVE  LET h == Mended(g, repair) IN
         /\ IsLog(h, T) /\ Len(h.lines) = Len(g.lines)
         /\ \A j \in 1..Len(g.lines) :
              /\ Same(g, h, j)
              /\ j # Len(g.lines) \/ g.lines[j].end \notin Torn => h.lines[j].end = g.lines[j].end
              /\ g.lines[j].end \in Torn /\ j = Len(g.lines) => h.lines[j].end = repair[g.lines[j].end]
         /\ \/ h.hard = g.hard
            \/ LastTorn(g) /\ g.hard = Len(g.lines) /\ h.hard = g.hard - 1
<1> DEFINE h == Mended(g, repair)
           n == Len(g.lines)
<1>0. /\ n \in Nat /\ DOMAIN g.lines = 1..n /\ g.hard \in 0..n
      /\ \A j \in 1..n : g.lines[j] \in [text : T, end : Ends] /\ g.lines[j].end \in Ends
  BY LogIs
<1>1. CASE LastTorn(g)
  <2>1. n \in 1..n /\ g.lines[n].end \in Torn
    BY <1>0, <1>1, EmptySeq DEF LastTorn, IsLog
  <2>2. h = [lines |-> [g.lines EXCEPT ![n].end = repair[@]], hard |-> IF g.hard = n THEN n - 1 ELSE g.hard]
    BY <1>1 DEF Mended
  <2>3. repair[g.lines[n].end] \in Ends
    BY <2>1 DEF Ends
  <2> DEFINE x == [g.lines[n] EXCEPT !.end = repair[@]]
  <2>4. x \in [text : T, end : Ends] /\ x.text = g.lines[n].text /\ x.end = repair[g.lines[n].end]
    BY <1>0, <2>1, <2>3
  <2> HIDE DEF x
  <2>5. h.lines = [g.lines EXCEPT ![n] = x]
    BY <2>2 DEF x
  <2>6. h.lines \in Seq([text : T, end : Ends]) /\ Len(h.lines) = n
    BY <2>1, <2>4, <2>5, ExceptSeq DEF IsLog
  <2>7. \A j \in 1..n : h.lines[j] = IF j = n THEN x ELSE g.lines[j]
    BY <1>0, <2>5
  <2>8. h.hard = (IF g.hard = n THEN n - 1 ELSE g.hard) /\ h \in [lines : Seq([text : T, end : Ends]), hard : Nat]
    BY <1>0, <2>1, <2>2, <2>6
  <2>9. IsLog(h, T)
    BY <1>0, <2>1, <2>6, <2>8 DEF IsLog
  <2> HIDE DEF h
  <2>10. \A j \in 1..n :
              /\ Same(g, h, j)
              /\ j # n \/ g.lines[j].end \notin Torn => h.lines[j].end = g.lines[j].end
              /\ g.lines[j].end \in Torn /\ j = n => h.lines[j].end = repair[g.lines[j].end]
    BY <2>1, <2>4, <2>7 DEF Same
  <2> QED BY <1>0, <1>1, <2>6, <2>8, <2>9, <2>10 DEF h
<1>2. CASE ~LastTorn(g)
  <2>1. h = g
    BY <1>2 DEF Mended
  <2>2. \A j \in 1..n : ~(g.lines[j].end \in Torn /\ j = n)
    BY <1>2, <1>0, EmptySeq DEF LastTorn
  <2> QED BY <2>1, <2>2 DEF Same
<1> QED BY <1>1, <1>2

(* A line is appended: the others stay, and what was durable is. *)
LEMMA AddedIs ==
  ASSUME NEW g, NEW T, IsLog(g, T), NEW t \in T, NEW e \in Ends
  PROVE  LET h == Added(g, t, e) IN
         /\ IsLog(h, T) /\ Len(h.lines) = Len(g.lines) + 1 /\ h.hard = g.hard
         /\ \A j \in 1..Len(g.lines) : h.lines[j] = g.lines[j]
         /\ h.lines[Len(h.lines)] = [text |-> t, end |-> e]
<1> DEFINE h == Added(g, t, e)
           x == [text |-> t, end |-> e]
<1>1. h.lines = Append(g.lines, x) /\ h.hard = g.hard /\ h = [g EXCEPT !.lines = Append(g.lines, x)]
  BY DEF Added, IsLog
<1>2. x \in [text : T, end : Ends] /\ g.lines \in Seq([text : T, end : Ends])
  BY DEF IsLog
<1>3. /\ Append(g.lines, x) \in Seq([text : T, end : Ends]) /\ Len(Append(g.lines, x)) = Len(g.lines) + 1
      /\ \A j \in 1..Len(g.lines) : Append(g.lines, x)[j] = g.lines[j]
      /\ Append(g.lines, x)[Len(g.lines) + 1] = x
  BY <1>2, AppendProperties
<1>4. IsLog(h, T)
  <2>1. h \in [lines : Seq([text : T, end : Ends]), hard : Nat]
    BY <1>1, <1>3 DEF IsLog
  <2>2. h.hard <= Len(h.lines)
    BY <1>1, <1>3, LogIs
  <2> QED BY <2>1, <2>2 DEF IsLog
<1> QED BY <1>1, <1>3, <1>4

(* fsync: the same lines, all of them durable. *)
LEMMA SyncedIs ==
  ASSUME NEW g, NEW T, IsLog(g, T)
  PROVE  IsLog(Synced(g), T) /\ Synced(g).lines = g.lines /\ Synced(g).hard = Len(g.lines)
BY LogIs DEF IsLog, Synced

(* A failed append: the log as it was, mended, or mended and torn.         *)
LEMMA SpoiledIs ==
  ASSUME NEW g, NEW t, NEW repair, NEW h \in Spoiled(g, t, repair)
  PROVE  h = g \/ h = Mended(g, repair) \/ \E e \in Torn : h = Added(Mended(g, repair), t, e)
BY DEF Spoiled

(* After a power loss: the durable lines, and perhaps some of the others, the last one perhaps torn. *)
LEMMA AfterLossIs ==
  ASSUME NEW g, NEW T, IsLog(g, T), NEW h \in AfterLoss(g)
  PROVE  /\ IsLog(h, T) /\ Len(h.lines) \in g.hard..Len(g.lines) /\ h.hard = Len(h.lines)
         /\ \A j \in 1..Len(h.lines) :
              /\ Same(g, h, j)
              /\ \/ h.lines[j].end = g.lines[j].end
                 \/ h.lines[j].end \in Torn /\ j = Len(h.lines) /\ j > g.hard
<1> DEFINE left(n) == SubSeq(g.lines, 1, n)
<1>1. PICK n \in g.hard..Len(g.lines) :
        \/ h = Synced([g EXCEPT !.lines = left(n)])
        \/ n # g.hard /\ \E e \in Torn : h = Synced([g EXCEPT !.lines = [left(n) EXCEPT ![n].end = e]])
  BY DEF AfterLoss
<1>2. g.lines \in Seq([text : T, end : Ends]) /\ Len(g.lines) \in Nat /\ g.hard \in 0..Len(g.lines) /\ n \in Nat
  BY LogIs DEF IsLog
<1>3. /\ left(n) \in Seq([text : T, end : Ends]) /\ Len(left(n)) = n
      /\ \A j \in 1..n : left(n)[j] = g.lines[j] /\ g.lines[j] \in [text : T, end : Ends]
  <2>1. \A j \in 1..n : g.lines[j] \in [text : T, end : Ends]
    BY <1>1, <1>2, LogIs
  <2> QED BY <1>1, <1>2, <2>1, SubSeqProperties
<1> HIDE DEF left
<1>4. CASE h = Synced([g EXCEPT !.lines = left(n)])
  <2>1. h = [lines |-> left(n), hard |-> n]
    BY <1>3, <1>4 DEF Synced, IsLog
  <2>2. IsLog(h, T)
    BY <1>2, <1>3, <2>1 DEF IsLog
  <2> QED BY <1>1, <1>3, <2>1, <2>2 DEF Same
<1>5. ASSUME n # g.hard, NEW e \in Torn, h = Synced([g EXCEPT !.lines = [left(n) EXCEPT ![n].end = e]])
      PROVE  /\ IsLog(h, T) /\ Len(h.lines) \in g.hard..Len(g.lines) /\ h.hard = Len(h.lines)
             /\ \A j \in 1..Len(h.lines) :
                  /\ Same(g, h, j)
                  /\ \/ h.lines[j].end = g.lines[j].end
                     \/ h.lines[j].end \in Torn /\ j = Len(h.lines) /\ j > g.hard
  <2>1. n \in 1..n /\ n > g.hard
    BY <1>1, <1>2, <1>5
  <2> DEFINE x == [left(n)[n] EXCEPT !.end = e]
             l == [left(n) EXCEPT ![n] = x]
  <2>2. x \in [text : T, end : Ends] /\ x.text = g.lines[n].text /\ x.end = e
    BY <1>3, <2>1 DEF Torn, Ends
  <2>3. l \in Seq([text : T, end : Ends]) /\ Len(l) = n
    BY <1>3, <2>1, <2>2, ExceptSeq
  <2>4. \A j \in 1..n : l[j] = IF j = n THEN x ELSE g.lines[j]
    BY <1>3, LenProperties
  <2>5. h = [lines |-> l, hard |-> n]
    <3>1. [left(n) EXCEPT ![n].end = e] = l
      OBVIOUS
    <3> HIDE DEF l
    <3> QED BY <1>5, <3>1, <2>3 DEF Synced, IsLog
  <2> HIDE DEF x, l
  <2>6. IsLog(h, T)
    BY <1>2, <2>3, <2>5 DEF IsLog
  <2> QED BY <1>1, <2>1, <2>2, <2>3, <2>4, <2>5, <2>6 DEF Same
<1> QED BY <1>1, <1>4, <1>5

(* What the last line in force says.                                       *)
LEMMA LastSaidIs ==
  ASSUME NEW g, NEW T, IsLog(g, T), NEW of, NEW default
  PROVE  \/ LastSaid(g, of, default) = default /\ InForce(g, of) = {}
         \/ \E n \in InForce(g, of) : /\ \A m \in InForce(g, of) : m <= n
                                      /\ LastSaid(g, of, default) = g.lines[n].text[2]
<1>1. InForce(g, of) \in SUBSET (1..Len(g.lines)) /\ Len(g.lines) \in Nat
  BY LogIs DEF InForce
<1>2. CASE InForce(g, of) = {}
  BY <1>2 DEF LastSaid
<1>3. CASE InForce(g, of) # {}
  <2>1. Max(InForce(g, of)) \in InForce(g, of) /\ \A y \in InForce(g, of) : Max(InForce(g, of)) >= y
    BY <1>1, <1>3, MaxIs
  <2>2. LastSaid(g, of, default) = g.lines[Max(InForce(g, of))].text[2]
    BY <1>3 DEF LastSaid
  <2>3. \A y \in InForce(g, of) : y <= Max(InForce(g, of))
    BY <1>1, <2>1
  <2> QED BY <2>1, <2>2, <2>3
<1> QED BY <1>2, <1>3

-----------------------------------------------------------------------------

(* What a line of eeprom.log says. *)
EText == {"current", "stored"} \X Images

(* The images, the log and the put are of their types. *)
EepromTypes ==
  /\ image \in [Images -> [seen : BOOLEAN, hard : BOOLEAN]]
  /\ epc # "idle" => put.of \in Images
  /\ IsLog(elog, EText)
  /\ \A j \in 1..Len(elog.lines) : elog.lines[j].text[2] \in Images

(* Line j of eeprom.log names i the current image; a durable line does, and no later one names another. *)
SaysCurrent(j, i) == elog.lines[j].text[1] = "current" /\ elog.lines[j].text[2] = i
Anchored(i) ==
  \E m \in 1..elog.hard :
    /\ SaysCurrent(m, i) /\ elog.lines[m].end = "nl"
    /\ \A j \in m..Len(elog.lines) : elog.lines[j].text[1] = "current" => SaysCurrent(j, i)

(* What a put has reported as current, and no loss of the log has undone, is anchored in the durable part of the log, and a put that is to write *)
(* "current" is of that image: the inductive strengthening of CurrentIsFirst.                                *)
FirstStays ==
  /\ told # {} => \E i \in Images : told = {i} /\ Anchored(i)
  /\ epc \in {"dirsync", "append", "logsync"} /\ put.current => told \subseteq {put.of}
  /\ epc = "logsync" /\ put.current =>
       /\ Len(elog.lines) > 0 /\ SaysCurrent(Len(elog.lines), put.of)
       /\ elog.lines[Len(elog.lines)].end = "nl"

(* An image that a line names is durable under its name: the file is written before the line. *)
ImagesStored ==
  /\ \A j \in 1..Len(elog.lines) : image[elog.lines[j].text[2]].hard
  /\ \A i \in Images : image[i].hard => image[i].seen
  /\ epc \in {"decide", "dirsync"} => image[put.of].seen
  /\ epc \in {"append", "logsync"} => image[put.of].hard

(* The parts of a line. *)
LEMMA ETextIs == \A t \in EText : t[1] \in {"current", "stored"} /\ t[2] \in Images
BY DEF EText

(* An anchored image is the one that log_current reads. *)
LEMMA CurrentIs ==
  ASSUME EepromTypes, NEW i, Anchored(i)
  PROVE  Current = i
<1>0. Len(elog.lines) \in Nat /\ elog.hard \in 0..Len(elog.lines) /\ DOMAIN elog.lines = 1..Len(elog.lines)
  BY LogIs DEF EepromTypes
<1>1. PICK m \in 1..elog.hard :
        /\ SaysCurrent(m, i) /\ elog.lines[m].end = "nl"
        /\ \A j \in m..Len(elog.lines) : elog.lines[j].text[1] = "current" => SaysCurrent(j, i)
  BY DEF Anchored
<1>2. m \in InForce(elog, "current")
  BY <1>0, <1>1 DEF InForce, SaysCurrent
<1>3. PICK n \in InForce(elog, "current") :
        /\ \A x \in InForce(elog, "current") : x <= n
        /\ LastSaid(elog, "current", NoImage) = elog.lines[n].text[2]
  BY <1>2, LastSaidIs DEF EepromTypes
<1>4. n \in m..Len(elog.lines) /\ elog.lines[n].text[1] = "current"
  BY <1>0, <1>1, <1>2, <1>3 DEF InForce
<1>5. SaysCurrent(n, i)
  BY <1>1, <1>4
<1> QED BY <1>3, <1>5 DEF Current, SaysCurrent

(* log_current reads an image that some line names, or nothing. *)
LEMMA CurrentIsAnImage == EepromTypes => Current = NoImage \/ \E j \in 1..Len(elog.lines) : Current = elog.lines[j].text[2]
<1> SUFFICES ASSUME EepromTypes
             PROVE  Current = NoImage \/ \E j \in 1..Len(elog.lines) : Current = elog.lines[j].text[2]
  OBVIOUS
<1>1. InForce(elog, "current") \subseteq 1..Len(elog.lines)
  BY LogIs DEF InForce, EepromTypes
<1> QED BY <1>1, LastSaidIs DEF EepromTypes, Current

(* An anchor survives whatever keeps the synced lines in force and adds    *)
(* nothing but lines that say the same.                                    *)
LEMMA AnchorKept ==
  ASSUME EepromTypes, EepromTypes', NEW i, Anchored(i),
         elog'.hard = elog.hard \/ (elog'.hard >= elog.hard) \/
           (elog'.hard = elog.hard - 1 /\ elog.lines[elog.hard].end # "nl"),
         Len(elog'.lines) >= elog.hard,
         \A j \in 1..Len(elog'.lines) :
           /\ j <= Len(elog.lines) => elog'.lines[j].text = elog.lines[j].text
           /\ j <= elog.hard /\ elog.lines[j].end = "nl" => elog'.lines[j].end = "nl"
           /\ j > Len(elog.lines) /\ elog'.lines[j].text[1] = "current" => elog'.lines[j].text[2] = i
  PROVE  Anchored(i)'
<1>0. Len(elog.lines) \in Nat /\ elog.hard \in 0..Len(elog.lines)
  BY LogIs DEF EepromTypes
<1>00. Len(elog'.lines) \in Nat /\ elog'.hard \in 0..Len(elog'.lines)
  BY LogIs DEF EepromTypes
<1>1. PICK m \in 1..elog.hard :
        /\ SaysCurrent(m, i) /\ elog.lines[m].end = "nl"
        /\ \A j \in m..Len(elog.lines) : elog.lines[j].text[1] = "current" => SaysCurrent(j, i)
  BY DEF Anchored
<1>2. m \in 1..elog'.hard /\ m \in 1..Len(elog'.lines)
  BY <1>0, <1>00, <1>1
<1>3. SaysCurrent(m, i)' /\ elog'.lines[m].end = "nl"
  BY <1>0, <1>1, <1>2 DEF SaysCurrent
<1>4. ASSUME NEW j \in m..Len(elog'.lines), elog'.lines[j].text[1] = "current" PROVE SaysCurrent(j, i)'
  <2>1. CASE j <= Len(elog.lines)
    BY <1>0, <1>00, <1>1, <1>4, <2>1, SMTT(30) DEF SaysCurrent
  <2>2. CASE j > Len(elog.lines)
    BY <1>0, <1>00, <1>1, <1>4, <2>2 DEF SaysCurrent
  <2> QED BY <1>0, <1>00, <2>1, <2>2
<1> QED BY <1>2, <1>3, <1>4 DEF Anchored

-----------------------------------------------------------------------------

(* eeprom_store.c ends a torn line with a newline alone. *)
LEMMA JustEndedIs == JustEnded \in [Torn -> {"nl", "bad"}]
BY DEF JustEnded, Torn

(* What an append makes of the log, whether it fails or not.               *)
LEMMA AppendLeaves ==
  ASSUME EepromTypes, epc = "append",
         NEW e \in Ends, NEW h,
         h = elog \/ h = Mended(elog, JustEnded) \/ h = Added(Mended(elog, JustEnded), Saying, e)
  PROVE  /\ IsLog(h, EText)
         /\ h.hard = elog.hard \/ (h.hard = elog.hard - 1 /\ elog.lines[elog.hard].end # "nl")
         /\ Len(h.lines) >= elog.hard
         /\ \A j \in 1..Len(h.lines) :
              /\ j <= Len(elog.lines) => h.lines[j].text = elog.lines[j].text
              /\ j <= elog.hard /\ elog.lines[j].end = "nl" => h.lines[j].end = "nl"
              /\ j > Len(elog.lines) => h.lines[j].text = Saying
<1> DEFINE g == Mended(elog, JustEnded)
           n == Len(elog.lines)
<1>1. IsLog(elog, EText) /\ n \in Nat /\ elog.hard \in 0..n
  BY LogIs DEF EepromTypes
<1>2. /\ IsLog(g, EText) /\ Len(g.lines) = n
      /\ \A j \in 1..n : /\ Same(elog, g, j)
                         /\ elog.lines[j].end = "nl" => g.lines[j].end = "nl"
      /\ g.hard = elog.hard \/ (g.hard = elog.hard - 1 /\ elog.lines[elog.hard].end # "nl")
  <2>1. \A j \in 1..n : elog.lines[j].end = "nl" => elog.lines[j].end \notin Torn
    BY DEF Torn
  <2>2. LastTorn(elog) /\ elog.hard = n => elog.lines[elog.hard].end # "nl"
    BY DEF LastTorn, Torn
  <2> QED BY <1>1, <2>1, <2>2, MendedIs, JustEndedIs
<1> HIDE DEF g
<1>3. Saying \in EText
  BY DEF EText, Saying, EepromTypes
<1>4. CASE h = elog
  BY <1>1, <1>4
<1>5. CASE h = g
  BY <1>1, <1>2, <1>5 DEF Same
<1>6. CASE h = Added(g, Saying, e)
  <2>1. /\ IsLog(h, EText) /\ Len(h.lines) = n + 1 /\ h.hard = g.hard
        /\ \A j \in 1..n : h.lines[j] = g.lines[j]
        /\ h.lines[Len(h.lines)] = [text |-> Saying, end |-> e]
    BY <1>2, <1>3, <1>6, AddedIs
  <2>2. \A j \in 1..(n + 1) : j \in 1..n \/ j = n + 1
    BY <1>1
  <2> QED BY <1>1, <1>2, <2>1, <2>2, SMTT(60) DEF Same
<1> QED BY <1>4, <1>5, <1>6 DEF g

(* What a power loss leaves of eeprom.log. *)
LEMMA LossLeaves ==
  ASSUME EepromTypes, NEW h \in AfterLoss(elog)
  PROVE  /\ IsLog(h, EText) /\ h.hard >= elog.hard /\ h.hard = Len(h.lines) /\ Len(h.lines) <= Len(elog.lines)
         /\ \A j \in 1..Len(h.lines) :
              /\ h.lines[j].text = elog.lines[j].text
              /\ j <= elog.hard => h.lines[j].end = elog.lines[j].end
<1>1. IsLog(elog, EText) /\ Len(elog.lines) \in Nat /\ elog.hard \in 0..Len(elog.lines)
  BY LogIs DEF EepromTypes
<1>2. /\ IsLog(h, EText) /\ Len(h.lines) \in elog.hard..Len(elog.lines) /\ h.hard = Len(h.lines)
      /\ \A j \in 1..Len(h.lines) :
              /\ Same(elog, h, j)
              /\ \/ h.lines[j].end = elog.lines[j].end
                 \/ h.lines[j].end \in Torn /\ j = Len(h.lines) /\ j > elog.hard
  BY <1>1, AfterLossIs
<1> QED BY <1>1, <1>2 DEF Same

-----------------------------------------------------------------------------

(* The types and what was reported, together. *)
EepromInv == EepromTypes /\ FirstStays

(* The lines of a typed log name images. *)
LEMMA TypesFromLog ==
  ASSUME NEW h, IsLog(h, EText)
  PROVE  \A j \in 1..Len(h.lines) : h.lines[j].text[2] \in Images
BY LogIs, ETextIs

(* Steps that leave the log and what was told alone. *)
LEMMA SameLogKeeps ==
  ASSUME EepromInv, UNCHANGED <<elog, told>>,
         image' \in [Images -> [seen : BOOLEAN, hard : BOOLEAN]],
         epc' # "idle" => put'.of \in Images,
         epc' # "logsync",
         epc' \in {"dirsync", "append"} /\ put'.current => told \subseteq {put'.of}
  PROVE  EepromInv'
<1>1. EepromTypes'
  BY DEF EepromInv, EepromTypes
<1>2. \A i : Anchored(i)' <=> Anchored(i)
  BY DEF Anchored, SaysCurrent
<1>3. FirstStays'
  BY <1>2 DEF EepromInv, FirstStays
<1> QED BY <1>1, <1>3 DEF EepromInv

(* The steps that leave eeprom.log alone. *)
LEMMA QuietSteps ==
  ASSUME EepromInv, PutBegins \/ StoreFile \/ DirSync
  PROVE  EepromInv'
<1>1. CASE PutBegins
  BY <1>1, SameLogKeeps DEF PutBegins, EepromInv, EepromTypes
<1>2. CASE StoreFile
  <2>1. put.of \in Images
    BY <1>2 DEF StoreFile, EepromInv, EepromTypes
  <2>2. image' \in [Images -> [seen : BOOLEAN, hard : BOOLEAN]]
    BY <1>2, <2>1 DEF StoreFile, EepromInv, EepromTypes
  <2> QED BY <1>2, <2>1, <2>2, SameLogKeeps DEF StoreFile
<1>3. CASE DirSync
  <2>1. image' \in [Images -> [seen : BOOLEAN, hard : BOOLEAN]]
    BY <1>3 DEF DirSync, SyncsImages, EepromInv, EepromTypes
  <2> QED BY <1>3, <2>1, SameLogKeeps DEF DirSync, EepromInv, EepromTypes, FirstStays
<1> QED BY <1>1, <1>2, <1>3

(* Deciding reads the log: a put of another image than the anchored one does not become current. *)
LEMMA DecideKeeps ==
  ASSUME EepromInv, Decide
  PROVE  EepromInv'
<1>1. /\ put.of \in Images /\ put'.of = put.of /\ UNCHANGED <<image, elog, told>> /\ epc' = "dirsync"
      /\ put'.current => MayBeCurrent(put.of, put.equal)
  BY DEF Decide, EepromInv, EepromTypes
<1>2. ASSUME put'.current PROVE told \subseteq {put.of}
  <2>1. CASE told # {}
    <3>1. PICK i \in Images : told = {i} /\ Anchored(i)
      BY <2>1 DEF EepromInv, FirstStays
    <3>2. Current = i /\ i # NoImage
      BY <3>1, CurrentIs, EepromAssumption DEF EepromInv
    <3> QED BY <1>1, <1>2, <3>1, <3>2 DEF MayBeCurrent
  <2> QED BY <2>1
<1> QED BY <1>1, <1>2, SameLogKeeps DEF EepromInv, EepromTypes

(* Steps that append, fail to, or lose: the anchor stays. *)
LEMMA LogStepKeeps ==
  ASSUME EepromInv, EepromTypes', told' = told,
         epc = "append",
         NEW e \in Ends,
         elog' = elog \/ elog' = Mended(elog, JustEnded) \/ elog' = Added(Mended(elog, JustEnded), Saying, e),
         epc' = "logsync" => put' = put /\ e = "nl" /\ elog' = Added(Mended(elog, JustEnded), Saying, e),
         epc' \in {"idle", "logsync"}
  PROVE  EepromInv'
<1> DEFINE h == elog'
<1>1. /\ h.hard = elog.hard \/ (h.hard = elog.hard - 1 /\ elog.lines[elog.hard].end # "nl")
      /\ Len(h.lines) >= elog.hard
      /\ \A j \in 1..Len(h.lines) :
              /\ j <= Len(elog.lines) => h.lines[j].text = elog.lines[j].text
              /\ j <= elog.hard /\ elog.lines[j].end = "nl" => h.lines[j].end = "nl"
              /\ j > Len(elog.lines) => h.lines[j].text = Saying
  BY AppendLeaves DEF EepromInv
<1>2. ASSUME NEW i \in Images, told = {i}, Anchored(i) PROVE Anchored(i)'
  <2>1. put.current => put.of = i
    BY <1>2 DEF EepromInv, FirstStays
  <2>2. Saying[1] = "current" => Saying[2] = i
    BY <2>1 DEF Saying
  <2>3. \A j \in 1..Len(h.lines) : j > Len(elog.lines) /\ h.lines[j].text[1] = "current" => h.lines[j].text[2] = i
    BY <1>1, <2>2
  <2> HIDE DEF h
  <2>4. elog'.hard = elog.hard \/ (elog'.hard >= elog.hard) \/
           (elog'.hard = elog.hard - 1 /\ elog.lines[elog.hard].end # "nl")
    BY <1>1 DEF h
  <2> QED BY <1>1, <1>2, <2>3, <2>4, AnchorKept DEF h, EepromInv
<1>3. ASSUME epc' = "logsync", put'.current
      PROVE  /\ told \subseteq {put'.of} /\ Len(elog'.lines) > 0 /\ SaysCurrent(Len(elog.lines), put.of)'
             /\ elog'.lines[Len(elog'.lines)].end = "nl"
  <2>1. put' = put /\ elog' = Added(Mended(elog, JustEnded), Saying, "nl")
    BY <1>3
  <2>2. IsLog(Mended(elog, JustEnded), EText) /\ Saying \in EText /\ "nl" \in Ends
    BY MendedIs, JustEndedIs DEF EepromInv, EepromTypes, EText, Saying, Ends
  <2>3. elog'.lines[Len(elog'.lines)] = [text |-> Saying, end |-> "nl"] /\ Len(elog'.lines) > 0
    <3>1. Len(Mended(elog, JustEnded).lines) \in Nat
      BY <2>2, LogIs
    <3> QED BY <2>1, <2>2, <3>1, AddedIs
  <2>4. told \subseteq {put'.of}
    BY <1>3, <2>1 DEF EepromInv, FirstStays
  <2>5. SaysCurrent(Len(elog.lines), put.of)'
    BY <1>3, <2>1, <2>3 DEF SaysCurrent, Saying
  <2> QED BY <2>3, <2>4, <2>5
<1>4. FirstStays'
  BY <1>2, <1>3 DEF EepromInv, FirstStays
<1> QED BY <1>4 DEF EepromInv

(* A changed log keeps the types when it is a log. *)
LEMMA AppendTypes ==
  ASSUME EepromTypes, epc = "append", image' = image, epc' # "idle" => put' = put,
         NEW e \in Ends,
         elog' = elog \/ elog' = Mended(elog, JustEnded) \/ elog' = Added(Mended(elog, JustEnded), Saying, e)
  PROVE  EepromTypes'
<1>1. IsLog(elog', EText)
  BY AppendLeaves
<1> QED BY <1>1, TypesFromLog DEF EepromTypes

(* The line is written, not yet durable. *)
LEMMA LogWritesKeeps ==
  ASSUME EepromInv, LogWrites
  PROVE  EepromInv'
<1>1. /\ epc = "append" /\ epc' = "logsync" /\ UNCHANGED <<image, put, told>> /\ "nl" \in Ends
      /\ elog' = Added(Mended(elog, JustEnded), Saying, "nl")
  BY DEF LogWrites, Ends
<1>2. EepromTypes'
  BY <1>1, AppendTypes DEF EepromInv
<1> QED BY <1>1, <1>2, LogStepKeeps

(* A put fails, wherever it is, and may leave a torn line. *)
LEMMA PutFailsKeeps ==
  ASSUME EepromInv, PutFails
  PROVE  EepromInv'
<1>1. epc' = "idle" /\ UNCHANGED <<image, told>>
  BY DEF PutFails, Finish
<1>2. CASE epc = "append"
  <2>1. PICK e \in Ends :
          elog' = elog \/ elog' = Mended(elog, JustEnded) \/ elog' = Added(Mended(elog, JustEnded), Saying, e)
    <3>1. elog' \in Spoiled(elog, Saying, JustEnded)
      BY <1>2 DEF PutFails
    <3>2. Torn \subseteq Ends /\ "nl" \in Ends
      BY DEF Torn, Ends
    <3> QED BY <3>1, <3>2, SpoiledIs
  <2>2. EepromTypes'
    BY <1>1, <1>2, <2>1, AppendTypes DEF EepromInv
  <2> QED BY <1>1, <1>2, <2>1, <2>2, LogStepKeeps
<1>3. CASE epc # "append"
  <2>1. elog' = elog
    BY <1>3 DEF PutFails
  <2> QED BY <1>1, <2>1, SameLogKeeps DEF EepromInv, EepromTypes
<1> QED BY <1>2, <1>3

(* The line is durable and the put reports its image: this is where an image becomes anchored. *)
LEMMA LogSyncsKeeps ==
  ASSUME EepromInv, LogSyncs
  PROVE  EepromInv'
<1>1. /\ epc = "logsync" /\ epc' = "idle" /\ image' = image /\ elog' = Synced(elog)
      /\ told' = IF put.current THEN told \union {put.of} ELSE told
      /\ put.of \in Images
  BY DEF LogSyncs, Finish, EepromInv, EepromTypes
<1>2. /\ IsLog(elog, EText) /\ Len(elog.lines) \in Nat /\ elog.hard \in 0..Len(elog.lines)
      /\ IsLog(elog', EText) /\ elog'.lines = elog.lines /\ elog'.hard = Len(elog.lines)
  BY <1>1, SyncedIs, LogIs DEF EepromInv, EepromTypes
<1>3. EepromTypes'
  BY <1>1, <1>2, TypesFromLog DEF EepromInv, EepromTypes
<1>4. CASE put.current
  <2>1. told' = {put.of}
    BY <1>1, <1>4 DEF EepromInv, FirstStays
  <2>2. /\ Len(elog.lines) > 0 /\ SaysCurrent(Len(elog.lines), put.of)
        /\ elog.lines[Len(elog.lines)].end = "nl"
    BY <1>1, <1>4 DEF EepromInv, FirstStays
  <2>3. \E i \in Images : i = put.of /\ Anchored(i)'
    <3> DEFINE m == Len(elog.lines)
    <3>1. m \in 1..elog'.hard /\ elog'.lines[m].end = "nl" /\ elog'.lines[m].text[1] = "current"
          /\ elog'.lines[m].text[2] = put.of
      BY <1>2, <2>2 DEF SaysCurrent
    <3>2. \A j \in m..Len(elog'.lines) : j = m
      BY <1>2
    <3>3. ASSUME NEW i, i = put.of PROVE Anchored(i)'
      BY <3>1, <3>2, <3>3 DEF Anchored, SaysCurrent
    <3> QED BY <1>1, <3>3
  <2>4. FirstStays'
    BY <1>1, <2>1, <2>3 DEF FirstStays
  <2> QED BY <1>3, <2>4 DEF EepromInv
<1>5. CASE ~put.current
  <2>1. ASSUME NEW i \in Images, Anchored(i) PROVE Anchored(i)'
    BY <1>2, <2>1, <1>3, AnchorKept DEF EepromInv
  <2>2. FirstStays'
    BY <1>1, <1>5, <2>1 DEF FirstStays, EepromInv
  <2> QED BY <1>3, <2>2 DEF EepromInv
<1> QED BY <1>4, <1>5

(* A power loss leaves a part of eeprom.log, or nothing of it; nothing only if the log's name was not sure. *)
LEMMA LossIs ==
  ASSUME EepromInv, EepromLoss
  PROVE  /\ epc' = "idle" /\ image' \in [Images -> [seen : BOOLEAN, hard : BOOLEAN]]
         /\ \A i \in Images : image'[i].hard = image'[i].seen
         /\ \/ elog' = EmptyLog /\ told' = {}
            \/ elog' \in AfterLoss(elog) /\ told' \in {told, {}}
         /\ \/ elog' = EmptyLog
            \/ elog' \in AfterLoss(elog) /\ \A i \in Images : image[i].hard => image'[i].seen
<1>1. epc' = "idle" /\ told' \in {told, {}}
  BY DEF EepromLoss, Finish
<1>2. ASSUME elog'.lines = <<>>, ~({"dir", "log"} \subseteq enames) PROVE told' = {}
  BY <1>2 DEF EepromLoss
<1>3. CASE DirGoes
  <2>1. /\ elog' = EmptyLog /\ ~({"dir", "log"} \subseteq enames)
        /\ image' = [i \in Images |-> [seen |-> FALSE, hard |-> FALSE]]
    BY <1>3 DEF DirGoes
  <2>2. elog'.lines = <<>>
    BY <2>1 DEF EmptyLog
  <2>3. \A i \in Images : image'[i].hard = image'[i].seen
    BY <2>1
  <2> QED BY <1>1, <1>2, <2>1, <2>2, <2>3
<1>4. CASE DirStays
  <2>1. /\ image' \in [Images -> [seen : BOOLEAN, hard : BOOLEAN]]
        /\ \A i \in Images : /\ image[i].hard => image'[i].seen
                             /\ image'[i].hard = image'[i].seen
    BY <1>4 DEF DirStays
  <2>2. elog' \in AfterLoss(elog) \/ (elog' = EmptyLog /\ "log" \notin enames)
    BY <1>4 DEF DirStays
  <2>3. CASE elog' = EmptyLog /\ "log" \notin enames
    <3>1. elog'.lines = <<>>
      BY <2>3 DEF EmptyLog
    <3> QED BY <1>1, <1>2, <2>1, <2>3, <3>1
  <2> QED BY <1>1, <2>1, <2>2, <2>3
<1> QED BY <1>3, <1>4 DEF EepromLoss

(* A power loss takes of what was reported nothing, or the whole log and with it that anything was. *)
LEMMA LossKeeps ==
  ASSUME EepromInv, EepromLoss
  PROVE  EepromInv'
<1>1. /\ epc' = "idle" /\ image' \in [Images -> [seen : BOOLEAN, hard : BOOLEAN]]
      /\ \/ elog' = EmptyLog /\ told' = {}
         \/ elog' \in AfterLoss(elog) /\ told' \in {told, {}}
  BY LossIs
<1>2. CASE elog' = EmptyLog /\ told' = {}
  <2>1. IsLog(elog', EText)
    BY <1>2, EmptyIs
  <2>2. EepromTypes'
    BY <1>1, <2>1, TypesFromLog DEF EepromTypes
  <2>3. FirstStays'
    BY <1>1, <1>2 DEF FirstStays
  <2> QED BY <2>2, <2>3 DEF EepromInv
<1>3. CASE elog' \in AfterLoss(elog) /\ told' \in {told, {}}
  <2>1. /\ IsLog(elog', EText) /\ elog'.hard >= elog.hard /\ elog'.hard = Len(elog'.lines)
        /\ Len(elog'.lines) <= Len(elog.lines)
        /\ \A j \in 1..Len(elog'.lines) :
              /\ elog'.lines[j].text = elog.lines[j].text
              /\ j <= elog.hard => elog'.lines[j].end = elog.lines[j].end
    BY <1>3, LossLeaves DEF EepromInv
  <2>2. EepromTypes'
    BY <1>1, <2>1, TypesFromLog DEF EepromTypes
  <2>3. ASSUME NEW i \in Images, Anchored(i) PROVE Anchored(i)'
    <3>1. Len(elog.lines) \in Nat /\ Len(elog'.lines) \in Nat /\ elog.hard \in Nat
      BY <2>1, LogIs DEF EepromInv, EepromTypes
    <3> QED BY <2>1, <2>2, <2>3, <3>1, AnchorKept DEF EepromInv
  <2>4. FirstStays'
    BY <1>1, <1>3, <2>3 DEF FirstStays, EepromInv
  <2> QED BY <2>2, <2>4 DEF EepromInv
<1> QED BY <1>1, <1>2, <1>3

(* Stuttering, and an install of the calibration store, which syncs directories only. *)
LEMMA EepromStutter == EepromInv /\ (UNCHANGED eepromVars \/ InstallSyncs) => EepromInv'
<1> SUFFICES ASSUME EepromInv, UNCHANGED eepromVars \/ InstallSyncs PROVE EepromInv'
  OBVIOUS
<1>1. UNCHANGED <<image, elog, epc, put, told>>
  BY DEF eepromVars, InstallSyncs
<1>2. \A i : Anchored(i)' <=> Anchored(i)
  BY <1>1 DEF Anchored, SaysCurrent
<1> QED BY <1>1, <1>2 DEF EepromInv, EepromTypes, FirstStays, SaysCurrent

(* Every step keeps the invariant. *)
LEMMA EepromKept == EepromInv /\ [EepromNext]_eepromVars => EepromInv'
BY QuietSteps, DecideKeeps, LogWritesKeeps, PutFailsKeeps, LogSyncsKeeps, LossKeeps, EepromStutter DEF EepromNext

(* It holds at first. *)
LEMMA EepromOpens == EepromInit => EepromInv
<1> SUFFICES ASSUME EepromInit PROVE EepromInv
  OBVIOUS
<1>1. IsLog(elog, EText) /\ Len(elog.lines) = 0
  BY EmptyIs DEF EepromInit
<1> QED BY <1>1 DEF EepromInit, EepromInv, EepromTypes, FirstStays

(* The files. *)
LEMMA FilesKept ==
  ASSUME ~DirSyncFails, EepromInv, ImagesStored, EepromNext
  PROVE  ImagesStored'
<1>0. Len(elog.lines) \in Nat /\ elog.hard \in 0..Len(elog.lines)
  BY LogIs DEF EepromInv, EepromTypes
<1>1. CASE PutBegins
  BY <1>1 DEF PutBegins, ImagesStored
<1>2. CASE StoreFile
  <2>1. put.of \in Images /\ image \in [Images -> [seen : BOOLEAN, hard : BOOLEAN]]
    BY <1>2 DEF StoreFile, EepromInv, EepromTypes
  <2>2. /\ \A i \in Images : image'[i].hard = image[i].hard /\ (image[i].seen => image'[i].seen)
        /\ image'[put.of].seen
    BY <1>2, <2>1 DEF StoreFile
  <2> QED BY <1>2, <2>1, <2>2 DEF StoreFile, ImagesStored, EepromInv, EepromTypes
<1>3. CASE Decide
  BY <1>3 DEF Decide, ImagesStored
<1>4. CASE DirSync
  <2>1. put.of \in Images /\ image \in [Images -> [seen : BOOLEAN, hard : BOOLEAN]]
    BY <1>4 DEF DirSync, EepromInv, EepromTypes
  <2>2. \A i \in Images : image'[i].hard = image[i].seen /\ image'[i].seen = image[i].seen
    BY <1>4, <2>1 DEF DirSync, SyncsImages
  <2> QED BY <1>4, <2>1, <2>2 DEF DirSync, ImagesStored, EepromInv, EepromTypes
<1>5. CASE epc = "append" /\ (LogWrites \/ PutFails)
  <2>1. PICK e \in Ends :
          elog' = elog \/ elog' = Mended(elog, JustEnded) \/ elog' = Added(Mended(elog, JustEnded), Saying, e)
    <3>1. elog' \in Spoiled(elog, Saying, JustEnded) \/ elog' = Added(Mended(elog, JustEnded), Saying, "nl")
      BY <1>5 DEF PutFails, LogWrites
    <3>2. Torn \subseteq Ends /\ "nl" \in Ends
      BY DEF Torn, Ends
    <3> QED BY <3>1, <3>2, SpoiledIs
  <2>2. \A j \in 1..Len(elog'.lines) :
              /\ j <= Len(elog.lines) => elog'.lines[j].text = elog.lines[j].text
              /\ j > Len(elog.lines) => elog'.lines[j].text = Saying
    BY <1>5, <2>1, AppendLeaves DEF EepromInv
  <2>3. Saying[2] = put.of /\ UNCHANGED image /\ epc' \in {"logsync", "idle"} /\ (epc' = "logsync" => put' = put)
    BY <1>5 DEF Saying, LogWrites, PutFails, Finish
  <2>4. \A j \in 1..Len(elog'.lines) : j \in 1..Len(elog.lines) \/ j > Len(elog.lines)
    BY <1>0
  <2> QED BY <1>5, <2>2, <2>3, <2>4, SMTT(60) DEF ImagesStored
<1>6. CASE PutFails /\ epc # "append"
  BY <1>6 DEF PutFails, Finish, ImagesStored
<1>7. CASE LogSyncs
  <2>1. elog'.lines = elog.lines
    BY <1>7, SyncedIs DEF LogSyncs, EepromInv, EepromTypes
  <2> QED BY <1>7, <2>1 DEF LogSyncs, Finish, ImagesStored
<1>8. CASE EepromLoss
  <2>1. /\ epc' = "idle" /\ \A i \in Images : image'[i].hard = image'[i].seen
        /\ \/ elog' = EmptyLog
           \/ elog' \in AfterLoss(elog) /\ \A i \in Images : image[i].hard => image'[i].seen
    BY <1>8, LossIs
  <2>2. CASE elog' = EmptyLog
    <3>1. Len(elog'.lines) = 0
      BY <2>2, EmptyIs
    <3> QED BY <2>1, <3>1 DEF ImagesStored
  <2>3. CASE elog' \in AfterLoss(elog) /\ \A i \in Images : image[i].hard => image'[i].seen
    <3>1. Len(elog'.lines) <= Len(elog.lines) /\ IsLog(elog', EText)
          /\ \A j \in 1..Len(elog'.lines) : elog'.lines[j].text = elog.lines[j].text
      BY <2>3, LossLeaves DEF EepromInv
    <3>2. \A j \in 1..Len(elog'.lines) : j \in 1..Len(elog.lines)
      BY <1>0, <3>1, LogIs
    <3>3. \A j \in 1..Len(elog'.lines) : elog'.lines[j].text[2] \in Images /\ image[elog'.lines[j].text[2]].hard
      BY <3>1, <3>2 DEF ImagesStored, EepromInv, EepromTypes
    <3> QED BY <2>1, <2>3, <3>3 DEF ImagesStored
  <2> QED BY <2>1, <2>2, <2>3
<1>9. CASE InstallSyncs
  BY <1>9 DEF InstallSyncs, ImagesStored
<1> QED BY <1>1, <1>2, <1>3, <1>4, <1>5, <1>6, <1>7, <1>8, <1>9 DEF EepromNext, LogWrites

(* Stuttering keeps the images. *)
LEMMA FilesStutter == ImagesStored /\ UNCHANGED eepromVars => ImagesStored'
BY DEF eepromVars, ImagesStored

(* EepromInv is an invariant of eeprom_store.c whatever fails, also when the directory's fsync does. *)
THEOREM EepromInvariance == EepromSpec => []EepromInv
BY EepromOpens, EepromKept, PTL DEF EepromSpec

(* What a put reported is what the log reads as. *)
LEMMA FirstIs == EepromInv => (told # {} => told = {Current})
<1> SUFFICES ASSUME EepromInv, told # {} PROVE told = {Current}
  OBVIOUS
<1>1. PICK i \in Images : told = {i} /\ Anchored(i)
  BY DEF EepromInv, FirstStays
<1> QED BY <1>1, CurrentIs DEF EepromInv

(* A put that has reported an image as current has reported the one that the log reads as, whatever fails, *)
(* until a power loss takes the log whole.                                                                 *)
THEOREM ToldStays == EepromSpec => [](told # {} => told = {Current})
BY FirstIs, EepromInvariance, PTL

(* CurrentIsFirst: the image a put has reported as current stays the current one until a power loss takes *)
(* the log whole, which a later put's sync of the directory and an install's of those above it rule out,   *)
(* and its file is there, when the fsync of the directory works (the code ignores its failure).            *)
THEOREM FirstStaysCurrent ==
  ASSUME ~DirSyncFails
  PROVE  EepromSpec => []CurrentIsFirst
<1>1. EepromInit => ImagesStored
  BY EmptyIs DEF EepromInit, ImagesStored
<1>2. EepromInv /\ ImagesStored /\ [EepromNext]_eepromVars => ImagesStored'
  BY FilesKept, FilesStutter
<1>3. EepromInv /\ ImagesStored => CurrentIsFirst
  BY FirstIs, CurrentIsAnImage DEF EepromInv, EepromTypes, ImagesStored, CurrentIsFirst
<1> QED BY <1>1, <1>2, <1>3, EepromInvariance, PTL DEF EepromSpec

-----------------------------------------------------------------------------

(* What a line of each log says. *)
Text(l) == CASE l = "local" -> {<<c>> : c \in Cals}
             [] l = "hidden" -> Cals \X BOOLEAN
             [] l = "selection" -> Keys \X (Cals \union {AutoPin})

(* The labels of append_line and of install. *)
Appending == {"append", "logsync"}
Installing == {"unit", "files", "syncdir", "rename", "parents"}

(* A call's fields at label l. *)
CallOk(x, l) ==
  /\ l \in Appending => /\ x.log \in LogNames /\ x.text \in Text(x.log)
                        /\ x.op = "select" <=> x.log = "selection"
                        /\ x.op = "put" <=> x.log = "local"
                        /\ x.op = "put" => x.cal \in Cals
  /\ l \in Installing => x.op = "put" /\ x.cal \in Cals

(* The files, the logs and the calls are of their types. *)
StoreTypes ==
  /\ entry \in [Cals -> [seen : BOOLEAN, hard : BOOLEAN, files : SUBSET Files, sure : SUBSET Files]]
  /\ tmp \in [Procs -> [files : SUBSET Files, sure : SUBSET Files]]
  /\ DOMAIN pc = Procs /\ pc = [p \in Procs |-> pc[p]]
  /\ DOMAIN call = Procs /\ call = [p \in Procs |-> call[p]]
  /\ DOMAIN log = LogNames /\ log = [l \in LogNames |-> log[l]]
  /\ \A l \in LogNames : IsLog(log[l], Text(l))
  /\ \A p \in Procs : CallOk(call[p], pc[p])

(* A step of one process that leaves the files and logs typed. *)
LEMMA ProcessKeepsTypes ==
  ASSUME StoreTypes, NEW p \in Procs, NEW l, NEW x,
         entry' \in [Cals -> [seen : BOOLEAN, hard : BOOLEAN, files : SUBSET Files, sure : SUBSET Files]],
         tmp' \in [Procs -> [files : SUBSET Files, sure : SUBSET Files]],
         DOMAIN log' = LogNames /\ log' = [n \in LogNames |-> log'[n]],
         \A n \in LogNames : IsLog(log'[n], Text(n)),
         pc' = [pc EXCEPT ![p] = l], call' = [call EXCEPT ![p] = x], CallOk(x, l)
  PROVE  StoreTypes'
<1>1. /\ DOMAIN pc' = Procs /\ pc' = [q \in Procs |-> pc'[q]]
      /\ DOMAIN call' = Procs /\ call' = [q \in Procs |-> call'[q]]
  BY DEF StoreTypes
<1>2. ASSUME NEW q \in Procs PROVE CallOk(call'[q], pc'[q])
  <2>1. CASE q = p
    BY <2>1 DEF StoreTypes
  <2>2. CASE q # p
    <3>1. call'[q] = call[q] /\ pc'[q] = pc[q]
      BY <2>2 DEF StoreTypes
    <3> QED BY <3>1 DEF StoreTypes
  <2> QED BY <2>1, <2>2
<1> QED BY <1>1, <1>2 DEF StoreTypes

(* A call that does not change is one set to itself. *)
LEMMA SameCall == StoreTypes => \A p \in Procs : call = [call EXCEPT ![p] = call[p]]
BY DEF StoreTypes

(* No call. *)
LEMMA IdleOk == CallOk(NoCall, "idle")
BY DEF CallOk, Appending, Installing

(* Calls begin with the fields their labels need. *)
LEMMA BeginsTyped ==
  ASSUME StoreTypes, NEW p \in Procs, LocalPut(p) \/ Import(p) \/ Hide(p) \/ Select(p)
  PROVE  StoreTypes'
<1>1. CASE LocalPut(p) \/ Import(p)
  <2>1. PICK c \in Cals, isLocal \in BOOLEAN : Put(p, c, isLocal)
    BY <1>1 DEF LocalPut, Import
  <2> DEFINE x == [op |-> "put", cal |-> c, log |-> "local", text |-> <<c>>]
  <2>2. CallOk(x, "append") /\ CallOk(x, "unit")
    BY DEF CallOk, Text, LogNames, Appending, Installing
  <2>3. /\ UNCHANGED <<entry, log, tmp>> /\ call' = [call EXCEPT ![p] = x]
        /\ pc' = [pc EXCEPT ![p] = "append"] \/ pc' = [pc EXCEPT ![p] = "unit"]
    BY <2>1 DEF Put, Begin, Goto
  <2> HIDE DEF x
  <2> QED BY <2>2, <2>3, ProcessKeepsTypes DEF StoreTypes
<1>2. CASE Hide(p)
  <2>1. PICK c \in Listed, h \in BOOLEAN :
          /\ Begin(p, [op |-> "hide", log |-> "hidden", text |-> <<c, h>>]) /\ Goto(p, "append")
    BY <1>2 DEF Hide
  <2> DEFINE x == [op |-> "hide", log |-> "hidden", text |-> <<c, h>>]
  <2>2. CallOk(x, "append")
    BY DEF CallOk, Text, LogNames, Appending, Installing, Listed
  <2>3. /\ UNCHANGED <<entry, log, tmp>> /\ call' = [call EXCEPT ![p] = x]
        /\ pc' = [pc EXCEPT ![p] = "append"]
    BY <2>1 DEF Begin, Goto
  <2> HIDE DEF x
  <2> QED BY <2>2, <2>3, ProcessKeepsTypes DEF StoreTypes
<1>3. CASE Select(p)
  <2>1. PICK k \in Keys, c \in Cals \union {AutoPin} :
          /\ Begin(p, [op |-> "select", log |-> "selection", text |-> <<k, c>>]) /\ Goto(p, "append")
    BY <1>3 DEF Select
  <2> DEFINE x == [op |-> "select", log |-> "selection", text |-> <<k, c>>]
  <2>2. CallOk(x, "append")
    BY DEF CallOk, Text, LogNames, Appending, Installing
  <2>3. /\ UNCHANGED <<entry, log, tmp>> /\ call' = [call EXCEPT ![p] = x]
        /\ pc' = [pc EXCEPT ![p] = "append"]
    BY <2>1 DEF Begin, Goto
  <2> HIDE DEF x
  <2> QED BY <2>2, <2>3, ProcessKeepsTypes DEF StoreTypes
<1> QED BY <1>1, <1>2, <1>3

(* append_line's repair marks a torn line bad. *)
LEMMA MarkedBadIs == MarkedBad \in [Torn -> {"nl", "bad"}]
BY DEF MarkedBad, Torn

(* What an append may leave of a log, whether it fails or not.             *)
LEMMA AppendLeft ==
  ASSUME StoreTypes, NEW p \in Procs, pc[p] = "append", NEW e \in Ends, NEW h,
         LET g == log[call[p].log] IN
           h = g \/ h = Mended(g, MarkedBad) \/ h = Added(Mended(g, MarkedBad), call[p].text, e)
  PROVE  /\ call[p].log \in LogNames
         /\ IsLog(h, Text(call[p].log))
<1>1. /\ call[p].log \in LogNames /\ call[p].text \in Text(call[p].log)
      /\ IsLog(log[call[p].log], Text(call[p].log))
  BY DEF StoreTypes, CallOk, Appending
<1>2. IsLog(Mended(log[call[p].log], MarkedBad), Text(call[p].log))
  BY <1>1, MendedIs, MarkedBadIs
<1> DEFINE g == log[call[p].log]
           m == Mended(g, MarkedBad)
           T == Text(call[p].log)
<1>3. IsLog(m, T) /\ call[p].text \in T /\ IsLog(g, T)
  BY <1>1, <1>2
<1>4. h = g \/ h = m \/ h = Added(m, call[p].text, e)
  OBVIOUS
<1> HIDE DEF g, m, T
<1>5. IsLog(Added(m, call[p].text, e), T)
  BY <1>3, AddedIs
<1>6. IsLog(h, T)
  BY <1>3, <1>4, <1>5
<1> QED BY <1>1, <1>6 DEF T

(* One log changes. *)
LEMMA OneLogTyped ==
  ASSUME StoreTypes, NEW n \in LogNames, NEW h, IsLog(h, Text(n)), log' = [log EXCEPT ![n] = h]
  PROVE  /\ DOMAIN log' = LogNames /\ log' = [m \in LogNames |-> log'[m]]
         /\ \A m \in LogNames : IsLog(log'[m], Text(m))
BY DEF StoreTypes

(* append_line keeps the types. *)
LEMMA AppendsTyped ==
  ASSUME StoreTypes, NEW p \in Procs, AppendWrites(p) \/ AppendFails(p) \/ AppendSyncs(p) \/ SyncFails(p)
  PROVE  StoreTypes'
<1>1. CASE AppendWrites(p)
  <2>1. /\ pc[p] = "append" /\ pc' = [pc EXCEPT ![p] = "logsync"] /\ UNCHANGED <<entry, call, tmp>>
        /\ log' = [log EXCEPT ![call[p].log] = Added(Mended(log[call[p].log], MarkedBad), call[p].text, "nl")]
    BY <1>1 DEF AppendWrites, At, Goto
  <2>2. CallOk(call[p], "logsync")
    BY <2>1 DEF StoreTypes, CallOk, Appending, Installing
  <2>3. "nl" \in Ends
    BY DEF Ends
  <2>4. /\ call[p].log \in LogNames
        /\ IsLog(Added(Mended(log[call[p].log], MarkedBad), call[p].text, "nl"), Text(call[p].log))
    BY <2>1, <2>3, AppendLeft
  <2>5. /\ DOMAIN log' = LogNames /\ log' = [m \in LogNames |-> log'[m]]
        /\ \A m \in LogNames : IsLog(log'[m], Text(m))
    BY <2>1, <2>4, OneLogTyped
  <2>6. call' = [call EXCEPT ![p] = call[p]]
    BY <2>1, SameCall
  <2> QED BY <2>1, <2>2, <2>5, <2>6, ProcessKeepsTypes DEF StoreTypes
<1>2. CASE AppendFails(p)
  <2>1. /\ pc[p] = "append" /\ pc' = [pc EXCEPT ![p] = "idle"] /\ call' = [call EXCEPT ![p] = NoCall]
        /\ UNCHANGED <<entry, tmp>>
    BY <1>2 DEF AppendFails, At, Goto, Return
  <2>2. PICK h \in Spoiled(log[call[p].log], call[p].text, MarkedBad) : log' = [log EXCEPT ![call[p].log] = h]
    BY <1>2 DEF AppendFails
  <2>3. Torn \subseteq Ends /\ "nl" \in Ends
    BY DEF Torn, Ends
  <2>4. call[p].log \in LogNames /\ IsLog(h, Text(call[p].log))
    BY <2>1, <2>2, <2>3, SpoiledIs, AppendLeft
  <2>5. /\ DOMAIN log' = LogNames /\ log' = [m \in LogNames |-> log'[m]]
        /\ \A m \in LogNames : IsLog(log'[m], Text(m))
    BY <2>2, <2>4, OneLogTyped
  <2> QED BY <2>1, <2>5, IdleOk, ProcessKeepsTypes DEF StoreTypes
<1>3. CASE AppendSyncs(p)
  <2>1. /\ pc[p] = "logsync" /\ UNCHANGED <<entry, tmp>>
        /\ log' = [log EXCEPT ![call[p].log] = Synced(log[call[p].log])]
        /\ \/ call[p].op = "put" /\ pc' = [pc EXCEPT ![p] = "unit"] /\ call' = call
           \/ pc' = [pc EXCEPT ![p] = "idle"] /\ call' = [call EXCEPT ![p] = NoCall]
    BY <1>3 DEF AppendSyncs, At, Goto, Return
  <2>2. /\ call[p].log \in LogNames /\ IsLog(log[call[p].log], Text(call[p].log))
        /\ call[p].op = "put" => CallOk(call[p], "unit")
    BY <2>1 DEF StoreTypes, CallOk, Appending, Installing
  <2>3. IsLog(Synced(log[call[p].log]), Text(call[p].log))
    BY <2>2, SyncedIs
  <2>4. /\ DOMAIN log' = LogNames /\ log' = [m \in LogNames |-> log'[m]]
        /\ \A m \in LogNames : IsLog(log'[m], Text(m))
    BY <2>1, <2>2, <2>3, OneLogTyped
  <2> QED BY <2>1, <2>2, <2>4, IdleOk, SameCall, ProcessKeepsTypes DEF StoreTypes
<1>4. CASE SyncFails(p)
  <2>1. /\ pc' = [pc EXCEPT ![p] = "idle"] /\ call' = [call EXCEPT ![p] = NoCall] /\ UNCHANGED <<entry, tmp, log>>
    BY <1>4 DEF SyncFails, Goto, Return
  <2> QED BY <2>1, IdleOk, ProcessKeepsTypes DEF StoreTypes
<1> QED BY <1>1, <1>2, <1>3, <1>4

(* install keeps the types. *)
LEMMA InstallsTyped ==
  ASSUME StoreTypes, NEW p \in Procs,
         Prepare(p) \/ WriteFile(p) \/ SyncDir(p) \/ Rename(p) \/ SyncParents(p) \/ InstallFails(p)
  PROVE  StoreTypes'
<1> USE DEF Files
<1>0. /\ pc[p] \in Installing /\ log' = log /\ call[p].cal \in Cals /\ CallOk(call[p], pc[p])
      /\ \A l \in Installing : CallOk(call[p], l)
  <2>1. pc[p] \in Installing /\ log' = log
    BY DEF Prepare, WriteFile, SyncDir, Rename, SyncParents, InstallFails, Step, At, Installing
  <2> QED BY <2>1 DEF StoreTypes, CallOk, Installing, Appending
<1>1. /\ \/ \E l \in Installing : pc' = [pc EXCEPT ![p] = l] /\ call' = call
         \/ pc' = [pc EXCEPT ![p] = "idle"] /\ call' = [call EXCEPT ![p] = NoCall]
  BY DEF Prepare, WriteFile, SyncDir, Rename, SyncParents, InstallFails, Goto, Return, Installing
<1>2. tmp' \in [Procs -> [files : SUBSET Files, sure : SUBSET Files]]
  <2>1. tmp[p] \in [files : SUBSET Files, sure : SUBSET Files]
    BY DEF StoreTypes
  <2>2. NoTmp \in [files : SUBSET Files, sure : SUBSET Files]
    BY DEF NoTmp
  <2>3. CASE WriteFile(p)
    <3>1. tmp[p].files \union {NextFile(tmp[p].files)} \in SUBSET Files
      BY <2>1 DEF NextFile
    <3>2. tmp' = [tmp EXCEPT ![p] = [tmp[p] EXCEPT !.files = tmp[p].files \union {NextFile(tmp[p].files)}]]
      BY <2>3 DEF WriteFile
    <3> QED BY <2>1, <3>1, <3>2 DEF StoreTypes
  <2>4. CASE SyncDir(p)
    <3>1. tmp' = [tmp EXCEPT ![p] = [tmp[p] EXCEPT !.sure = tmp[p].files]]
      BY <2>4 DEF SyncDir
    <3> QED BY <2>1, <3>1 DEF StoreTypes
  <2>5. CASE Prepare(p) \/ Rename(p) \/ SyncParents(p) \/ InstallFails(p)
    <3>1. tmp' = tmp \/ tmp' = [tmp EXCEPT ![p] = NoTmp]
      BY <2>5 DEF Prepare, Rename, SyncParents, InstallFails
    <3> QED BY <2>2, <3>1 DEF StoreTypes
  <2> QED BY <2>3, <2>4, <2>5
<1>3. entry' \in [Cals -> [seen : BOOLEAN, hard : BOOLEAN, files : SUBSET Files, sure : SUBSET Files]]
  <2>1. CASE Rename(p)
    <3>1. tmp[p] \in [files : SUBSET Files, sure : SUBSET Files]
      BY DEF StoreTypes
    <3> DEFINE e == [seen |-> TRUE, hard |-> FALSE, files |-> tmp[p].files, sure |-> tmp[p].sure]
    <3>2. e \in [seen : BOOLEAN, hard : BOOLEAN, files : SUBSET Files, sure : SUBSET Files]
      BY <3>1
    <3>3. entry' = entry \/ entry' = [entry EXCEPT ![call[p].cal] = e]
      BY <2>1 DEF Rename
    <3> HIDE DEF e
    <3> QED BY <3>2, <3>3, <1>0 DEF StoreTypes
  <2>2. CASE SyncParents(p)
    <3>1. entry' = [c \in Cals |-> [entry[c] EXCEPT !.hard = entry[c].seen]]
      BY <2>2 DEF SyncParents
    <3>2. \A c \in Cals : /\ entry[c] \in [seen : BOOLEAN, hard : BOOLEAN, files : SUBSET Files, sure : SUBSET Files]
                          /\ entry[c].seen \in BOOLEAN
      BY DEF StoreTypes
    <3> QED BY <3>1, <3>2
  <2>3. CASE Prepare(p) \/ WriteFile(p) \/ SyncDir(p) \/ InstallFails(p)
    BY <2>3 DEF Prepare, WriteFile, SyncDir, InstallFails, StoreTypes
  <2> QED BY <2>1, <2>2, <2>3
<1>4. CASE pc' = [pc EXCEPT ![p] = "idle"] /\ call' = [call EXCEPT ![p] = NoCall]
  BY <1>0, <1>2, <1>3, <1>4, IdleOk, ProcessKeepsTypes DEF StoreTypes
<1>5. ASSUME NEW l \in Installing, pc' = [pc EXCEPT ![p] = l], call' = call
      PROVE  StoreTypes'
  BY <1>0, <1>2, <1>3, <1>5, SameCall, ProcessKeepsTypes DEF StoreTypes
<1> QED BY <1>1, <1>4, <1>5

(* What a power loss leaves of each log, and what it does to the calls. *)
LEMMA LossIsOf ==
  ASSUME StoreTypes, PowerLoss
  PROVE  /\ pc' = [p \in Procs |-> "idle"] /\ call' = [p \in Procs |-> NoCall] /\ tmp' = [p \in Procs |-> NoTmp]
         /\ UNCHANGED <<measured, kept>>
         /\ DOMAIN log' = LogNames /\ log' = [l \in LogNames |-> log'[l]]
         /\ \A l \in LogNames : \/ log'[l] \in AfterLoss(log[l])
                                \/ log'[l] = EmptyLog /\ ~(rooted /\ l \in named)
         /\ DOMAIN entry' = Cals /\ entry' = [c \in Cals |-> entry'[c]]
         /\ \/ ~rooted /\ \A c \in Cals : entry'[c] = NoEntry
            \/ \A c \in Cals : entry'[c] \in EntryAfterLoss(entry[c])
         /\ rooted => rooted'
         /\ rooted' \/ \A c \in Cals : ~entry'[c].seen
<1>1. /\ pc' = [p \in Procs |-> "idle"] /\ call' = [p \in Procs |-> NoCall] /\ tmp' = [p \in Procs |-> NoTmp]
      /\ UNCHANGED <<measured, kept>>
  BY DEF PowerLoss
<1>2. CASE UnitGoes
  <2>1. /\ ~rooted /\ ~rooted' /\ entry' = [c \in Cals |-> NoEntry] /\ log' = [l \in LogNames |-> EmptyLog]
    BY <1>2 DEF UnitGoes
  <2>2. ~NoEntry.seen
    BY DEF NoEntry
  <2> QED BY <1>1, <2>1, <2>2
<1>3. CASE UnitStays
  <2>1. /\ DOMAIN entry' = Cals /\ entry' = [c \in Cals |-> entry'[c]]
        /\ \A c \in Cals : entry'[c] \in EntryAfterLoss(entry[c])
    BY <1>3 DEF UnitStays
  <2>2. /\ DOMAIN log' = LogNames /\ log' = [l \in LogNames |-> log'[l]]
        /\ \A l \in LogNames : log'[l] \in LogAfterLoss(l)
    BY <1>3 DEF UnitStays
  <2>3. \A l \in LogNames : log'[l] \in AfterLoss(log[l]) \/ (log'[l] = EmptyLog /\ l \notin named)
    BY <2>2 DEF LogAfterLoss
  <2>4. (rooted => rooted') /\ (rooted' \/ \A c \in Cals : ~entry'[c].seen)
    BY <1>3 DEF UnitStays
  <2> QED BY <1>1, <2>1, <2>2, <2>3, <2>4
<1> QED BY <1>2, <1>3 DEF PowerLoss

(* A power loss keeps the types. *)
LEMMA LossTyped ==
  ASSUME StoreTypes, PowerLoss
  PROVE  StoreTypes'
<1>1. /\ pc' = [p \in Procs |-> "idle"] /\ call' = [p \in Procs |-> NoCall] /\ tmp' = [p \in Procs |-> NoTmp]
      /\ DOMAIN entry' = Cals /\ entry' = [c \in Cals |-> entry'[c]]
      /\ \A c \in Cals : entry'[c] = NoEntry \/ entry'[c] \in EntryAfterLoss(entry[c])
      /\ DOMAIN log' = LogNames /\ log' = [l \in LogNames |-> log'[l]]
      /\ \A l \in LogNames : log'[l] = EmptyLog \/ log'[l] \in AfterLoss(log[l])
  BY LossIsOf
<1>2. \A c \in Cals : entry'[c] \in [seen : BOOLEAN, hard : BOOLEAN, files : SUBSET Files, sure : SUBSET Files]
  <2>1. ASSUME NEW c \in Cals
        PROVE  entry'[c] \in [seen : BOOLEAN, hard : BOOLEAN, files : SUBSET Files, sure : SUBSET Files]
    <3>1. entry[c] \in [seen : BOOLEAN, hard : BOOLEAN, files : SUBSET Files, sure : SUBSET Files]
      BY DEF StoreTypes
    <3>2. entry'[c] = NoEntry \/ \E f \in SUBSET Files : entry'[c] = [seen |-> TRUE, hard |-> TRUE, files |-> f, sure |-> f]
      BY <1>1, <3>1 DEF EntryAfterLoss
    <3>3. CASE entry'[c] = NoEntry
      BY <3>3 DEF NoEntry
    <3>4. ASSUME NEW f \in SUBSET Files, entry'[c] = [seen |-> TRUE, hard |-> TRUE, files |-> f, sure |-> f]
          PROVE  entry'[c] \in [seen : BOOLEAN, hard : BOOLEAN, files : SUBSET Files, sure : SUBSET Files]
      BY <3>4
    <3> QED BY <3>2, <3>3, <3>4
  <2> QED BY <2>1
<1>3. \A l \in LogNames : IsLog(log'[l], Text(l))
  BY <1>1, AfterLossIs, EmptyIs DEF StoreTypes
<1>4. tmp' \in [Procs -> [files : SUBSET Files, sure : SUBSET Files]]
  BY <1>1 DEF NoTmp
<1> QED BY <1>1, <1>2, <1>3, <1>4, IdleOk DEF StoreTypes

(* Every step keeps the types. *)
LEMMA StoreTypesKept == StoreTypes /\ [StoreNext]_storeVars => StoreTypes'
<1>1. ASSUME StoreTypes, SetLocalUnit \/ UNCHANGED storeVars PROVE StoreTypes'
  <2>1. UNCHANGED <<entry, log, pc, call, tmp>>
    BY <1>1 DEF SetLocalUnit, storeVars
  <2> QED BY <1>1, <2>1 DEF StoreTypes
<1> QED BY <1>1, BeginsTyped, AppendsTyped, InstallsTyped, LossTyped DEF StoreNext

(* They hold at first. *)
LEMMA StoreTypesOpen == StoreInit => StoreTypes
<1> SUFFICES ASSUME StoreInit PROVE StoreTypes
  OBVIOUS
<1>1. /\ entry = [c \in Cals |-> NoEntry] /\ log = [l \in LogNames |-> EmptyLog]
      /\ pc = [p \in Procs |-> "idle"] /\ call = [p \in Procs |-> NoCall] /\ tmp = [p \in Procs |-> NoTmp]
  BY DEF StoreInit
<1>2. /\ NoEntry \in [seen : BOOLEAN, hard : BOOLEAN, files : SUBSET Files, sure : SUBSET Files]
      /\ NoTmp \in [files : SUBSET Files, sure : SUBSET Files]
  BY DEF NoEntry, NoTmp
<1> QED BY <1>1, <1>2, EmptyIs, IdleOk DEF StoreTypes

-----------------------------------------------------------------------------

(* The install: what is true of each directory before it gets its name, and that a name is durable only in *)
(* a unit whose own name is.                                                                              *)
Whole ==
  /\ rooted \/ \A c \in Cals : ~entry[c].hard
  /\ \A c \in Cals : entry[c].seen => entry[c].files = Files /\ entry[c].sure = Files
  /\ \A c \in Cals : entry[c].hard => entry[c].seen
  /\ \A p \in Procs :
       /\ pc[p] = "syncdir" => tmp[p].files = Files
       /\ pc[p] = "rename" => tmp[p].files = Files /\ tmp[p].sure = Files
       /\ pc[p] = "parents" => entry[call[p].cal].seen
  /\ \A c \in kept : c \in Cals /\ entry[c].hard

(* A step outside install's critical labels. *)
LEMMA QuietKeepsWhole ==
  ASSUME StoreTypes, Whole, NEW p \in Procs, UNCHANGED <<entry, rooted, tmp, kept>>,
         NEW l, NEW x, pc' = [pc EXCEPT ![p] = l], call' = [call EXCEPT ![p] = x],
         l \notin {"syncdir", "rename", "parents"}
  PROVE  Whole'
<1>1. ASSUME NEW q \in Procs, pc'[q] \in {"syncdir", "rename", "parents"}
      PROVE  pc'[q] = pc[q] /\ call'[q] = call[q]
  BY <1>1 DEF StoreTypes
<1> QED BY <1>1 DEF Whole

(* Calls, append_line and the directories. *)
LEMMA CallsKeepWhole ==
  ASSUME StoreTypes, Whole, NEW p \in Procs,
         LocalPut(p) \/ Import(p) \/ Hide(p) \/ Select(p)
         \/ AppendWrites(p) \/ AppendFails(p) \/ AppendSyncs(p) \/ SyncFails(p) \/ Prepare(p)
  PROVE  Whole'
<1>1. UNCHANGED <<entry, rooted, tmp, kept>>
  BY DEF names, LocalPut, Import, Hide, Select, Put, Begin, AppendWrites, AppendFails, AppendSyncs, SyncFails, Prepare
<1>2. \E l : l \notin {"syncdir", "rename", "parents"} /\ pc' = [pc EXCEPT ![p] = l]
  BY DEF LocalPut, Import, Hide, Select, Put, Goto, Return, AppendWrites, AppendFails, AppendSyncs, SyncFails, Prepare
<1>3. call' = call \/ \E x : call' = [call EXCEPT ![p] = x]
  BY DEF LocalPut, Import, Hide, Select, Put, Begin, Return,
         AppendWrites, AppendFails, AppendSyncs, SyncFails, Prepare
<1>4. \E x : call' = [call EXCEPT ![p] = x]
  BY <1>3, SameCall
<1> QED BY <1>1, <1>2, <1>4, QuietKeepsWhole

(* A file is written; all of them are before the directory is synced. *)
LEMMA WriteFileKeepsWhole ==
  ASSUME StoreTypes, Whole, NEW p \in Procs, WriteFile(p)
  PROVE  Whole'
<1>1. /\ UNCHANGED <<entry, rooted, call, kept>> /\ tmp' = [tmp EXCEPT ![p].files = @ \union {NextFile(@)}]
      /\ pc' = [pc EXCEPT ![p] = IF tmp'[p].files = Files THEN "syncdir" ELSE "files"]
  BY DEF WriteFile, Goto, names
<1>2. ASSUME NEW q \in Procs, q # p PROVE pc'[q] = pc[q] /\ tmp'[q] = tmp[q]
  BY <1>1, <1>2 DEF StoreTypes
<1>3. pc'[p] = "files" \/ (pc'[p] = "syncdir" /\ tmp'[p].files = Files)
  BY <1>1 DEF StoreTypes
<1> QED BY <1>1, <1>2, <1>3 DEF Whole

(* The directory is synced before it is renamed. *)
LEMMA SyncDirKeepsWhole ==
  ASSUME StoreTypes, Whole, NEW p \in Procs, SyncDir(p)
  PROVE  Whole'
<1>1. /\ UNCHANGED <<entry, rooted, call, kept>> /\ tmp' = [tmp EXCEPT ![p].sure = tmp[p].files]
      /\ pc[p] = "syncdir" /\ pc' = [pc EXCEPT ![p] = "rename"]
  BY DEF SyncDir, Goto, At, names
<1>2. ASSUME NEW q \in Procs, q # p PROVE pc'[q] = pc[q] /\ tmp'[q] = tmp[q]
  BY <1>1, <1>2 DEF StoreTypes
<1>3. pc'[p] = "rename" /\ tmp'[p].files = Files /\ tmp'[p].sure = Files
  BY <1>1 DEF StoreTypes, Whole
<1> QED BY <1>1, <1>2, <1>3 DEF Whole

(* rename: what gets a final name is complete and synced. *)
LEMMA RenameKeepsWhole ==
  ASSUME StoreTypes, Whole, NEW p \in Procs, Rename(p)
  PROVE  Whole'
<1> DEFINE c == call[p].cal
<1>1. /\ pc[p] = "rename" /\ pc' = [pc EXCEPT ![p] = "parents"] /\ UNCHANGED <<rooted, call, kept>>
      /\ tmp' = [tmp EXCEPT ![p] = NoTmp] /\ c \in Cals
      /\ tmp[p].files = Files /\ tmp[p].sure = Files
  BY DEF Rename, At, Goto, StoreTypes, Whole, CallOk, Installing, names
<1>2. entry' = IF entry[c].seen THEN entry
               ELSE [entry EXCEPT ![c] = [seen |-> TRUE, hard |-> FALSE, files |-> Files, sure |-> Files]]
  BY <1>1 DEF Rename
<1> HIDE DEF c
<1>3. /\ \A d \in Cals : entry'[d] = entry[d]
                         \/ (d = c /\ ~entry[d].seen /\ entry'[d].seen /\ ~entry'[d].hard
                             /\ entry'[d].files = Files /\ entry'[d].sure = Files)
      /\ entry'[c].seen
  BY <1>1, <1>2 DEF StoreTypes
<1>4. \A d \in Cals : entry[d].seen => entry'[d] = entry[d]
  BY <1>3
<1>5. ASSUME NEW q \in Procs, q # p PROVE pc'[q] = pc[q] /\ tmp'[q] = tmp[q]
  BY <1>1, <1>5 DEF StoreTypes
<1>6. \A q \in Procs : pc[q] = "parents" => call[q].cal \in Cals
  BY DEF StoreTypes, CallOk, Installing
<1>7. pc'[p] = "parents" /\ entry'[call'[p].cal].seen
  BY <1>1, <1>3 DEF StoreTypes, c
<1>8. \A q \in Procs : pc'[q] = "parents" => entry'[call'[q].cal].seen
  BY <1>1, <1>4, <1>5, <1>6, <1>7 DEF Whole
<1>9. \A q \in Procs : /\ pc'[q] = "syncdir" => tmp'[q].files = Files
                       /\ pc'[q] = "rename" => tmp'[q].files = Files /\ tmp'[q].sure = Files
  BY <1>5, <1>7 DEF Whole
<1>10. \A d \in kept' : d \in Cals /\ entry'[d].hard
  BY <1>1, <1>4 DEF Whole
<1>11. rooted' \/ \A d \in Cals : ~entry'[d].hard
  BY <1>1, <1>3 DEF Whole
<1> QED BY <1>3, <1>8, <1>9, <1>10, <1>11 DEF Whole

(* The parents are synced: what is kept from now on is durable. *)
LEMMA ParentsKeepWhole ==
  ASSUME StoreTypes, Whole, NEW p \in Procs, SyncParents(p)
  PROVE  Whole'
<1>1. /\ pc[p] = "parents" /\ pc' = [pc EXCEPT ![p] = "idle"] /\ call' = [call EXCEPT ![p] = NoCall]
      /\ tmp' = tmp /\ kept' = kept \union {call[p].cal} /\ rooted'
      /\ entry' = [c \in Cals |-> [entry[c] EXCEPT !.hard = entry[c].seen]]
      /\ call[p].cal \in Cals /\ entry[call[p].cal].seen
  BY DEF SyncParents, At, Goto, Return, StoreTypes, CallOk, Installing, Whole
<1>2. \A c \in Cals : /\ entry'[c].seen = entry[c].seen /\ entry'[c].hard = entry[c].seen
                      /\ entry'[c].files = entry[c].files /\ entry'[c].sure = entry[c].sure
  BY <1>1 DEF StoreTypes
<1>3. ASSUME NEW q \in Procs, pc'[q] \in {"syncdir", "rename", "parents"}
      PROVE  pc'[q] = pc[q] /\ call'[q] = call[q]
  BY <1>1, <1>3 DEF StoreTypes
<1>4. \A q \in Procs : pc[q] = "parents" => call[q].cal \in Cals
  BY DEF StoreTypes, CallOk, Installing
<1>5. \A q \in Procs : pc'[q] = "parents" => entry'[call'[q].cal].seen
  BY <1>2, <1>3, <1>4 DEF Whole
<1>6. \A q \in Procs : /\ pc'[q] = "syncdir" => tmp'[q].files = Files
                       /\ pc'[q] = "rename" => tmp'[q].files = Files /\ tmp'[q].sure = Files
  BY <1>1, <1>3 DEF Whole
<1>7. \A c \in kept' : c \in Cals /\ entry'[c].hard
  BY <1>1, <1>2 DEF Whole
<1>8. rooted' \/ \A c \in Cals : ~entry'[c].hard
  BY <1>1
<1> QED BY <1>2, <1>5, <1>6, <1>7, <1>8 DEF Whole

(* A failure removes the temporary directory only. *)
LEMMA FailKeepsWhole ==
  ASSUME StoreTypes, Whole, NEW p \in Procs, InstallFails(p)
  PROVE  Whole'
<1>1. /\ pc' = [pc EXCEPT ![p] = "idle"] /\ call' = [call EXCEPT ![p] = NoCall]
      /\ tmp' = [tmp EXCEPT ![p] = NoTmp] /\ UNCHANGED <<entry, rooted, kept>>
  BY DEF InstallFails, Goto, Return, names
<1>2. ASSUME NEW q \in Procs, pc'[q] \in {"syncdir", "rename", "parents"}
      PROVE  pc'[q] = pc[q] /\ call'[q] = call[q] /\ tmp'[q] = tmp[q]
  BY <1>1, <1>2 DEF StoreTypes
<1> QED BY <1>1, <1>2 DEF Whole

(* A power loss takes no file of a synced directory and no durable name. *)
LEMMA LossKeepsWhole ==
  ASSUME StoreTypes, Whole, PowerLoss
  PROVE  Whole'
<1>1. /\ pc' = [p \in Procs |-> "idle"] /\ kept' = kept
      /\ \/ ~rooted /\ \A c \in Cals : entry'[c] = NoEntry
         \/ \A c \in Cals : entry'[c] \in EntryAfterLoss(entry[c])
      /\ rooted' \/ \A c \in Cals : ~entry'[c].seen
  BY LossIsOf
<1>2. ASSUME NEW c \in Cals
      PROVE  /\ entry'[c].seen => entry'[c].files = Files /\ entry'[c].sure = Files /\ entry[c].seen
             /\ entry'[c].hard => entry'[c].seen
             /\ entry[c].hard => entry'[c].seen /\ entry'[c].hard
  <2>1. (entry[c].files = Files /\ entry[c].sure = Files) \/ ~entry[c].seen
    BY DEF Whole
  <2>2. \/ entry'[c] = NoEntry /\ ~entry[c].hard
        \/ entry[c].seen /\ \E f \in SUBSET entry[c].files :
             entry[c].sure \subseteq f /\ entry'[c] = [seen |-> TRUE, hard |-> TRUE, files |-> f, sure |-> f]
    <3>1. CASE ~rooted /\ \A d \in Cals : entry'[d] = NoEntry
      BY <3>1 DEF Whole
    <3>2. CASE \A d \in Cals : entry'[d] \in EntryAfterLoss(entry[d])
      BY <3>2 DEF EntryAfterLoss, Whole
    <3> QED BY <1>1, <3>1, <3>2
  <2>3. CASE entry'[c] = NoEntry /\ ~entry[c].hard
    BY <2>3 DEF NoEntry
  <2>4. ASSUME entry[c].seen, NEW f \in SUBSET entry[c].files, entry[c].sure \subseteq f,
               entry'[c] = [seen |-> TRUE, hard |-> TRUE, files |-> f, sure |-> f]
        PROVE  entry'[c].seen /\ entry'[c].hard /\ entry'[c].files = Files /\ entry'[c].sure = Files
    <3>1. f = Files
      BY <2>1, <2>4
    <3> QED BY <2>4, <3>1
  <2> QED BY <2>2, <2>3, <2>4
<1>3. rooted' \/ \A c \in Cals : ~entry'[c].hard
  BY <1>1, <1>2
<1> QED BY <1>1, <1>2, <1>3 DEF Whole

(* Every step keeps Whole. *)
LEMMA WholeKept == StoreTypes /\ Whole /\ [StoreNext]_storeVars => Whole'
<1>1. ASSUME Whole, SetLocalUnit \/ UNCHANGED storeVars PROVE Whole'
  <2>1. UNCHANGED <<entry, rooted, pc, call, tmp, kept>>
    BY <1>1 DEF SetLocalUnit, storeVars, names
  <2> QED BY <1>1, <2>1 DEF Whole
<1> QED BY <1>1, CallsKeepWhole, WriteFileKeepsWhole, SyncDirKeepsWhole, RenameKeepsWhole, ParentsKeepWhole,
           FailKeepsWhole, LossKeepsWhole DEF StoreNext

(* EntriesAreWhole: whatever fails and whenever the power goes, an entry under its final name has all its *)
(* files, and one whose install returned PK_OK is never lost.                                             *)
THEOREM EntriesStayWhole == StoreSpec => []EntriesAreWhole
<1>1. StoreInit => Whole
  BY DEF StoreInit, Whole, NoEntry
<1>2. Whole => EntriesAreWhole
  BY DEF Whole, EntriesAreWhole
<1> QED BY <1>1, <1>2, StoreTypesOpen, StoreTypesKept, WholeKept, PTL DEF StoreSpec

-----------------------------------------------------------------------------

(* The lines about k among the first n that a reader accepts. *)
Said(g, n, k) == {j \in 1..n : g.lines[j].end = "nl" /\ g.lines[j].text[1] = k}

(* SelectionOf reads the last accepted line about k among the first n. *)
LEMMA SelectionOfIs ==
  ASSUME NEW g, NEW T, IsLog(g, T), NEW n \in 0..Len(g.lines), NEW k
  PROVE  /\ Said(g, n, k) = {} => SelectionOf(g, n, k) = AutoPin
         /\ Said(g, n, k) # {} => /\ SelectionOf(g, n, k) = g.lines[Max(Said(g, n, k))].text[2]
                                  /\ Max(Said(g, n, k)) \in Said(g, n, k)
                                  /\ \A j \in Said(g, n, k) : j <= Max(Said(g, n, k))
<1> DEFINE s == SubSeq(g.lines, 1, n)
           h == [g EXCEPT !.lines = s]
<1>1. /\ g.lines \in Seq([text : T, end : Ends]) /\ Len(g.lines) \in Nat /\ n \in Nat
      /\ \A j \in 1..Len(g.lines) : g.lines[j] \in [text : T, end : Ends]
      /\ g \in [lines : Seq([text : T, end : Ends]), hard : Nat]
  BY LogIs DEF IsLog
<1>2. Len(s) = n /\ (\A j \in 1..n : s[j] = g.lines[j]) /\ DOMAIN s = 1..n
  <2>1. \A j \in 1..n : g.lines[j] \in [text : T, end : Ends]
    BY <1>1
  <2>2. s \in Seq([text : T, end : Ends]) /\ Len(s) = n /\ \A j \in 1..n : s[j] = g.lines[j]
    BY <1>1, <2>1, SubSeqProperties
  <2> QED BY <2>2, LenProperties
<1> HIDE DEF s
<1>3. h.lines = s
  BY <1>1
<1> HIDE DEF h
<1>4. InForce(h, k) = Said(g, n, k)
  BY <1>2, <1>3 DEF InForce, Said
<1>5. SelectionOf(g, n, k) = IF Said(g, n, k) = {} THEN AutoPin ELSE h.lines[Max(Said(g, n, k))].text[2]
  <2>1. h = [g EXCEPT !.lines = SubSeq(@, 1, n)]
    BY DEF h, s
  <2>2. SelectionOf(g, n, k) = LastSaid(h, k, AutoPin)
    BY <2>1 DEF SelectionOf, SelectionIn
  <2> QED BY <1>4, <2>2 DEF LastSaid
<1>6. ASSUME Said(g, n, k) # {}
      PROVE  /\ Max(Said(g, n, k)) \in Said(g, n, k)
             /\ \A j \in Said(g, n, k) : j <= Max(Said(g, n, k))
  <2>1. Said(g, n, k) \in SUBSET (1..n)
    BY DEF Said
  <2>2. Max(Said(g, n, k)) \in Said(g, n, k) /\ \A y \in Said(g, n, k) : Max(Said(g, n, k)) >= y
    BY <1>1, <1>6, <2>1, MaxIs
  <2> QED BY <2>1, <2>2
<1>7. ASSUME NEW j \in Said(g, n, k) PROVE h.lines[j] = g.lines[j]
  BY <1>2, <1>3 DEF Said
<1> QED BY <1>5, <1>6, <1>7

(* Only the accepted lines count. *)
LEMMA SelectionSame ==
  ASSUME NEW g, NEW T, IsLog(g, T), NEW n \in 0..Len(g.lines),
         NEW h, NEW U, IsLog(h, U), NEW m \in 0..Len(h.lines), NEW k,
         Said(g, n, k) = Said(h, m, k), \A j \in Said(g, n, k) : Same(g, h, j)
  PROVE  SelectionOf(g, n, k) = SelectionOf(h, m, k)
<1>1. CASE Said(g, n, k) = {}
  BY <1>1, SelectionOfIs
<1>2. CASE Said(g, n, k) # {}
  <2> DEFINE x == Max(Said(g, n, k))
  <2>1. x \in Said(g, n, k) /\ SelectionOf(g, n, k) = g.lines[x].text[2]
    BY <1>2, SelectionOfIs
  <2>2. SelectionOf(h, m, k) = h.lines[x].text[2]
    BY <1>2, SelectionOfIs
  <2> QED BY <2>1, <2>2 DEF Same
<1> QED BY <1>1, <1>2

(* Line by line. *)
LEMMA SelectionStep ==
  ASSUME NEW g, NEW T, IsLog(g, T), NEW n \in 1..Len(g.lines), NEW k
  PROVE  IF g.lines[n].end = "nl" /\ g.lines[n].text[1] = k
         THEN SelectionOf(g, n, k) = g.lines[n].text[2]
         ELSE SelectionOf(g, n, k) = SelectionOf(g, n - 1, k)
<1>0. Len(g.lines) \in Nat /\ n \in Nat /\ n \in 0..Len(g.lines) /\ n - 1 \in 0..Len(g.lines) /\ n - 1 \in Nat
  BY LogIs
<1>1. CASE g.lines[n].end = "nl" /\ g.lines[n].text[1] = k
  <2>1. n \in Said(g, n, k)
    BY <1>0, <1>1 DEF Said
  <2>2. /\ SelectionOf(g, n, k) = g.lines[Max(Said(g, n, k))].text[2]
        /\ Max(Said(g, n, k)) \in Said(g, n, k) /\ n <= Max(Said(g, n, k))
    BY <1>0, <2>1, SelectionOfIs
  <2>3. Max(Said(g, n, k)) \in 1..n
    BY <2>2 DEF Said
  <2>4. Max(Said(g, n, k)) = n
    BY <1>0, <2>2, <2>3
  <2> QED BY <1>1, <2>2, <2>4
<1>2. CASE ~(g.lines[n].end = "nl" /\ g.lines[n].text[1] = k)
  <2>1. Said(g, n, k) = Said(g, n - 1, k)
    <3>1. 1..n = (1..(n - 1)) \union {n}
      BY <1>0
    <3> QED BY <1>2, <3>1 DEF Said
  <2>2. \A j \in Said(g, n, k) : Same(g, g, j)
    BY DEF Same
  <2>3. SelectionOf(g, n, k) = SelectionOf(g, n - 1, k)
    BY <1>0, <2>1, <2>2, SelectionSame
  <2> QED BY <1>2, <2>3
<1> QED BY <1>1, <1>2

(* What pk_calstore_selection reads is the reading of all the lines. *)
LEMMA SelectionWhole ==
  ASSUME NEW g, NEW T, IsLog(g, T), NEW k
  PROVE  SelectionIn(g, k) = SelectionOf(g, Len(g.lines), k)
<1>1. g.lines \in Seq([text : T, end : Ends]) /\ g \in [lines : Seq([text : T, end : Ends]), hard : Nat]
  BY DEF IsLog
<1>2. SubSeq(g.lines, 1, Len(g.lines)) = g.lines
  BY <1>1
<1>3. [g EXCEPT !.lines = SubSeq(g.lines, 1, Len(g.lines))] = g
  BY <1>1, <1>2
<1> QED BY <1>3 DEF SelectionOf

(* What a log may be read as: now, or when some of the unsynced part is lost. *)
Readings(g, k) == {SelectionOf(g, n, k) : n \in g.hard..Len(g.lines)}

(* The first n lines of h are those of g, as far as a reader is concerned. *)
LEMMA SelectionPrefix ==
  ASSUME NEW g, NEW T, IsLog(g, T), NEW h, NEW U, IsLog(h, U), NEW k,
         NEW n \in 0..Len(g.lines), n <= Len(h.lines),
         \A j \in 1..n : /\ Same(g, h, j)
                         /\ g.lines[j].end = "nl" <=> h.lines[j].end = "nl"
  PROVE  SelectionOf(h, n, k) = SelectionOf(g, n, k)
<1>1. Len(g.lines) \in Nat /\ Len(h.lines) \in Nat
  BY LogIs
<1>2. n \in 0..Len(h.lines)
  BY <1>1
<1>3. Said(g, n, k) = Said(h, n, k)
  BY DEF Said, Same
<1>4. \A j \in Said(g, n, k) : Same(g, h, j)
  BY DEF Said
<1> QED BY <1>2, <1>3, <1>4, SelectionSame

(* Marking a torn line bad adds no reading. *)
LEMMA MendedReadings ==
  ASSUME NEW g, NEW T, IsLog(g, T), NEW k
  PROVE  Readings(Mended(g, MarkedBad), k) \subseteq Readings(g, k)
<1> DEFINE h == Mended(g, MarkedBad)
<1>1. /\ IsLog(h, T) /\ Len(h.lines) = Len(g.lines)
      /\ \A j \in 1..Len(g.lines) :
              /\ Same(g, h, j)
              /\ j # Len(g.lines) \/ g.lines[j].end \notin Torn => h.lines[j].end = g.lines[j].end
              /\ g.lines[j].end \in Torn /\ j = Len(g.lines) => h.lines[j].end = MarkedBad[g.lines[j].end]
      /\ \/ h.hard = g.hard
         \/ LastTorn(g) /\ g.hard = Len(g.lines) /\ h.hard = g.hard - 1
  BY MendedIs, MarkedBadIs
<1> HIDE DEF h
<1>2. \A e \in Torn : MarkedBad[e] = "bad" /\ e # "nl"
  BY DEF MarkedBad, Torn
<1>3. \A j \in 1..Len(g.lines) : g.lines[j].end = "nl" <=> h.lines[j].end = "nl"
  BY <1>1, <1>2
<1>4. /\ Len(g.lines) \in Nat /\ g.hard \in 0..Len(g.lines) /\ h.hard \in 0..Len(h.lines)
  BY <1>1, LogIs
<1>5. \A n \in 0..Len(g.lines) : SelectionOf(h, n, k) = SelectionOf(g, n, k)
  BY <1>1, <1>3, <1>4, SelectionPrefix
<1>6. ASSUME NEW n \in h.hard..Len(h.lines) PROVE \E m \in g.hard..Len(g.lines) : SelectionOf(h, n, k) = SelectionOf(g, m, k)
  <2>1. n \in 0..Len(g.lines)
    BY <1>1, <1>4
  <2>2. CASE n \in g.hard..Len(g.lines)
    BY <1>5, <2>1, <2>2
  <2>3. CASE n \notin g.hard..Len(g.lines)
    <3>1. LastTorn(g) /\ g.hard = Len(g.lines) /\ n = Len(g.lines) - 1
      BY <1>1, <1>4, <2>1, <2>3
    <3> DEFINE z == Len(g.lines)
    <3>2. z \in 1..z /\ z \in g.hard..z /\ g.lines[z].end # "nl"
      BY <1>4, <2>1, <3>1 DEF LastTorn, Torn
    <3>3. SelectionOf(g, z, k) = SelectionOf(g, z - 1, k)
      BY <3>2, SelectionStep
    <3> QED BY <1>5, <2>1, <3>1, <3>2, <3>3
  <2> QED BY <2>2, <2>3
<1>7. Readings(h, k) \subseteq Readings(g, k)
  BY <1>6 DEF Readings
<1> QED BY <1>7 DEF h

(* A line adds at most the reading it states, and only if it is complete. *)
LEMMA AddedReadings ==
  ASSUME NEW g, NEW T, IsLog(g, T), NEW t \in T, NEW e \in Ends, NEW k
  PROVE  Readings(Added(g, t, e), k) \subseteq Readings(g, k)
                                               \union (IF e = "nl" /\ t[1] = k THEN {t[2]} ELSE {})
<1> DEFINE h == Added(g, t, e)
<1>1. /\ IsLog(h, T) /\ Len(h.lines) = Len(g.lines) + 1 /\ h.hard = g.hard
      /\ \A j \in 1..Len(g.lines) : h.lines[j] = g.lines[j]
      /\ h.lines[Len(h.lines)] = [text |-> t, end |-> e]
  BY AddedIs
<1> HIDE DEF h
<1>2. /\ Len(g.lines) \in Nat /\ g.hard \in 0..Len(g.lines)
  BY LogIs
<1>3. \A n \in 0..Len(g.lines) : SelectionOf(h, n, k) = SelectionOf(g, n, k)
  <2>1. \A j \in 1..Len(g.lines) : Same(g, h, j) /\ (g.lines[j].end = "nl" <=> h.lines[j].end = "nl")
    BY <1>1 DEF Same
  <2> QED BY <1>1, <1>2, <2>1, SelectionPrefix
<1>4. ASSUME NEW n \in h.hard..Len(h.lines)
      PROVE  \/ \E m \in g.hard..Len(g.lines) : SelectionOf(h, n, k) = SelectionOf(g, m, k)
             \/ e = "nl" /\ t[1] = k /\ SelectionOf(h, n, k) = t[2]
  <2>1. CASE n \in g.hard..Len(g.lines)
    <3>1. n \in 0..Len(g.lines)
      BY <1>2, <2>1
    <3> QED BY <1>3, <2>1, <3>1
  <2>2. CASE n \notin g.hard..Len(g.lines)
    <3> DEFINE z == Len(h.lines)
    <3>1. n = z /\ z \in 1..z /\ z - 1 = Len(g.lines) /\ z - 1 \in g.hard..Len(g.lines) /\ z - 1 \in 0..Len(g.lines)
      BY <1>1, <1>2, <2>2
    <3>2. IF e = "nl" /\ t[1] = k THEN SelectionOf(h, z, k) = t[2]
          ELSE SelectionOf(h, z, k) = SelectionOf(h, z - 1, k)
      BY <1>1, <3>1, SelectionStep
    <3> QED BY <1>3, <3>1, <3>2
  <2> QED BY <2>1, <2>2
<1>5. Readings(h, k) \subseteq Readings(g, k) \union (IF e = "nl" /\ t[1] = k THEN {t[2]} ELSE {})
  BY <1>4 DEF Readings
<1> QED BY <1>5 DEF h

(* fsync leaves one reading. *)
LEMMA SyncedReadings ==
  ASSUME NEW g, NEW T, IsLog(g, T), NEW k
  PROVE  Readings(Synced(g), k) = {SelectionOf(g, Len(g.lines), k)}
<1>1. IsLog(Synced(g), T) /\ Synced(g).lines = g.lines /\ Synced(g).hard = Len(g.lines) /\ Len(g.lines) \in Nat
  BY SyncedIs, LogIs
<1>2. SelectionOf(Synced(g), Len(g.lines), k) = SelectionOf(g, Len(g.lines), k)
  <2>1. \A j \in 1..Len(g.lines) : Same(g, Synced(g), j)
    BY <1>1 DEF Same
  <2> QED BY <1>1, <2>1, SelectionPrefix
<1> QED BY <1>1, <1>2 DEF Readings

(* A power loss picks one of the readings. *)
LEMMA LossReadings ==
  ASSUME NEW g, NEW T, IsLog(g, T), NEW h \in AfterLoss(g), NEW k
  PROVE  Readings(h, k) = {SelectionIn(h, k)} /\ SelectionIn(h, k) \in Readings(g, k)
<1>1. /\ IsLog(h, T) /\ Len(h.lines) \in g.hard..Len(g.lines) /\ h.hard = Len(h.lines)
      /\ \A j \in 1..Len(h.lines) :
           /\ Same(g, h, j)
           /\ \/ h.lines[j].end = g.lines[j].end
              \/ h.lines[j].end \in Torn /\ j = Len(h.lines) /\ j > g.hard
  BY AfterLossIs
<1> DEFINE z == Len(h.lines)
<1>2. z \in Nat /\ Len(g.lines) \in Nat /\ g.hard \in 0..Len(g.lines) /\ z \in 0..Len(g.lines)
  BY <1>1, LogIs
<1>3. SelectionIn(h, k) = SelectionOf(h, z, k)
  BY <1>1, SelectionWhole
<1>4. Readings(h, k) = {SelectionIn(h, k)}
  BY <1>1, <1>2, <1>3 DEF Readings
<1>5. \E m \in g.hard..Len(g.lines) : SelectionOf(h, z, k) = SelectionOf(g, m, k)
  <2>1. CASE \A j \in 1..z : h.lines[j].end = g.lines[j].end
    BY <1>1, <1>2, <2>1, SelectionPrefix
  <2>2. ASSUME NEW j \in 1..z, h.lines[j].end # g.lines[j].end
        PROVE  \E m \in g.hard..Len(g.lines) : SelectionOf(h, z, k) = SelectionOf(g, m, k)
    <3>1. j = z /\ h.lines[z].end \in Torn /\ z > g.hard
      BY <1>1, <2>2
    <3>2. z \in 1..z /\ z - 1 \in g.hard..Len(g.lines) /\ z - 1 \in 0..Len(g.lines) /\ z - 1 <= Len(h.lines)
          /\ h.lines[z].end # "nl"
      BY <1>2, <3>1 DEF Torn
    <3>3. SelectionOf(h, z, k) = SelectionOf(h, z - 1, k)
      BY <1>1, <3>2, SelectionStep
    <3>4. \A i \in 1..(z - 1) : /\ Same(g, h, i)
                                /\ g.lines[i].end = "nl" <=> h.lines[i].end = "nl"
      BY <1>1, <1>2
    <3>5. SelectionOf(h, z - 1, k) = SelectionOf(g, z - 1, k)
      BY <1>1, <3>2, <3>4, SelectionPrefix
    <3> QED BY <3>2, <3>3, <3>5
  <2> QED BY <2>1, <2>2
<1> QED BY <1>3, <1>4, <1>5 DEF Readings

-----------------------------------------------------------------------------

(* LogFree at work: one process at a time appends to a log. *)
OneAppends == \A p, q \in Procs : p # q /\ pc[p] \in Appending /\ pc[q] \in Appending => call[p].log # call[q].log

(* A step of one process that enters a free log, goes on with its own or leaves. *)
LEMMA OneAppendsStep ==
  ASSUME StoreTypes, OneAppends, NEW p \in Procs, NEW l, NEW x,
         pc' = [pc EXCEPT ![p] = l], call' = [call EXCEPT ![p] = x],
         \/ l \notin Appending
         \/ pc[p] \in Appending /\ x = call[p]
         \/ LogFree(x.log)
  PROVE  OneAppends'
<1>1. \A q \in Procs : q # p => pc'[q] = pc[q] /\ call'[q] = call[q]
  BY DEF StoreTypes
<1>2. pc'[p] = l /\ call'[p] = x
  BY DEF StoreTypes
<1>3. ASSUME NEW q \in Procs, q # p, l \in Appending, pc[q] \in Appending
      PROVE  call[q].log # x.log
  BY <1>3 DEF OneAppends, LogFree, Appending
<1> QED BY <1>1, <1>2, <1>3 DEF OneAppends

(* Every step keeps OneAppends. *)
LEMMA OneAppendsKept == StoreTypes /\ OneAppends /\ [StoreNext]_storeVars => OneAppends'
<1> SUFFICES ASSUME StoreTypes, OneAppends, [StoreNext]_storeVars PROVE OneAppends'
  OBVIOUS
<1>1. CASE SetLocalUnit \/ UNCHANGED storeVars
  BY <1>1 DEF SetLocalUnit, storeVars, OneAppends
<1>2. CASE PowerLoss
  <2>1. pc' = [p \in Procs |-> "idle"]
    BY <1>2 DEF PowerLoss
  <2> QED BY <2>1 DEF OneAppends, Appending
<1>3. ASSUME NEW p \in Procs, LocalPut(p) \/ Import(p) PROVE OneAppends'
  <2>1. PICK c \in Cals, isLocal \in BOOLEAN : Put(p, c, isLocal)
    BY <1>3 DEF LocalPut, Import
  <2> DEFINE x == [op |-> "put", cal |-> c, log |-> "local", text |-> <<c>>]
  <2>2. PICK new \in BOOLEAN : /\ JoinsLocalLog(c, isLocal, new) => LogFree("local")
                               /\ call' = [call EXCEPT ![p] = x]
                               /\ pc' = [pc EXCEPT ![p] = IF JoinsLocalLog(c, isLocal, new) THEN "append" ELSE "unit"]
    <3>1. PICK new \in {LooksNew(c), FALSE} : /\ JoinsLocalLog(c, isLocal, new) => LogFree("local")
                               /\ call' = [call EXCEPT ![p] = x]
                               /\ pc' = [pc EXCEPT ![p] = IF JoinsLocalLog(c, isLocal, new) THEN "append" ELSE "unit"]
      BY <2>1 DEF Put, Begin, Goto
    <3>2. LooksNew(c) \in BOOLEAN
      BY DEF LooksNew
    <3> QED BY <3>1, <3>2
  <2>3. x.log = "local"
    OBVIOUS
  <2> HIDE DEF x
  <2>4. CASE JoinsLocalLog(c, isLocal, new)
    BY <2>2, <2>3, <2>4, OneAppendsStep
  <2>5. CASE ~JoinsLocalLog(c, isLocal, new)
    <3>1. pc' = [pc EXCEPT ![p] = "unit"] /\ "unit" \notin Appending
      BY <2>2, <2>5 DEF Appending
    <3> QED BY <2>2, <3>1, OneAppendsStep
  <2> QED BY <2>4, <2>5
<1>4. ASSUME NEW p \in Procs, Hide(p) \/ Select(p) PROVE OneAppends'
  <2>1. \E x : LogFree(x.log) /\ call' = [call EXCEPT ![p] = x] /\ pc' = [pc EXCEPT ![p] = "append"]
    <3>1. CASE Hide(p)
      <4>1. PICK c \in Listed, h \in BOOLEAN :
              /\ LogFree("hidden") /\ Goto(p, "append")
              /\ Begin(p, [op |-> "hide", log |-> "hidden", text |-> <<c, h>>])
        BY <3>1 DEF Hide
      <4> DEFINE x == [op |-> "hide", log |-> "hidden", text |-> <<c, h>>]
      <4>2. x.log = "hidden"
        OBVIOUS
      <4>3. call' = [call EXCEPT ![p] = x] /\ pc' = [pc EXCEPT ![p] = "append"]
        BY <4>1 DEF Begin, Goto
      <4> HIDE DEF x
      <4> QED BY <4>1, <4>2, <4>3
    <3>2. CASE Select(p)
      <4>1. PICK k \in Keys, c \in Cals \union {AutoPin} :
              /\ LogFree("selection") /\ Goto(p, "append")
              /\ Begin(p, [op |-> "select", log |-> "selection", text |-> <<k, c>>])
        BY <3>2 DEF Select
      <4> DEFINE x == [op |-> "select", log |-> "selection", text |-> <<k, c>>]
      <4>2. x.log = "selection"
        OBVIOUS
      <4>3. call' = [call EXCEPT ![p] = x] /\ pc' = [pc EXCEPT ![p] = "append"]
        BY <4>1 DEF Begin, Goto
      <4> HIDE DEF x
      <4> QED BY <4>1, <4>2, <4>3
    <3> QED BY <1>4, <3>1, <3>2
  <2> QED BY <2>1, OneAppendsStep
<1>5. ASSUME NEW p \in Procs, AppendWrites(p) PROVE OneAppends'
  <2>1. pc' = [pc EXCEPT ![p] = "logsync"] /\ pc[p] \in Appending /\ call' = [call EXCEPT ![p] = call[p]]
    BY <1>5, SameCall DEF AppendWrites, At, Goto, Appending
  <2> QED BY <2>1, OneAppendsStep
<1>6. ASSUME NEW p \in Procs,
             AppendFails(p) \/ AppendSyncs(p) \/ SyncFails(p)
             \/ Prepare(p) \/ WriteFile(p) \/ SyncDir(p) \/ Rename(p) \/ SyncParents(p) \/ InstallFails(p)
      PROVE  OneAppends'
  <2>1. \E l : l \notin Appending /\ pc' = [pc EXCEPT ![p] = l]
    BY <1>6 DEF AppendFails, AppendSyncs, SyncFails, Prepare, WriteFile, SyncDir, Rename, SyncParents, InstallFails,
                Goto, Return, Appending
  <2>2. call' = call \/ call' = [call EXCEPT ![p] = NoCall]
    BY <1>6 DEF AppendFails, AppendSyncs, SyncFails, Prepare, WriteFile, SyncDir, Rename, SyncParents, InstallFails, Return
  <2>3. \E x : call' = [call EXCEPT ![p] = x]
    BY <2>2, SameCall
  <2> QED BY <2>1, <2>3, OneAppendsStep
<1> QED BY <1>1, <1>2, <1>3, <1>4, <1>5, <1>6 DEF StoreNext

-----------------------------------------------------------------------------

(* selection.log, and a process that appends to it. *)
SelLog == log["selection"]
Selects(p) == pc[p] \in Appending /\ call[p].log = "selection"

(* All that selection.log may be read as, now or after a loss, is what was asked or is open; a select under way *)
(* has said what it asks for, and before its fsync its line is the last: the inductive strengthening of         *)
(* SelectionIsAsked.                                                                                            *)
Asked ==
  /\ DOMAIN maybe = Keys /\ maybe = [k \in Keys |-> maybe[k]]
  /\ \A k \in Keys : Readings(SelLog, k) \subseteq maybe[k]
  /\ \A p \in Procs : Selects(p) =>
       /\ pc[p] = "append" => call[p].text[2] \in maybe[call[p].text[1]]
       /\ pc[p] = "logsync" => /\ Len(SelLog.lines) # 0
                               /\ SelLog.lines[Len(SelLog.lines)] = [text |-> call[p].text, end |-> "nl"]

(* selection.log is a log. *)
LEMMA SelLogIs == StoreTypes => IsLog(SelLog, Text("selection"))
BY DEF StoreTypes, SelLog, LogNames

(* A process that appends: its log, its call and its line. *)
LEMMA SelectsIs ==
  ASSUME StoreTypes, NEW p \in Procs, pc[p] \in Appending
  PROVE  /\ call[p].log \in LogNames
         /\ call[p].op = "select" <=> Selects(p)
         /\ call[p].op = "put" <=> call[p].log = "local"
         /\ Selects(p) => /\ call[p].text \in Text("selection") /\ call[p].text[1] \in Keys
<1>1. /\ call[p].log \in LogNames /\ call[p].text \in Text(call[p].log)
      /\ call[p].op = "select" <=> call[p].log = "selection"
      /\ call[p].op = "put" <=> call[p].log = "local"
  BY DEF StoreTypes, CallOk
<1>2. \A x \in Text("selection") : x[1] \in Keys
  BY DEF Text
<1> QED BY <1>1, <1>2 DEF Selects

(* Nobody else appends to selection.log. *)
LEMMA OthersSelect ==
  ASSUME StoreTypes, OneAppends, NEW p \in Procs, Selects(p), NEW q \in Procs, q # p
  PROVE  ~Selects(q)
BY DEF OneAppends, Selects

(* Nothing said of the selection. *)
LEMMA AskedQuiet ==
  ASSUME StoreTypes, Asked, NEW p \in Procs, NEW l, NEW x, SelLog' = SelLog, maybe' = maybe,
         pc' = [pc EXCEPT ![p] = l], call' = [call EXCEPT ![p] = x],
         l \notin Appending \/ x.log # "selection"
  PROVE  Asked'
<1>1. ASSUME NEW q \in Procs, Selects(q)' PROVE Selects(q) /\ pc'[q] = pc[q] /\ call'[q] = call[q]
  <2>1. q # p
    BY <1>1 DEF StoreTypes, Selects
  <2> QED BY <1>1, <2>1 DEF StoreTypes, Selects
<1> QED BY <1>1 DEF Asked

(* The selection is about to be asked for, or was; and no other process does. *)
LEMMA AskedOwn ==
  ASSUME StoreTypes, Asked, NEW p \in Procs, NEW l, NEW x, NEW k0 \in Keys, NEW y,
         \A q \in Procs : q # p => ~Selects(q),
         maybe' = [maybe EXCEPT ![k0] = y],
         \A k \in Keys : Readings(SelLog', k) \subseteq maybe'[k],
         pc' = [pc EXCEPT ![p] = l], call' = [call EXCEPT ![p] = x],
         \/ l \notin Appending
         \/ l = "append" /\ x.text[2] \in maybe'[x.text[1]]
         \/ l = "logsync" /\ Len(SelLog'.lines) # 0
                          /\ SelLog'.lines[Len(SelLog'.lines)] = [text |-> x.text, end |-> "nl"]
  PROVE  Asked'
<1>1. DOMAIN maybe' = Keys /\ maybe' = [k \in Keys |-> maybe'[k]]
  BY DEF Asked
<1>2. ASSUME NEW q \in Procs, Selects(q)' PROVE q = p
  BY <1>2 DEF StoreTypes, Selects
<1>3. pc'[p] = l /\ call'[p] = x
  BY DEF StoreTypes
<1>4. Selects(p)' =>
        /\ pc'[p] = "append" => call'[p].text[2] \in maybe'[call'[p].text[1]]
        /\ pc'[p] = "logsync" => /\ Len(SelLog'.lines) # 0
                                /\ SelLog'.lines[Len(SelLog'.lines)] = [text |-> call'[p].text, end |-> "nl"]
  BY <1>3 DEF Selects, Appending
<1>5. ASSUME NEW q \in Procs, Selects(q)'
      PROVE  /\ pc'[q] = "append" => call'[q].text[2] \in maybe'[call'[q].text[1]]
             /\ pc'[q] = "logsync" => /\ Len(SelLog'.lines) # 0
                                     /\ SelLog'.lines[Len(SelLog'.lines)] = [text |-> call'[q].text, end |-> "nl"]
  <2>1. q = p
    BY <1>2, <1>5
  <2>2. Selects(p)'
    BY <1>5, <2>1
  <2>3. /\ pc'[p] = "append" => call'[p].text[2] \in maybe'[call'[p].text[1]]
        /\ pc'[p] = "logsync" => /\ Len(SelLog'.lines) # 0
                                /\ SelLog'.lines[Len(SelLog'.lines)] = [text |-> call'[p].text, end |-> "nl"]
    BY <1>4, <2>2
  <2> QED BY <2>1, <2>3
<1>6. \A k \in Keys : Readings(SelLog', k) \subseteq maybe'[k]
  OBVIOUS
<1> QED BY <1>1, <1>5, <1>6 DEF Asked

(* A select begins: what it asks for is open from now on. *)
LEMMA SelectKeepsAsked ==
  ASSUME StoreTypes, Asked, NEW p \in Procs, Select(p)
  PROVE  Asked'
<1>1. PICK k \in Keys, c \in Cals \union {AutoPin} :
        /\ LogFree("selection") /\ maybe' = [maybe EXCEPT ![k] = maybe[k] \union {c}]
        /\ Begin(p, [op |-> "select", log |-> "selection", text |-> <<k, c>>]) /\ Goto(p, "append")
  BY DEF Select
<1> DEFINE x == [op |-> "select", log |-> "selection", text |-> <<k, c>>]
<1>2. pc' = [pc EXCEPT ![p] = "append"] /\ call' = [call EXCEPT ![p] = x] /\ log' = log
  BY <1>1 DEF Begin, Goto
<1>3. \A q \in Procs : ~Selects(q)
  BY <1>1 DEF LogFree, Selects, Appending
<1>4. x.text[2] \in maybe'[x.text[1]] /\ \A j \in Keys : maybe[j] \subseteq maybe'[j]
  BY <1>1 DEF Asked
<1>5. \A j \in Keys : Readings(SelLog', j) \subseteq maybe'[j]
  BY <1>2, <1>4 DEF Asked, SelLog
<1> HIDE DEF x
<1> QED BY <1>1, <1>2, <1>3, <1>4, <1>5, AskedOwn

(* The line is written: it may be read, and may still be lost. *)
LEMMA WritesKeepAsked ==
  ASSUME StoreTypes, OneAppends, Asked, NEW p \in Procs, AppendWrites(p)
  PROVE  Asked'
<1>1. /\ pc[p] = "append" /\ pc' = [pc EXCEPT ![p] = "logsync"] /\ maybe' = maybe
      /\ log' = [log EXCEPT ![call[p].log] = Added(Mended(log[call[p].log], MarkedBad), call[p].text, "nl")]
      /\ call' = [call EXCEPT ![p] = call[p]] /\ pc[p] \in Appending
  BY SameCall DEF AppendWrites, At, Goto, Appending
<1>2. CASE ~Selects(p)
  <2>1. call[p].log # "selection" /\ SelLog' = SelLog
    BY <1>1, <1>2 DEF Selects, SelLog, StoreTypes
  <2> QED BY <1>1, <2>1, AskedQuiet
<1>3. CASE Selects(p)
  <2> DEFINE t == call[p].text
             m == Mended(SelLog, MarkedBad)
  <2>1. t \in Text("selection") /\ t[1] \in Keys /\ t[2] \in maybe[t[1]] /\ IsLog(SelLog, Text("selection"))
    BY <1>1, <1>3, SelectsIs, SelLogIs DEF Asked
  <2>2. SelLog' = Added(m, t, "nl")
    BY <1>1, <1>3 DEF Selects, SelLog, StoreTypes, LogNames
  <2>3. IsLog(m, Text("selection")) /\ "nl" \in Ends
    BY <2>1, MendedIs, MarkedBadIs DEF Ends
  <2>4. \A k \in Keys : Readings(m, k) \subseteq maybe[k]
    BY <2>1, MendedReadings DEF Asked
  <2> HIDE DEF m, t
  <2>5. \A k \in Keys : Readings(SelLog', k) \subseteq Readings(m, k) \union (IF t[1] = k THEN {t[2]} ELSE {})
    BY <2>1, <2>2, <2>3, AddedReadings
  <2>6. \A k \in Keys : Readings(SelLog', k) \subseteq maybe[k]
    BY <2>1, <2>4, <2>5
  <2>7. Len(SelLog'.lines) # 0 /\ SelLog'.lines[Len(SelLog'.lines)] = [text |-> t, end |-> "nl"]
    <3>1. /\ Len(SelLog'.lines) = Len(m.lines) + 1 /\ Len(m.lines) \in Nat
          /\ SelLog'.lines[Len(SelLog'.lines)] = [text |-> t, end |-> "nl"]
      BY <2>1, <2>2, <2>3, AddedIs, LogIs
    <3> QED BY <3>1
  <2>8. \A q \in Procs : q # p => ~Selects(q)
    BY <1>3, OthersSelect
  <2>9. maybe' = [maybe EXCEPT ![t[1]] = maybe[t[1]]]
    BY <1>1 DEF Asked
  <2>10. \A k \in Keys : Readings(SelLog', k) \subseteq maybe'[k]
    BY <1>1, <2>6
  <2> QED BY <1>1, <2>1, <2>7, <2>8, <2>9, <2>10, AskedOwn DEF t
<1> QED BY <1>2, <1>3

(* A failed call: of its own scope all the log may be read as, of the others nothing new. *)
LEMMA UnsureKeepsAsked ==
  ASSUME StoreTypes, OneAppends, Asked, NEW p \in Procs, Selects(p),
         \A k \in Keys : k # call[p].text[1] => Readings(SelLog', k) \subseteq maybe[k],
         maybe' = Unsure(p), Return(p)
  PROVE  Asked'
<1> DEFINE k0 == call[p].text[1]
<1>1. pc' = [pc EXCEPT ![p] = "idle"] /\ call' = [call EXCEPT ![p] = NoCall] /\ "idle" \notin Appending
  BY DEF Return, Goto, Appending
<1>2. k0 \in Keys /\ call[p].op = "select"
  BY SelectsIs DEF Selects
<1>3. maybe' = [maybe EXCEPT ![k0] = Readings(SelLog', k0)]
  BY <1>2 DEF Unsure, Readings, SelLog
<1>4. \A k \in Keys : Readings(SelLog', k) \subseteq maybe'[k]
  BY <1>2, <1>3 DEF Asked
<1>5. \A q \in Procs : q # p => ~Selects(q)
  BY OthersSelect
<1> QED BY <1>1, <1>2, <1>3, <1>4, <1>5, AskedOwn

(* The append fails: the log is as it was, mended, or ends in a torn line. *)
LEMMA FailsKeepAsked ==
  ASSUME StoreTypes, OneAppends, Asked, NEW p \in Procs, AppendFails(p)
  PROVE  Asked'
<1>1. PICK h \in Spoiled(log[call[p].log], call[p].text, MarkedBad) : log' = [log EXCEPT ![call[p].log] = h]
  BY DEF AppendFails
<1>2. /\ pc[p] \in Appending /\ maybe' = Unsure(p) /\ Return(p)
      /\ pc' = [pc EXCEPT ![p] = "idle"] /\ call' = [call EXCEPT ![p] = NoCall]
  BY DEF AppendFails, At, Appending, Return, Goto
<1>3. CASE ~Selects(p)
  <2>1. call[p].log # "selection" /\ SelLog' = SelLog
    BY <1>1, <1>2, <1>3 DEF Selects, SelLog, StoreTypes
  <2>2. maybe' = maybe /\ "idle" \notin Appending
    BY <1>2, <1>3, SelectsIs DEF Unsure, Appending
  <2> QED BY <1>2, <2>1, <2>2, AskedQuiet
<1>4. CASE Selects(p)
  <2> DEFINE t == call[p].text
             m == Mended(SelLog, MarkedBad)
             T == Text("selection")
  <2>1. t \in T /\ IsLog(SelLog, T) /\ IsLog(m, T)
    BY <1>2, <1>4, SelectsIs, SelLogIs, MendedIs, MarkedBadIs
  <2>2. SelLog' = h
    BY <1>1, <1>4 DEF Selects, SelLog, StoreTypes, LogNames
  <2>3. h = SelLog \/ h = m \/ \E e \in Torn : h = Added(m, t, e)
    BY <1>1, <1>4, SpoiledIs DEF Selects, SelLog
  <2>4. \A k \in Keys : Readings(m, k) \subseteq maybe[k] /\ Readings(SelLog, k) \subseteq maybe[k]
    BY <2>1, MendedReadings DEF Asked
  <2> HIDE DEF m, t, T
  <2>5. ASSUME NEW e \in Torn, h = Added(m, t, e) PROVE \A k \in Keys : Readings(h, k) \subseteq maybe[k]
    <3>1. e \in Ends /\ e # "nl"
      BY DEF Torn, Ends
    <3>2. \A k \in Keys : Readings(h, k) \subseteq Readings(m, k)
      BY <2>1, <2>5, <3>1, AddedReadings
    <3> QED BY <2>4, <3>2
  <2>6. \A k \in Keys : Readings(SelLog', k) \subseteq maybe[k]
    BY <2>2, <2>3, <2>4, <2>5
  <2> QED BY <1>2, <1>4, <2>6, UnsureKeepsAsked
<1> QED BY <1>3, <1>4

(* The fsync fails: the line may be there or not. *)
LEMMA SyncFailsKeepsAsked ==
  ASSUME StoreTypes, OneAppends, Asked, NEW p \in Procs, SyncFails(p)
  PROVE  Asked'
<1>1. /\ pc[p] \in Appending /\ maybe' = Unsure(p) /\ Return(p) /\ log' = log /\ SelLog' = SelLog
      /\ pc' = [pc EXCEPT ![p] = "idle"] /\ call' = [call EXCEPT ![p] = NoCall]
  BY DEF SyncFails, At, Appending, Return, Goto, SelLog
<1>2. CASE ~Selects(p)
  <2>1. maybe' = maybe /\ "idle" \notin Appending
    BY <1>1, <1>2, SelectsIs DEF Unsure, Appending
  <2> QED BY <1>1, <2>1, AskedQuiet
<1>3. CASE Selects(p)
  <2>1. \A k \in Keys : Readings(SelLog', k) \subseteq maybe[k]
    BY <1>1 DEF Asked
  <2> QED BY <1>1, <1>3, <2>1, UnsureKeepsAsked
<1> QED BY <1>2, <1>3

(* The fsync works: the line is the only reading of its scope. *)
LEMMA SyncsKeepAsked ==
  ASSUME StoreTypes, OneAppends, Asked, NEW p \in Procs, AppendSyncs(p)
  PROVE  Asked'
<1>1. /\ pc[p] = "logsync" /\ pc[p] \in Appending
      /\ log' = [log EXCEPT ![call[p].log] = Synced(log[call[p].log])]
  BY DEF AppendSyncs, At, Appending
<1>2. \/ call[p].op = "put" /\ pc' = [pc EXCEPT ![p] = "unit"] /\ call' = call /\ maybe' = maybe
      \/ /\ call[p].op # "put"
         /\ pc' = [pc EXCEPT ![p] = "idle"] /\ call' = [call EXCEPT ![p] = NoCall]
         /\ maybe' = IF call[p].op = "select"
                     THEN [maybe EXCEPT ![call[p].text[1]] = {call[p].text[2]}] ELSE maybe
  BY DEF AppendSyncs, Return, Goto
<1>3. "unit" \notin Appending /\ "idle" \notin Appending
  BY DEF Appending
<1>4. CASE ~Selects(p)
  <2>1. call[p].log # "selection" /\ SelLog' = SelLog /\ call[p].op # "select" /\ maybe' = maybe
    BY <1>1, <1>2, <1>4, SelectsIs DEF Selects, SelLog, StoreTypes
  <2>2. \E l, x : l \notin Appending /\ pc' = [pc EXCEPT ![p] = l] /\ call' = [call EXCEPT ![p] = x]
    BY <1>2, <1>3, SameCall
  <2> QED BY <2>1, <2>2, AskedQuiet
<1>5. CASE Selects(p)
  <2> DEFINE t == call[p].text
             z == Len(SelLog.lines)
  <2>1. /\ t \in Text("selection") /\ t[1] \in Keys /\ IsLog(SelLog, Text("selection")) /\ call[p].op = "select"
        /\ call[p].op # "put"
    <3>1. call[p].op = "select" /\ t \in Text("selection") /\ t[1] \in Keys
      BY <1>1, <1>5, SelectsIs
    <3> QED BY <3>1, SelLogIs
  <2>2. SelLog' = Synced(SelLog)
    BY <1>1, <1>5 DEF Selects, SelLog, StoreTypes, LogNames
  <2>3. z \in 1..z /\ SelLog.lines[z] = [text |-> t, end |-> "nl"]
    BY <1>1, <1>5, <2>1, LogIs DEF Asked
  <2>5. \A k \in Keys : Readings(SelLog', k) = {SelectionOf(SelLog, z, k)}
    BY <2>1, <2>2, SyncedReadings
  <2>6. SelectionOf(SelLog, z, t[1]) = t[2]
    BY <2>1, <2>3, SelectionStep
  <2>7. \A k \in Keys : SelectionOf(SelLog, z, k) \in maybe[k]
    <3>1. z \in SelLog.hard..z
      BY <2>1, LogIs
    <3> QED BY <3>1 DEF Asked, Readings
  <2> HIDE DEF z, t
  <2>8. maybe' = [maybe EXCEPT ![t[1]] = {t[2]}] /\ pc' = [pc EXCEPT ![p] = "idle"] /\ call' = [call EXCEPT ![p] = NoCall]
    BY <1>2, <2>1 DEF t
  <2>9. \A k \in Keys : Readings(SelLog', k) \subseteq maybe'[k]
    BY <2>1, <2>5, <2>6, <2>7, <2>8 DEF Asked
  <2>10. \A q \in Procs : q # p => ~Selects(q)
    BY <1>5, OthersSelect
  <2> QED BY <1>3, <2>1, <2>8, <2>9, <2>10, AskedOwn
<1> QED BY <1>4, <1>5

(* An empty log reads as "auto". *)
LEMMA EmptyReads ==
  ASSUME NEW k
  PROVE  SelectionIn(EmptyLog, k) = AutoPin /\ Readings(EmptyLog, k) = {AutoPin}
<1>1. IsLog(EmptyLog, {}) /\ Len(EmptyLog.lines) = 0 /\ EmptyLog.hard = 0
  BY EmptyIs DEF EmptyLog
<1>2. Said(EmptyLog, 0, k) = {} /\ 0 \in 0..Len(EmptyLog.lines)
  BY <1>1 DEF Said
<1>3. SelectionOf(EmptyLog, 0, k) = AutoPin
  BY <1>1, <1>2, SelectionOfIs
<1>4. SelectionIn(EmptyLog, k) = SelectionOf(EmptyLog, 0, k)
  BY <1>1, SelectionWhole
<1> QED BY <1>1, <1>3, <1>4 DEF Readings

(* A power loss settles what was open, and makes it "auto" where it takes the log whole. *)
LEMMA LossKeepsAsked ==
  ASSUME StoreTypes, Asked, PowerLoss
  PROVE  Asked'
<1>1. /\ pc' = [p \in Procs |-> "idle"]
      /\ maybe' = [k \in Keys |-> IF Selection(k)' \in MayBeLeft(k) THEN {Selection(k)'} ELSE maybe[k]]
      /\ \/ SelLog' \in AfterLoss(SelLog)
         \/ SelLog' = EmptyLog /\ ~(rooted /\ "selection" \in named)
  BY LossIsOf DEF PowerLoss, SelLog, LogNames
<1>2. \A k \in Keys : Selection(k)' = SelectionIn(SelLog', k)
  BY DEF Selection, SelLog
<1>3. ASSUME NEW k \in Keys
      PROVE  Readings(SelLog', k) = {SelectionIn(SelLog', k)} /\ SelectionIn(SelLog', k) \in MayBeLeft(k)
  <2>1. CASE SelLog' \in AfterLoss(SelLog)
    <3>1. Readings(SelLog', k) = {SelectionIn(SelLog', k)} /\ SelectionIn(SelLog', k) \in Readings(SelLog, k)
      BY <2>1, SelLogIs, LossReadings
    <3> QED BY <3>1 DEF Asked, MayBeLeft
  <2>2. CASE SelLog' = EmptyLog /\ ~(rooted /\ "selection" \in named)
    <3>1. SelectionIn(EmptyLog, k) = AutoPin /\ Readings(EmptyLog, k) = {AutoPin}
      BY EmptyReads
    <3> QED BY <2>2, <3>1 DEF MayBeLeft
  <2> QED BY <1>1, <2>1, <2>2
<1>4. \A k \in Keys : Readings(SelLog', k) \subseteq maybe'[k]
  BY <1>1, <1>2, <1>3
<1>5. \A p \in Procs : ~Selects(p)'
  BY <1>1 DEF Selects, Appending
<1>6. DOMAIN maybe' = Keys /\ maybe' = [k \in Keys |-> maybe'[k]]
  BY <1>1
<1> QED BY <1>4, <1>5, <1>6 DEF Asked

(* The other steps leave selection.log alone. *)
LEMMA RestKeepsAsked ==
  ASSUME StoreTypes, Asked, NEW p \in Procs,
         LocalPut(p) \/ Import(p) \/ Hide(p) \/ Prepare(p) \/ WriteFile(p) \/ SyncDir(p) \/ Rename(p)
         \/ SyncParents(p) \/ InstallFails(p)
  PROVE  Asked'
<1>1. SelLog' = SelLog /\ maybe' = maybe
  BY DEF LocalPut, Import, Hide, Put, Begin, Prepare, WriteFile, SyncDir, Rename, SyncParents, InstallFails, Step, SelLog
<1>2. CASE LocalPut(p) \/ Import(p) \/ Hide(p)
  <2>1. \E l, x : x.log # "selection" /\ pc' = [pc EXCEPT ![p] = l] /\ call' = [call EXCEPT ![p] = x]
    <3>1. CASE LocalPut(p) \/ Import(p)
      BY <3>1 DEF LocalPut, Import, Put, Begin, Goto
    <3>2. CASE Hide(p)
      BY <3>2 DEF Hide, Begin, Goto
    <3> QED BY <1>2, <3>1, <3>2
  <2> QED BY <1>1, <2>1, AskedQuiet
<1>3. CASE Prepare(p) \/ WriteFile(p) \/ SyncDir(p) \/ Rename(p) \/ SyncParents(p) \/ InstallFails(p)
  <2>1. \E l : l \notin Appending /\ pc' = [pc EXCEPT ![p] = l]
    BY <1>3 DEF Prepare, WriteFile, SyncDir, Rename, SyncParents, InstallFails, Goto, Return, Appending
  <2>2. call' = call \/ call' = [call EXCEPT ![p] = NoCall]
    BY <1>3 DEF Prepare, WriteFile, SyncDir, Rename, SyncParents, InstallFails, Return
  <2>3. \E x : call' = [call EXCEPT ![p] = x]
    BY <2>2, SameCall
  <2> QED BY <1>1, <2>1, <2>3, AskedQuiet
<1> QED BY <1>2, <1>3

(* Every step keeps Asked. *)
LEMMA AskedKept == StoreTypes /\ OneAppends /\ Asked /\ [StoreNext]_storeVars => Asked'
<1>1. ASSUME Asked, SetLocalUnit \/ UNCHANGED storeVars PROVE Asked'
  <2>1. UNCHANGED <<log, pc, call, maybe>>
    BY <1>1 DEF SetLocalUnit, storeVars
  <2> QED BY <1>1, <2>1 DEF Asked, Selects, SelLog
<1> QED BY <1>1, SelectKeepsAsked, WritesKeepAsked, FailsKeepAsked, SyncFailsKeepsAsked, SyncsKeepAsked,
           LossKeepsAsked, RestKeepsAsked DEF StoreNext

(* Both hold at first: an empty log reads as "auto". *)
LEMMA AskedOpen == StoreInit => OneAppends /\ Asked
<1> SUFFICES ASSUME StoreInit PROVE OneAppends /\ Asked
  OBVIOUS
<1>1. /\ log = [l \in LogNames |-> EmptyLog] /\ pc = [p \in Procs |-> "idle"]
      /\ maybe = [k \in Keys |-> {AutoPin}]
  BY DEF StoreInit
<1>2. SelLog = EmptyLog /\ \A p \in Procs : pc[p] \notin Appending
  BY <1>1 DEF SelLog, LogNames, Appending
<1> QED BY <1>1, <1>2, EmptyReads DEF OneAppends, Asked, Selects

(* What is read now is one of the readings. *)
LEMMA AskedIs == StoreTypes /\ Asked => SelectionIsAsked
<1> SUFFICES ASSUME StoreTypes, Asked, NEW k \in Keys PROVE Selection(k) \in maybe[k]
  BY DEF SelectionIsAsked
<1>1. Selection(k) = SelectionOf(SelLog, Len(SelLog.lines), k)
  BY SelLogIs, SelectionWhole DEF Selection, SelLog
<1>2. Len(SelLog.lines) \in SelLog.hard..Len(SelLog.lines)
  BY SelLogIs, LogIs
<1> QED BY <1>1, <1>2 DEF Asked, Readings

-----------------------------------------------------------------------------

(* What the lines of a log may say, m being what was measured here. *)
Told(l, m) == CASE l = "local" -> {<<c>> : c \in m}
                [] l = "hidden" -> Cals \X BOOLEAN
                [] l = "selection" -> {x \in Keys \X (Cals \union {AutoPin}) : x[2] = AutoPin \/ Fits(x[2], x[1])}

(* The lines written and to be written are true: a selection fits its scope, an allowlisted entry was measured here. *)
LogsAreTrue ==
  /\ \A l \in LogNames : IsLog(log[l], Told(l, measured))
  /\ \A p \in Procs : pc[p] \in Appending => call[p].text \in Told(call[p].log, measured)

(* A log of what T allows is a log of what a larger set allows. *)
LEMMA IsLogGrows ==
  ASSUME NEW g, NEW T, NEW U, T \subseteq U, IsLog(g, T)
  PROVE  IsLog(g, U)
<1>1. [text : T, end : Ends] \subseteq [text : U, end : Ends]
  OBVIOUS
<1>2. g.lines \in Seq([text : T, end : Ends]) /\ g.hard \in Nat /\ g.hard <= Len(g.lines)
      /\ g \in [lines : Seq([text : T, end : Ends]), hard : Nat]
  BY DEF IsLog
<1>3. g.lines \in Seq([text : U, end : Ends])
  BY <1>1, <1>2, SeqMonotonic
<1>4. g = [lines |-> g.lines, hard |-> g.hard]
  BY <1>2
<1> QED BY <1>2, <1>3, <1>4 DEF IsLog

(* More measured, more to be said. *)
LEMMA ToldGrows ==
  ASSUME NEW l \in LogNames, NEW m, NEW n, m \subseteq n
  PROVE  Told(l, m) \subseteq Told(l, n)
BY DEF Told, LogNames

(* A call begins, or a process is done with its log. *)
LEMMA TrueBegins ==
  ASSUME StoreTypes, LogsAreTrue, NEW p \in Procs, NEW l, NEW x, log' = log, measured \subseteq measured',
         pc' = [pc EXCEPT ![p] = l], call' = [call EXCEPT ![p] = x],
         l \in Appending => x.text \in Told(x.log, measured')
  PROVE  LogsAreTrue'
<1>1. ASSUME NEW n \in LogNames PROVE IsLog(log[n], Told(n, measured'))
  <2>1. IsLog(log[n], Told(n, measured)) /\ Told(n, measured) \subseteq Told(n, measured')
    BY ToldGrows DEF LogsAreTrue
  <2> QED BY <2>1, IsLogGrows
<1>2. ASSUME NEW q \in Procs, pc'[q] \in Appending PROVE call'[q].text \in Told(call'[q].log, measured')
  <2>1. CASE q = p
    BY <1>2, <2>1 DEF StoreTypes
  <2>2. CASE q # p
    <3>1. pc'[q] = pc[q] /\ call'[q] = call[q]
      BY <2>2 DEF StoreTypes
    <3>2. call[q].log \in LogNames
      BY <1>2, <3>1, SelectsIs
    <3>3. Told(call[q].log, measured) \subseteq Told(call[q].log, measured')
      BY <3>2, ToldGrows
    <3> QED BY <1>2, <3>1, <3>3 DEF LogsAreTrue
  <2> QED BY <2>1, <2>2
<1> QED BY <1>1, <1>2 DEF LogsAreTrue

(* A log changes under a call. *)
LEMMA TrueAppends ==
  ASSUME StoreTypes, LogsAreTrue, NEW p \in Procs, pc[p] \in Appending, measured' = measured, NEW l, NEW h,
         pc' = [pc EXCEPT ![p] = l],
         call' = call \/ (l \notin Appending /\ \E x : call' = [call EXCEPT ![p] = x]),
         log' = [log EXCEPT ![call[p].log] = h], IsLog(h, Told(call[p].log, measured))
  PROVE  LogsAreTrue'
<1>1. ASSUME NEW n \in LogNames PROVE IsLog(log'[n], Told(n, measured))
  BY DEF LogsAreTrue, StoreTypes
<1>2. ASSUME NEW q \in Procs, pc'[q] \in Appending PROVE call'[q].text \in Told(call'[q].log, measured)
  <2>1. pc[q] \in Appending /\ call'[q] = call[q]
    BY <1>2 DEF StoreTypes
  <2> QED BY <2>1 DEF LogsAreTrue
<1> QED BY <1>1, <1>2 DEF LogsAreTrue

(* Calls begin: select checks its pin, and only a put of a new local entry joins local.log. *)
LEMMA BeginsKeepTrue ==
  ASSUME StoreTypes, LogsAreTrue, NEW p \in Procs, LocalPut(p) \/ Import(p) \/ Hide(p) \/ Select(p)
  PROVE  LogsAreTrue'
<1>1. CASE LocalPut(p) \/ Import(p)
  <2>1. PICK c \in Cals, isLocal \in BOOLEAN : Put(p, c, isLocal)
    BY <1>1 DEF LocalPut, Import
  <2> DEFINE x == [op |-> "put", cal |-> c, log |-> "local", text |-> <<c>>]
             joins(new) == JoinsLocalLog(c, isLocal, new)
  <2>2. PICK new \in {LooksNew(c), FALSE} :
          /\ call' = [call EXCEPT ![p] = x] /\ log' = log
          /\ measured' = IF isLocal /\ LooksNew(c) THEN measured \union {c} ELSE measured
          /\ pc' = [pc EXCEPT ![p] = IF joins(new) THEN "append" ELSE "unit"]
    BY <2>1 DEF Put, Begin, Goto
  <2>3. measured \subseteq measured'
    BY <2>2
  <2>4. x.text = <<c>> /\ x.log = "local"
    OBVIOUS
  <2>5. "unit" \notin Appending /\ "append" \in Appending
    BY DEF Appending
  <2>6. CASE joins(new)
    <3>1. new /\ isLocal
      BY <2>6 DEF JoinsLocalLog
    <3>2. LooksNew(c)
      BY <2>2, <3>1
    <3>3. c \in measured'
      BY <2>2, <3>1, <3>2
    <3>4. <<c>> \in Told("local", measured')
      BY <3>3 DEF Told
    <3>5. pc' = [pc EXCEPT ![p] = "append"]
      BY <2>2, <2>6
    <3>6. x.text \in Told(x.log, measured')
      BY <2>4, <3>4
    <3> HIDE DEF x, joins
    <3> QED BY <2>2, <2>3, <3>5, <3>6, TrueBegins
  <2>7. CASE ~joins(new)
    <3>1. pc' = [pc EXCEPT ![p] = "unit"]
      BY <2>2, <2>7
    <3> HIDE DEF x, joins
    <3> QED BY <2>2, <2>3, <2>5, <3>1, TrueBegins
  <2> QED BY <2>6, <2>7
<1>2. CASE Hide(p)
  <2>1. PICK c \in Listed, h \in BOOLEAN :
          /\ Begin(p, [op |-> "hide", log |-> "hidden", text |-> <<c, h>>]) /\ Goto(p, "append")
          /\ measured' = measured
    BY <1>2 DEF Hide
  <2> DEFINE x == [op |-> "hide", log |-> "hidden", text |-> <<c, h>>]
  <2>2. x.text \in Told(x.log, measured')
    BY DEF Told, Listed
  <2>3. log' = log /\ call' = [call EXCEPT ![p] = x] /\ pc' = [pc EXCEPT ![p] = "append"]
    BY <2>1 DEF Begin, Goto
  <2> HIDE DEF x
  <2> QED BY <2>1, <2>2, <2>3, TrueBegins
<1>3. CASE Select(p)
  <2>1. PICK k \in Keys, c \in Cals \union {AutoPin} :
          /\ Begin(p, [op |-> "select", log |-> "selection", text |-> <<k, c>>]) /\ Goto(p, "append")
          /\ measured' = measured /\ MaySelect(c, k)
    BY <1>3 DEF Select
  <2> DEFINE x == [op |-> "select", log |-> "selection", text |-> <<k, c>>]
  <2>2. x.text \in Told(x.log, measured')
    BY <2>1 DEF Told, MaySelect
  <2>3. log' = log /\ call' = [call EXCEPT ![p] = x] /\ pc' = [pc EXCEPT ![p] = "append"]
    BY <2>1 DEF Begin, Goto
  <2> HIDE DEF x
  <2> QED BY <2>1, <2>2, <2>3, TrueBegins
<1> QED BY <1>1, <1>2, <1>3

(* append_line writes what the call says. *)
LEMMA AppendsKeepTrue ==
  ASSUME StoreTypes, LogsAreTrue, NEW p \in Procs, AppendWrites(p) \/ AppendFails(p) \/ AppendSyncs(p) \/ SyncFails(p)
  PROVE  LogsAreTrue'
<1> DEFINE g == log[call[p].log]
           t == call[p].text
           T == Told(call[p].log, measured)
           m == Mended(g, MarkedBad)
<1>1. pc[p] \in Appending /\ measured' = measured
  BY DEF AppendWrites, AppendFails, AppendSyncs, SyncFails, At, Appending
<1>2. IsLog(g, T) /\ t \in T
  BY <1>1, SelectsIs DEF LogsAreTrue
<1>3. IsLog(m, T)
  BY <1>2, MendedIs, MarkedBadIs
<1>4. PICK l : pc' = [pc EXCEPT ![p] = l] /\ (call' = call \/ (l \notin Appending /\ \E x : call' = [call EXCEPT ![p] = x]))
  BY DEF AppendWrites, AppendFails, AppendSyncs, SyncFails, Goto, Return, Appending
<1>5. PICK h : /\ log' = [log EXCEPT ![call[p].log] = h]
               /\ h = g \/ h = m \/ h = Synced(g) \/ \E e \in Ends : h = Added(m, t, e)
  <2>1. CASE AppendWrites(p)
    BY <2>1 DEF AppendWrites, Ends
  <2>2. CASE AppendFails(p)
    <3>1. PICK h \in Spoiled(g, t, MarkedBad) : log' = [log EXCEPT ![call[p].log] = h]
      BY <2>2 DEF AppendFails
    <3>2. Torn \subseteq Ends
      BY DEF Torn, Ends
    <3>3. h = g \/ h = m \/ \E e \in Torn : h = Added(m, t, e)
      BY SpoiledIs
    <3> HIDE DEF g, m, t
    <3>4. h = g \/ h = m \/ \E e \in Ends : h = Added(m, t, e)
      BY <3>2, <3>3
    <3> QED BY <3>1, <3>4
  <2>3. CASE AppendSyncs(p)
    BY <2>3 DEF AppendSyncs
  <2>4. CASE SyncFails(p)
    <3>1. log' = [log EXCEPT ![call[p].log] = log[call[p].log]]
      BY <2>4 DEF SyncFails, StoreTypes
    <3> QED BY <3>1
  <2> QED BY <2>1, <2>2, <2>3, <2>4
<1> HIDE DEF g, t, m, T
<1>6. IsLog(h, T)
  BY <1>2, <1>3, <1>5, SyncedIs, AddedIs
<1> QED BY <1>1, <1>4, <1>5, <1>6, TrueAppends DEF T

(* Every step keeps LogsAreTrue. *)
LEMMA TrueKept == StoreTypes /\ LogsAreTrue /\ [StoreNext]_storeVars => LogsAreTrue'
<1>1. ASSUME LogsAreTrue, SetLocalUnit \/ UNCHANGED storeVars PROVE LogsAreTrue'
  <2>1. UNCHANGED <<log, pc, call, measured>>
    BY <1>1 DEF SetLocalUnit, storeVars
  <2> QED BY <1>1, <2>1 DEF LogsAreTrue
<1>2. ASSUME StoreTypes, LogsAreTrue, PowerLoss PROVE LogsAreTrue'
  <2>1. /\ pc' = [p \in Procs |-> "idle"] /\ measured' = measured
        /\ \A l \in LogNames : log'[l] \in AfterLoss(log[l]) \/ log'[l] = EmptyLog
    BY <1>2, LossIsOf
  <2>2. \A l \in LogNames : IsLog(log'[l], Told(l, measured))
    BY <1>2, <2>1, AfterLossIs, EmptyIs DEF LogsAreTrue
  <2> QED BY <2>1, <2>2 DEF LogsAreTrue, Appending
<1>3. ASSUME StoreTypes, LogsAreTrue, NEW p \in Procs,
             Prepare(p) \/ WriteFile(p) \/ SyncDir(p) \/ Rename(p) \/ SyncParents(p) \/ InstallFails(p)
      PROVE  LogsAreTrue'
  <2>1. \E l : l \notin Appending /\ pc' = [pc EXCEPT ![p] = l]
    BY <1>3 DEF Prepare, WriteFile, SyncDir, Rename, SyncParents, InstallFails, Goto, Return, Appending
  <2>2. call' = call \/ call' = [call EXCEPT ![p] = NoCall]
    BY <1>3 DEF Prepare, WriteFile, SyncDir, Rename, SyncParents, InstallFails, Return
  <2>3. \E x : call' = [call EXCEPT ![p] = x]
    BY <1>3, <2>2, SameCall
  <2>4. log' = log /\ measured' = measured
    BY <1>3 DEF Prepare, WriteFile, SyncDir, Rename, SyncParents, InstallFails, Step
  <2> QED BY <1>3, <2>1, <2>3, <2>4, TrueBegins
<1> QED BY <1>1, <1>2, <1>3, BeginsKeepTrue, AppendsKeepTrue DEF StoreNext

(* It holds at first. *)
LEMMA TrueOpen == StoreInit => LogsAreTrue
BY EmptyIs DEF StoreInit, LogsAreTrue, Appending

-----------------------------------------------------------------------------

(* Of finitely many calibrations one comes first. *)
LEMMA NewestIs ==
  ASSUME NEW S \in SUBSET Cals, S # {}
  PROVE  \E c \in S : \A d \in S \ {c} : Utc(c) > Utc(d)
<1> DEFINE Bad == {n \in Nat : \E R \in SUBSET Cals : /\ R # {} /\ Surjection(1..n, R) # {}
                                                      /\ ~\E c \in R : \A d \in R : Utc(c) >= Utc(d)}
<1>1. Bad = {}
  <2> SUFFICES ASSUME Bad # {} PROVE FALSE
    OBVIOUS
  <2>21. PICK n \in Bad : \A m \in Bad : n <= m
    <3>1. Bad \in SUBSET Nat
      OBVIOUS
    <3> HIDE DEF Bad
    <3> QED BY <3>1, WFNat
  <2>2. n \in Nat /\ \E R \in SUBSET Cals : /\ R # {} /\ Surjection(1..n, R) # {}
                                           /\ ~\E c \in R : \A d \in R : Utc(c) >= Utc(d)
    BY <2>21
  <2>3. PICK R \in SUBSET Cals : /\ R # {} /\ Surjection(1..n, R) # {}
                                /\ ~\E c \in R : \A d \in R : Utc(c) >= Utc(d)
    BY <2>2
  <2>4. PICK f \in Surjection(1..n, R) :
          R # {} /\ ~\E c \in R : \A d \in R : Utc(c) >= Utc(d)
    BY <2>3
  <2>5. n \in Nat /\ f \in [1..n -> R] /\ \A c \in R : \E i \in 1..n : f[i] = c
    BY <2>2, <2>4 DEF Surjection
  <2>6. n # 0
    <3>1. PICK c \in R : TRUE
      BY <2>4
    <3>2. PICK i \in 1..n : f[i] = c
      BY <2>5
    <3> QED BY <3>2
  <2>7. n # 0 /\ n - 1 \in Nat /\ n \in 1..n /\ 1..n = 1..(n - 1) \union {n}
    BY <2>5, <2>6
  <2> DEFINE Q == {f[i] : i \in 1..(n - 1)}
             e == [i \in 1..(n - 1) |-> f[i]]
  <2>8. \A i \in 1..n : f[i] \in R
    BY <2>5
  <2>9. Q \in SUBSET R /\ \A c \in R : c \in Q \/ c = f[n]
    BY <2>5, <2>7, <2>8
  <2>10. e \in [1..(n - 1) -> Q] /\ \A c \in Q : \E i \in 1..(n - 1) : e[i] = c
    OBVIOUS
  <2>11. Q \in SUBSET R /\ R = Q \union {f[n]} /\ e \in Surjection(1..(n - 1), Q)
    BY <2>7, <2>8, <2>9, <2>10 DEF Surjection
  <2>12. \A c \in R : Utc(c) \in Nat
    BY CalStoreAssumption
  <2>13. f[n] \in R
    BY <2>5, <2>7
  <2>14. Q # {}
    <3>1. SUFFICES ASSUME Q = {} PROVE FALSE
      OBVIOUS
    <3> HIDE DEF Q
    <3>2. R = {f[n]}
      BY <2>11, <3>1
    <3>3. Utc(f[n]) >= Utc(f[n])
      BY <2>12, <2>13
    <3> QED BY <2>4, <3>2, <3>3
  <2>15. n - 1 \notin Bad
    BY <2>21, <2>7
  <2>16. PICK c \in Q : \A d \in Q : Utc(c) >= Utc(d)
    <3>1. Q \in SUBSET Cals /\ Surjection(1..(n - 1), Q) # {}
      BY <2>11
    <3> HIDE DEF Q
    <3> QED BY <2>7, <2>14, <2>15, <3>1
  <2> HIDE DEF Q, Bad
  <2>17. \A d \in R : d \in Q \/ d = f[n]
    BY <2>11
  <2>18. CASE Utc(c) >= Utc(f[n])
    BY <2>4, <2>11, <2>16, <2>17, <2>18
  <2>19. CASE Utc(f[n]) >= Utc(c)
    BY <2>4, <2>11, <2>12, <2>13, <2>16, <2>17, <2>19
  <2> QED BY <2>11, <2>12, <2>13, <2>18, <2>19
<1>2. PICK n \in Nat : Surjection(1..n, S) # {}
  <2>1. IsFiniteSet(S)
    BY CalStoreAssumption, FS_Subset
  <2> QED BY <2>1, FS_NatSurjection DEF ExistsSurjection
<1>3. PICK c \in S : \A d \in S : Utc(c) >= Utc(d)
  BY <1>1, <1>2
<1>4. ASSUME NEW d \in S \ {c} PROVE Utc(c) > Utc(d)
  <2>1. Utc(c) \in Nat /\ Utc(d) \in Nat /\ Utc(c) # Utc(d)
    BY CalStoreAssumption
  <2> QED BY <1>3, <2>1
<1> QED BY <1>4

(* Of a non-empty set of entries one comes before all others: natives first, then the newest. *)
LEMMA NativesFirst ==
  ASSUME NEW S \in SUBSET Cals, S # {}
  PROVE  \E c \in S : \A d \in S \ {c} : Before(c, d)
<1> DEFINE N == {c \in S : ~Imported(c)}
<1>0. \A c \in S : Imported(c) \in BOOLEAN
  BY CalStoreAssumption
<1>1. CASE N # {}
  <2>1. PICK c \in N : \A d \in N \ {c} : Utc(c) > Utc(d)
    BY <1>1, NewestIs
  <2> QED BY <1>0, <2>1 DEF Before
<1>2. CASE N = {}
  <2>1. PICK c \in S : \A d \in S \ {c} : Utc(c) > Utc(d)
    BY NewestIs
  <2> QED BY <1>0, <1>2, <2>1 DEF Before
<1> QED BY <1>1, <1>2

(* So resolve's automatic choice is well-defined. *)
LEMMA PickIs ==
  ASSUME NEW k, AutoPick(k) # None
  PROVE  AutoPick(k) \in Eligible(k) /\ \A d \in Eligible(k) \ {AutoPick(k)} : Before(AutoPick(k), d)
<1>1. Eligible(k) # {}
  BY DEF AutoPick
<1>2. Eligible(k) \in SUBSET Cals
  BY DEF Eligible, Listed
<1>3. \E c \in Eligible(k) : \A d \in Eligible(k) \ {c} : Before(c, d)
  BY <1>1, <1>2, NativesFirst
<1> QED BY <1>1, <1>3 DEF AutoPick

(* A scope's own pin fits, because it did when it was made. *)
LEMMA PinFits ==
  ASSUME StoreTypes, LogsAreTrue, NEW k \in Keys, Selection(k) # AutoPin
  PROVE  Fits(Selection(k), k)
<1>1. IsLog(SelLog, Told("selection", measured))
  BY DEF LogsAreTrue, LogNames, SelLog
<1>2. PICK n \in InForce(SelLog, k) : Selection(k) = SelLog.lines[n].text[2]
  BY <1>1, LastSaidIs DEF Selection, SelectionIn, SelLog
<1>3. n \in 1..Len(SelLog.lines) /\ SelLog.lines[n].text[1] = k
  BY <1>1, <1>2, LogIs DEF InForce
<1>4. SelLog.lines[n].text \in Told("selection", measured)
  BY <1>1, <1>3, LogIs
<1> QED BY <1>2, <1>3, <1>4 DEF Told

(* What is on the allowlist was measured here. *)
LEMMA AllowedIsMeasured ==
  ASSUME LogsAreTrue, NEW c, InLocalLog(c)
  PROVE  c \in measured
<1>1. IsLog(log["local"], Told("local", measured))
  BY DEF LogsAreTrue, LogNames
<1>2. PICK n \in InForce(log["local"], c) : TRUE
  BY DEF InLocalLog
<1>3. n \in 1..Len(log["local"].lines) /\ log["local"].lines[n].text[1] = c
  BY <1>1, <1>2, LogIs DEF InForce
<1>4. log["local"].lines[n].text \in Told("local", measured)
  BY <1>1, <1>3, LogIs
<1> QED BY <1>3, <1>4 DEF Told

(* What resolve returns follows from the lines being true and from the order. *)
LEMMA ResolveHolds == StoreTypes /\ LogsAreTrue => ResolveIsSound
<1> SUFFICES ASSUME StoreTypes, LogsAreTrue, NEW k \in Keys, Resolve(k) # None
             PROVE  LET c == Resolve(k) IN
                      /\ ReadEntry(c) /\ Fits(c, k) /\ ~Foreign(c)
                      /\ c \notin {Selection(k), Selection(AllKey(k))} =>
                           /\ ~Hidden(c)
                           /\ Nameless => c \in measured
                           /\ \A d \in Listed : Before(d, c) =>
                                 Hidden(d) \/ ~Fits(d, k) \/ (Nameless /\ ~InLocalLog(d))
  BY DEF ResolveIsSound
<1>1. CASE Selection(k) # AutoPin
  <2>1. Resolve(k) = Selection(k) /\ PinOk(Selection(k))
    BY <1>1 DEF Resolve
  <2> QED BY <1>1, <2>1, PinFits DEF PinOk, Listed
<1>2. CASE Selection(k) = AutoPin /\ k.base # 0 /\ Selection(AllKey(k)) # AutoPin
           /\ PinOk(Selection(AllKey(k))) /\ Fits(Selection(AllKey(k)), k)
  <2>1. Resolve(k) = Selection(AllKey(k))
    BY <1>2 DEF Resolve
  <2> QED BY <1>2, <2>1 DEF PinOk, Listed
<1>3. CASE Selection(k) = AutoPin /\ ~(k.base # 0 /\ Selection(AllKey(k)) # AutoPin
           /\ PinOk(Selection(AllKey(k))) /\ Fits(Selection(AllKey(k)), k))
  <2>1. Resolve(k) = AutoPick(k)
    BY <1>3 DEF Resolve
  <2> DEFINE c == AutoPick(k)
  <2>2. c \in Eligible(k) /\ \A d \in Eligible(k) \ {c} : Before(c, d)
    BY <2>1, PickIs
  <2> HIDE DEF c
  <2>3. /\ c \in Cals /\ ReadEntry(c) /\ Fits(c, k) /\ ~Foreign(c) /\ ~Hidden(c)
        /\ Nameless => InLocalLog(c)
    BY <2>2 DEF Eligible, Listed
  <2>4. Nameless => c \in measured
    BY <2>3, AllowedIsMeasured
  <2>5. ASSUME NEW d \in Listed, Before(d, c), ~Hidden(d), Fits(d, k), Nameless => InLocalLog(d) PROVE FALSE
    <3>1. d \in Cals /\ Imported(c) \in BOOLEAN /\ Imported(d) \in BOOLEAN /\ Utc(c) \in Nat /\ Utc(d) \in Nat
      BY <2>3, CalStoreAssumption DEF Listed
    <3>2. ~Before(c, d) /\ d # c
      BY <2>5, <3>1 DEF Before
    <3>3. ~Foreign(d)
      BY <2>3, <2>5, <3>1 DEF Foreign, Before
    <3>4. d \in Eligible(k)
      BY <2>5, <3>3 DEF Eligible
    <3> QED BY <2>2, <3>2, <3>4
  <2>6. \A d \in Listed : Before(d, c) => Hidden(d) \/ ~Fits(d, k) \/ (Nameless /\ ~InLocalLog(d))
    BY <2>5
  <2> QED BY <2>1, <2>3, <2>4, <2>6 DEF c
<1> QED BY <1>1, <1>2, <1>3

(* SelectionIsSound: the selection that is read is one that was asked for, and what resolve returns is stored, *)
(* not foreign, fits, and if nobody pinned it is the first of what is allowed.                                 *)
THEOREM SelectionSound == StoreSpec => []SelectionIsSound
<1>1. StoreTypes /\ Asked /\ LogsAreTrue => SelectionIsSound
  BY AskedIs, ResolveHolds DEF SelectionIsSound
<1> QED BY <1>1, StoreTypesOpen, StoreTypesKept, AskedOpen, OneAppendsKept, AskedKept, TrueOpen, TrueKept, PTL DEF StoreSpec

-----------------------------------------------------------------------------
(* A roll read back                                                        *)

(* The lines of strip k from its line m up to, and without, its line n.    *)
Piece(k, m, n) == [i \in 1..(n - m) |-> Line(k, m + i - 1)]

(* The row of block b of strip k, and those of the blocks up to block b.   *)
RowOf(k, b) ==
  LET lines == Piece(k, (b - 1) * ROW, b * ROW)
  IN  [lines |-> lines, profile |-> IF b = 1 THEN SumsBefore(k) \o lines ELSE lines]
RowCount(k, b) == IF b < FirstRow(k) THEN 0 ELSE b + 1 - FirstRow(k)
RowsUpTo(k, b) == [i \in 1..RowCount(k, b) |-> RowOf(k, FirstRow(k) + i - 1)]

(* What feeding the first l lines of strip k comes to.                     *)
SumsAfter(k, l) ==
  LET b == l \div ROW IN IF b = 0 THEN SumsBefore(k) \o Piece(k, 0, l) ELSE Piece(k, b * ROW, l)
FedTo(k, l) ==
  [mean |-> Piece(k, 0, l), mean4 |-> [i \in 1..l |-> Piece(k, 0, i)], sums |-> SumsAfter(k, l),
   block |-> Piece(k, (l \div ROW) * ROW, l), rows |-> RowsUpTo(k, l \div ROW)]

(* Two functions that begin alike and go on alike are alike.               *)
LEMMA AlikeTo ==
  ASSUME NEW n \in Nat, NEW f, NEW g, f[0] = g[0],
         \A i \in 1..n : f[i - 1] = g[i - 1] => f[i] = g[i]
  PROVE  \A i \in 0..n : f[i] = g[i]
<1> DEFINE Off == {i \in 0..n : f[i] # g[i]}
<1>1. SUFFICES ASSUME Off # {} PROVE FALSE
  OBVIOUS
<1>2. Off \in SUBSET Nat
  OBVIOUS
<1>3. PICK m \in Off : \A j \in Off : m <= j
  BY <1>1, <1>2, WFNat
<1>4. m \in 1..n /\ m - 1 \in 0..n /\ ~(m <= m - 1)
  BY <1>3
<1>5. f[m - 1] = g[m - 1]
  BY <1>3, <1>4
<1> QED BY <1>3, <1>4, <1>5

(* A function may be defined by its first value and by what follows what.  *)
LEMMA FollowsOn ==
  ASSUME NEW S, NEW a \in S, NEW n \in Nat, NEW next \in [1..n -> [S -> S]]
  PROVE  \E f \in [0..n -> S] : f[0] = a /\ \A i \in 1..n : f[i] = next[i][f[i - 1]]
<1> DEFINE To(m) == \E f \in [0..m -> S] : f[0] = a /\ \A i \in 1..m : f[i] = next[i][f[i - 1]]
           Not == {m \in 0..n : ~To(m)}
<1>1. SUFFICES ASSUME Not # {} PROVE FALSE
  <2>1. ASSUME Not = {} PROVE To(n)
    <3>1. n \in 0..n
      OBVIOUS
    <3> QED BY <2>1, <3>1
  <2> QED BY <2>1
<1>2. Not \in SUBSET Nat
  OBVIOUS
<1>3. PICK m \in Not : \A j \in Not : m <= j
  BY <1>1, <1>2, WFNat
<1>4. m # 0
  <2>1. [x \in 0..0 |-> a] \in [0..0 -> S] /\ [x \in 0..0 |-> a][0] = a
    OBVIOUS
  <2>2. \A i \in 1..0 : [x \in 0..0 |-> a][i] = next[i][[x \in 0..0 |-> a][i - 1]]
    OBVIOUS
  <2>3. To(0)
    BY <2>1, <2>2
  <2> QED BY <1>3, <2>3
<1>5. m \in 1..n /\ m - 1 \in 0..n /\ ~(m <= m - 1)
  BY <1>3, <1>4
<1>6. PICK f \in [0..(m - 1) -> S] : f[0] = a /\ \A i \in 1..(m - 1) : f[i] = next[i][f[i - 1]]
  BY <1>3, <1>5
<1> DEFINE g == [i \in 0..m |-> IF i = m THEN next[m][f[m - 1]] ELSE f[i]]
<1>7. f[m - 1] \in S /\ next[m] \in [S -> S] /\ next[m][f[m - 1]] \in S
  BY <1>5, <1>6
<1>8. g \in [0..m -> S]
  BY <1>5, <1>6, <1>7
<1>9. g[0] = a /\ \A i \in 1..m : g[i] = next[i][g[i - 1]]
  BY <1>5, <1>6
<1>10. To(m)
  BY <1>8, <1>9
<1> QED BY <1>3, <1>10

(* What pk_roll_open has made sure of.                                     *)
RollOpens == sidecar \in ROLLS /\ size \in Nat /\ ~Corrupt

(* A strip's numbers.                                                      *)
LEMMA StripNumbers ==
  ASSUME RollOpens, NEW k \in Strips
  PROVE  /\ k \in 1..Len(sidecar) /\ Len(sidecar) \in Nat /\ Strips = 1..Len(sidecar)
         /\ sidecar[k].seg \in Nat /\ sidecar[k].start \in Nat /\ Pre(k) \in Nat /\ Lines(k) \in Nat
         /\ EndingLine(k) \in {0, 1} /\ Total(k) \in Nat /\ Total(k) = Pre(k) + Lines(k) + EndingLine(k)
<1>1. sidecar \in Seq([seg : Nat, start : Nat, end : Nat, ended : BOOLEAN, film : STRING])
  BY RollAssumption DEF RollOpens
<1>2. Strips = 1..Len(sidecar) /\ Len(sidecar) \in Nat
  BY <1>1 DEF Strips
<1>3. sidecar[k] \in [seg : Nat, start : Nat, end : Nat, ended : BOOLEAN, film : STRING]
  BY <1>1, <1>2, ElementOfSeq
<1>4. sidecar[k].seg \in Nat /\ sidecar[k].start \in Nat /\ sidecar[k].end \in Nat
  BY <1>3
<1>5. ~(sidecar[k].seg > sidecar[k].start)
  BY DEF RollOpens, Corrupt
<1>6. Pre(k) \in Nat
  BY <1>4, <1>5 DEF Pre
<1>7. Lines(k) \in Nat
  BY <1>4 DEF Lines, Lesser, RollOpens
<1>8. EndingLine(k) \in {0, 1}
  BY DEF EndingLine
<1> QED BY <1>2, <1>4, <1>6, <1>7, <1>8 DEF Total

(* ROW, and what dividing by it means.                                     *)
LEMMA Rows ==
  /\ ROW \in Nat \ {0}
  /\ \A n \in Nat : n \div ROW \in Nat /\ (n \div ROW) * ROW <= n /\ n < (n \div ROW) * ROW + ROW
<1>1. ROW \in Nat \ {0}
  BY RollAssumption
<1>2. \A n \in Nat, r \in Nat \ {0} : n \div r \in Nat /\ (n \div r) * r <= n /\ n < (n \div r) * r + r
  OBVIOUS
<1> QED BY <1>1, <1>2

(* A product of whole rows, one row more, and their order.                 *)
LEMMA RowsTimes ==
  /\ \A b \in Int : b * ROW \in Int /\ (b + 1) * ROW = b * ROW + ROW /\ (b - 1) * ROW = b * ROW - ROW
  /\ \A b \in Nat : b * ROW \in Nat
  /\ \A b, d \in Int : b <= d => b * ROW <= d * ROW
<1>1. PICK r \in Nat \ {0} : r = ROW
  BY Rows
<1>2. \A b \in Int : b * r \in Int /\ (b + 1) * r = b * r + r /\ (b - 1) * r = b * r - r
  OBVIOUS
<1>3. \A b \in Nat : b * r \in Nat
  OBVIOUS
<1>4. \A b, d \in Int : b <= d => b * r <= d * r
  <2>1. ASSUME NEW b \in Int, NEW d \in Int, b <= d PROVE b * r <= d * r
    <3>1. PICK x \in Nat : d = b + x
      BY <2>1
    <3>2. (b + x) * r = b * r + x * r /\ x * r \in Nat
      BY <3>1
    <3> QED BY <3>1, <3>2
  <2> QED BY <2>1
<1> QED BY <1>1, <1>2, <1>3, <1>4
 
(* One line more: in the same row, or the last of it.                      *)
LEMMA NextLine ==
  ASSUME NEW l \in Nat
  PROVE  LET b == l \div ROW
         IN  IF l + 1 - b * ROW < ROW THEN (l + 1) \div ROW = b
             ELSE (l + 1) \div ROW = b + 1 /\ (b + 1) * ROW = l + 1
<1>1. PICK r \in Nat \ {0} : r = ROW
  BY Rows
<1>2. PICK b \in Nat : b = l \div r /\ b * r <= l /\ l < b * r + r
  BY <1>1
<1>3. PICK d \in Nat : d = (l + 1) \div r /\ d * r <= l + 1 /\ l + 1 < d * r + r
  BY <1>1
<1>4. b <= d /\ d <= b + 1
  <2>1. ASSUME d < b PROVE FALSE
    <3>1. (d + 1) * ROW <= b * ROW /\ (d + 1) * ROW = d * ROW + ROW
      BY <2>1, RowsTimes
    <3> QED BY <1>1, <1>2, <1>3, <3>1
  <2>2. ASSUME b + 1 < d PROVE FALSE
    <3>1. (b + 2) * ROW <= d * ROW /\ (b + 1) * ROW = b * ROW + ROW /\ ((b + 1) + 1) * ROW = (b + 1) * ROW + ROW
      BY <2>2, RowsTimes
    <3> QED BY <1>1, <1>2, <1>3, <3>1
  <2> QED BY <2>1, <2>2
<1>5. ASSUME l + 1 - b * r < r PROVE d = b
  <2>1. ASSUME d = b + 1 PROVE FALSE
    <3>1. (b + 1) * ROW = b * ROW + ROW
      BY RowsTimes
    <3> QED BY <1>1, <1>3, <1>5, <2>1, <3>1
  <2> QED BY <1>4, <2>1
<1>6. ASSUME ~(l + 1 - b * r < r) PROVE d = b + 1 /\ (b + 1) * r = l + 1
  <2>1. (b + 1) * ROW = b * ROW + ROW
    BY RowsTimes
  <2>2. b * r + r = l + 1
    BY <1>1, <1>2, <1>6, <2>1
  <2>3. d # b
    BY <1>3, <2>2
  <2> QED BY <1>1, <1>4, <2>1, <2>2, <2>3
<1> QED BY <1>1, <1>2, <1>3, <1>5, <1>6

(* A piece, and one line more of it.                                       *)
LEMMA PieceIs ==
  ASSUME RollOpens, NEW k \in Strips, NEW m \in Nat, NEW n \in Nat, m <= n
  PROVE  /\ Piece(k, m, n) \in Seq(Int) /\ Len(Piece(k, m, n)) = n - m
         /\ Append(Piece(k, m, n), Line(k, n)) = Piece(k, m, n + 1)
         /\ Piece(k, m, m) = <<>>
<1>1. \A l \in Int : Line(k, l) \in Int
  BY StripNumbers DEF Line
<1>2. \A l \in Nat : m <= l => Piece(k, m, l) \in Seq(Int) /\ Len(Piece(k, m, l)) = l - m
  <2>1. ASSUME NEW l \in Nat, m <= l PROVE Piece(k, m, l) \in Seq(Int) /\ Len(Piece(k, m, l)) = l - m
    <3>1. PICK c \in Nat : c = l - m
      BY <2>1
    <3>2. Piece(k, m, l) \in [1..c -> Int]
      BY <1>1, <3>1 DEF Piece
    <3> QED BY <3>1, <3>2
  <2> QED BY <2>1
<1>3. Piece(k, m, n) \in Seq(Int) /\ Len(Piece(k, m, n)) = n - m
  BY <1>2
<1>4. Piece(k, m, n + 1) \in Seq(Int) /\ Len(Piece(k, m, n + 1)) = n + 1 - m
  BY <1>2
<1>5. Line(k, n) \in Int
  BY <1>1
<1>6. Append(Piece(k, m, n), Line(k, n)) \in Seq(Int) /\ Len(Append(Piece(k, m, n), Line(k, n))) = n + 1 - m
  BY <1>3, <1>5, AppendProperties
<1>7. \A i \in 1..(n + 1 - m) : Append(Piece(k, m, n), Line(k, n))[i] = Piece(k, m, n + 1)[i]
  <2>1. ASSUME NEW i \in 1..(n + 1 - m) PROVE Append(Piece(k, m, n), Line(k, n))[i] = Piece(k, m, n + 1)[i]
    <3>1. Append(Piece(k, m, n), Line(k, n))[i] = IF i <= n - m THEN Piece(k, m, n)[i] ELSE Line(k, n)
      BY <1>3, <1>5, AppendProperties
    <3>2. Piece(k, m, n + 1)[i] = Line(k, m + i - 1)
      BY DEF Piece
    <3>3. i <= n - m => Piece(k, m, n)[i] = Line(k, m + i - 1)
      BY DEF Piece
    <3>4. ~(i <= n - m) => m + i - 1 = n
      OBVIOUS
    <3> QED BY <3>1, <3>2, <3>3, <3>4
  <2> QED BY <2>1
<1>8. Piece(k, m, m) = <<>>
  BY <1>2, EmptySeq
<1> QED BY <1>3, <1>4, <1>6, <1>7, <1>8, SeqEqual

(* One more in what follows something else.                                *)
LEMMA AppendToTail ==
  ASSUME NEW s \in Seq(Int), NEW t \in Seq(Int), NEW x \in Int
  PROVE  Append(s \o t, x) = s \o Append(t, x)
<1>1. Append(t, x) = t \o <<x>> /\ <<x>> \in Seq(Int) /\ s \o t \in Seq(Int)
  <2>1. Append(t, x) = t \o <<x>>
    BY AppendIsConcat
  <2>2. <<x>> \in Seq(Int)
    OBVIOUS
  <2>3. s \o t \in Seq(Int)
    BY ConcatProperties
  <2> QED BY <2>1, <2>2, <2>3
<1>2. Append(s \o t, x) = (s \o t) \o <<x>>
  BY <1>1, AppendIsConcat
<1> QED BY <1>1, <1>2, ConcatAssociative

(* The first stored block is the first that ends on the film.              *)
LEMMA FirstRowIs ==
  ASSUME RollOpens, NEW k \in Strips
  PROVE  /\ FirstRow(k) \in Nat \ {0}
         /\ \A b \in Nat \ {0} : FirstRow(k) <= b <=> Film(k, b * ROW - 1)
<1>1. PICK p \in Nat : p = Pre(k)
  BY StripNumbers
<1>2. PICK q \in Nat : q = (p + 1) \div ROW /\ q * ROW <= p + 1 /\ p + 1 < q * ROW + ROW
  BY Rows
<1>3. FirstRow(k) = q + 1
  BY <1>1, <1>2 DEF FirstRow
<1>4. ASSUME NEW b \in Nat \ {0} PROVE q + 1 <= b <=> b * ROW - 1 >= p + 1
  <2>1. ASSUME q + 1 <= b PROVE b * ROW - 1 >= p + 1
    <3>1. (q + 1) * ROW <= b * ROW /\ (q + 1) * ROW = q * ROW + ROW /\ b * ROW \in Int /\ q * ROW \in Int
      BY <2>1, RowsTimes
    <3> QED BY <1>2, <3>1, Rows
  <2>2. ASSUME b <= q PROVE ~(b * ROW - 1 >= p + 1)
    <3>1. b * ROW <= q * ROW /\ b * ROW \in Int /\ q * ROW \in Int
      BY <2>2, RowsTimes
    <3> QED BY <1>2, <3>1
  <2> QED BY <2>1, <2>2
<1> QED BY <1>1, <1>3, <1>4 DEF Film

(* The rows, one block later.                                              *)
LEMMA RowsGrow ==
  ASSUME RollOpens, NEW k \in Strips, NEW b \in Nat
  PROVE  RowsUpTo(k, b + 1) = IF FirstRow(k) <= b + 1 THEN Append(RowsUpTo(k, b), RowOf(k, b + 1)) ELSE RowsUpTo(k, b)
<1>1. PICK f \in Nat \ {0} : f = FirstRow(k)
  BY FirstRowIs
<1>2. ASSUME b + 1 < f PROVE RowsUpTo(k, b + 1) = RowsUpTo(k, b)
  BY <1>1, <1>2 DEF RowsUpTo, RowCount
<1>3. ASSUME f <= b + 1 PROVE RowsUpTo(k, b + 1) = Append(RowsUpTo(k, b), RowOf(k, b + 1))
  <2>1. PICK c \in Nat : c = b + 1 - f
    BY <1>3
  <2>2. RowCount(k, b) = c /\ RowCount(k, b + 1) = c + 1 /\ f + (c + 1) - 1 = b + 1
    BY <1>1, <1>3, <2>1 DEF RowCount
  <2> DEFINE T == {RowOf(k, f + i - 1) : i \in 1..(c + 1)}
             s == [i \in 1..c |-> RowOf(k, f + i - 1)]
             t == [i \in 1..(c + 1) |-> RowOf(k, f + i - 1)]
  <2>3. s \in Seq(T) /\ Len(s) = c /\ t \in Seq(T) /\ Len(t) = c + 1
    <3>1. \A i \in 1..(c + 1) : RowOf(k, f + i - 1) \in T
      OBVIOUS
    <3> HIDE DEF T
    <3>2. \A i \in 1..c : i \in 1..(c + 1)
      OBVIOUS
    <3>3. s \in [1..c -> T]
      BY <3>1, <3>2
    <3>4. t \in [1..(c + 1) -> T] /\ c + 1 \in Nat
      BY <3>1
    <3>5. \A n \in Nat : \A z \in [1..n -> T] : z \in Seq(T) /\ Len(z) = n
      OBVIOUS
    <3> HIDE DEF s, t
    <3> QED BY <3>3, <3>4, <3>5
  <2>4. RowOf(k, b + 1) \in T /\ t[c + 1] = RowOf(k, b + 1)
    BY <2>2
  <2> HIDE DEF T
  <2>5. Append(s, RowOf(k, b + 1)) \in Seq(T) /\ Len(Append(s, RowOf(k, b + 1))) = c + 1
    BY <2>3, <2>4, AppendProperties
  <2>6. \A i \in 1..(c + 1) : Append(s, RowOf(k, b + 1))[i] = t[i]
    <3>1. ASSUME NEW i \in 1..(c + 1) PROVE Append(s, RowOf(k, b + 1))[i] = t[i]
      <4>1. Append(s, RowOf(k, b + 1))[i] = IF i <= c THEN s[i] ELSE RowOf(k, b + 1)
        BY <2>3, <2>4, AppendProperties
      <4>2. i <= c => s[i] = t[i]
        OBVIOUS
      <4>3. ~(i <= c) => i = c + 1
        OBVIOUS
      <4> QED BY <2>4, <4>1, <4>2, <4>3
    <3> QED BY <3>1
  <2>7. Append(s, RowOf(k, b + 1)) = t
    BY <2>3, <2>5, <2>6, SeqEqual
  <2>8. RowsUpTo(k, b) = s /\ RowsUpTo(k, b + 1) = t
    BY <1>1, <2>2 DEF RowsUpTo
  <2> QED BY <2>7, <2>8
<1>4. b + 1 < f \/ f <= b + 1
  OBVIOUS
<1>5. b + 1 < f => ~(f <= b + 1)
  OBVIOUS
<1> QED BY <1>1, <1>2, <1>3, <1>4, <1>5

(* Feeding one line more.                                                  *)
LEMMA FeedStep ==
  ASSUME RollOpens, NEW k \in Strips, SumsBefore(k) \in Seq(Int), NEW l \in Nat
  PROVE  FeedLine(k, FedTo(k, l), l) = FedTo(k, l + 1)
<1>1. PICK b \in Nat : b = l \div ROW /\ b * ROW <= l /\ b * ROW \in Nat
  BY Rows, RowsTimes
<1>2. PICK r \in Nat \ {0} : r = ROW
  BY Rows
<1>3. PICK h \in Nat : h = b * ROW
  BY <1>1
<1> DEFINE x == Line(k, l)
           before == FedTo(k, l)
           mean == Piece(k, 0, l + 1)
           sums == Append(before.sums, x)
           block == Piece(k, h, l + 1)
<1>4. /\ before.mean = Piece(k, 0, l) /\ before.mean4 = [i \in 1..l |-> Piece(k, 0, i)] /\ before.sums = SumsAfter(k, l)
      /\ before.block = Piece(k, h, l) /\ before.rows = RowsUpTo(k, b)
      /\ before = [mean |-> before.mean, mean4 |-> before.mean4, sums |-> before.sums, block |-> before.block, rows |-> before.rows]
  BY <1>1, <1>3 DEF FedTo
<1>5. x \in Int
  BY StripNumbers DEF Line
<1>13. /\ Append(Piece(k, 0, l), x) = mean
       /\ Append(Piece(k, h, l), x) = block /\ Len(block) = l + 1 - h /\ block \in Seq(Int)
  <2>1. 0 <= l /\ h <= l /\ h <= l + 1 /\ l + 1 \in Nat /\ 0 \in Nat
    BY <1>1, <1>3
  <2>2. Append(Piece(k, 0, l), Line(k, l)) = Piece(k, 0, l + 1)
    BY <2>1, PieceIs
  <2>3. Append(Piece(k, h, l), Line(k, l)) = Piece(k, h, l + 1)
    BY <2>1, PieceIs
  <2>4. Piece(k, h, l + 1) \in Seq(Int) /\ Len(Piece(k, h, l + 1)) = l + 1 - h
    BY <2>1, PieceIs
  <2> QED BY <2>2, <2>3, <2>4
<1>6. MeanAfter(before.mean, x) = mean
  <2> HIDE DEF before, x, mean
  <2> QED BY <1>4, <1>13 DEF MeanAfter
<1>7. Append(before.mean4, mean) = [i \in 1..(l + 1) |-> Piece(k, 0, i)]
  <2> DEFINE s == [i \in 1..l |-> Piece(k, 0, i)]
             t == [i \in 1..(l + 1) |-> Piece(k, 0, i)]
  <2>1. \A i \in 1..(l + 1) : Piece(k, 0, i) \in Seq(Int)
    BY PieceIs
  <2>2. \A n \in Nat : \A z \in [1..n -> Seq(Int)] : z \in Seq(Seq(Int)) /\ Len(z) = n
    OBVIOUS
  <2>3. s \in [1..l -> Seq(Int)] /\ t \in [1..(l + 1) -> Seq(Int)] /\ l + 1 \in Nat
    BY <2>1
  <2>4. s \in Seq(Seq(Int)) /\ Len(s) = l /\ t \in Seq(Seq(Int)) /\ Len(t) = l + 1
    <3> HIDE DEF s, t
    <3> QED BY <2>2, <2>3
  <2>5. mean \in Seq(Int) /\ t[l + 1] = mean
    BY <2>1
  <2>6. \A i \in 1..l : s[i] = t[i]
    OBVIOUS
  <2> HIDE DEF s, t, mean
  <2>7. Append(s, mean) \in Seq(Seq(Int)) /\ Len(Append(s, mean)) = l + 1
        /\ \A i \in 1..(l + 1) : Append(s, mean)[i] = IF i <= l THEN s[i] ELSE mean
    BY <2>4, <2>5, AppendProperties
  <2>8. \A i \in 1..(l + 1) : Append(s, mean)[i] = t[i]
    <3>1. ASSUME NEW i \in 1..(l + 1) PROVE Append(s, mean)[i] = t[i]
      <4>1. i <= l => i \in 1..l
        OBVIOUS
      <4>2. ~(i <= l) => i = l + 1
        OBVIOUS
      <4> QED BY <2>5, <2>6, <2>7, <4>1, <4>2
    <3> QED BY <3>1
  <2>9. Append(s, mean) = t
    BY <2>4, <2>7, <2>8, SeqEqual
  <2> USE DEF s, t
  <2> QED BY <1>4, <2>9
<1>8. Append(before.block, x) = block /\ Len(block) = l + 1 - h /\ block \in Seq(Int)
  <2> HIDE DEF before, x, block
  <2> QED BY <1>4, <1>13
<1>9. sums = IF b = 0 THEN SumsBefore(k) \o Piece(k, 0, l + 1) ELSE block
  <2>1. Piece(k, 0, l) \in Seq(Int) /\ Append(Piece(k, 0, l), x) = Piece(k, 0, l + 1)
    BY PieceIs
  <2>2. before.sums = IF b = 0 THEN SumsBefore(k) \o Piece(k, 0, l) ELSE Piece(k, h, l)
    BY <1>1, <1>3, <1>4 DEF SumsAfter
  <2>3. ASSUME b = 0 PROVE sums = SumsBefore(k) \o Piece(k, 0, l + 1)
    BY <1>5, <2>1, <2>2, <2>3, AppendToTail
  <2>4. ASSUME b # 0 PROVE sums = block
    BY <1>4, <1>8, <2>2, <2>4
  <2> QED BY <2>3, <2>4
<1>14. Len(block) <= ROW
  BY <1>1, <1>3, <1>13, Rows
<1>10. FeedLine(k, before, l) =
         IF Len(block) < ROW
         THEN [mean |-> mean, mean4 |-> [i \in 1..(l + 1) |-> Piece(k, 0, i)], sums |-> sums, block |-> block, rows |-> RowsUpTo(k, b)]
         ELSE [mean |-> mean, mean4 |-> [i \in 1..(l + 1) |-> Piece(k, 0, i)], sums |-> <<>>, block |-> <<>>,
               rows |-> IF Film(k, l) THEN Append(RowsUpTo(k, b), [lines |-> block, profile |-> sums]) ELSE RowsUpTo(k, b)]
  <2>1. Len(block) < ROW <=> ~(Len(block) = ROW)
    BY <1>13, <1>14, <1>2
  <2>2. FeedLine(k, before, l) =
          LET full == Len(block) = ROW
          IN  [mean |-> mean, mean4 |-> [i \in 1..(l + 1) |-> Piece(k, 0, i)],
               sums |-> IF full THEN <<>> ELSE sums, block |-> IF full THEN <<>> ELSE block,
               rows |-> IF full /\ Film(k, l) THEN Append(RowsUpTo(k, b), [lines |-> block, profile |-> sums]) ELSE RowsUpTo(k, b)]
    <3> HIDE DEF before, mean, block
    <3> QED BY <1>4, <1>6, <1>7, <1>8 DEF FeedLine
  <2> HIDE DEF mean, sums, block, before
  <2> QED BY <2>1, <2>2
<1>11. ASSUME Len(block) < ROW PROVE FeedLine(k, before, l) = FedTo(k, l + 1)
  <2>1. (l + 1) \div ROW = b
    BY <1>1, <1>3, <1>8, <1>11, NextLine
  <2>2. SumsAfter(k, l + 1) = sums
    BY <1>3, <1>9, <2>1 DEF SumsAfter
  <2>3. FedTo(k, l + 1) = [mean |-> mean, mean4 |-> [i \in 1..(l + 1) |-> Piece(k, 0, i)], sums |-> sums, block |-> block, rows |-> RowsUpTo(k, b)]
    <3> HIDE DEF sums, before
    <3> QED BY <1>3, <2>1, <2>2 DEF FedTo
  <2> HIDE DEF mean, sums, block, before
  <2> QED BY <1>10, <1>11, <2>3
<1>12. ASSUME ~(Len(block) < ROW) PROVE FeedLine(k, before, l) = FedTo(k, l + 1)
  <2>1. (l + 1) \div ROW = b + 1 /\ (b + 1) * ROW = l + 1
    BY <1>1, <1>3, <1>8, <1>12, NextLine
  <2>2. Piece(k, (b + 1) * ROW, l + 1) = <<>>
    BY <2>1, PieceIs
  <2>3. SumsAfter(k, l + 1) = <<>>
    BY <2>1, <2>2, b + 1 # 0 DEF SumsAfter
  <2>4. RowOf(k, b + 1) = [lines |-> block, profile |-> sums]
    <3>1. (b + 1) - 1 = b /\ ((b + 1) = 1 <=> b = 0)
      OBVIOUS
    <3>2. b = 0 => h = 0
      BY <1>2, <1>3
    <3> HIDE DEF sums
    <3> QED BY <1>3, <1>9, <2>1, <3>1, <3>2 DEF RowOf
  <2>5. FirstRow(k) <= b + 1 <=> Film(k, l)
    <3>1. FirstRow(k) <= b + 1 <=> Film(k, (b + 1) * ROW - 1)
      BY FirstRowIs, b + 1 \in Nat \ {0}
    <3>2. (b + 1) * ROW - 1 = l
      BY <2>1
    <3> QED BY <3>1, <3>2
  <2>6. RowsUpTo(k, b + 1) = IF Film(k, l) THEN Append(RowsUpTo(k, b), [lines |-> block, profile |-> sums]) ELSE RowsUpTo(k, b)
    <3> HIDE DEF sums, block
    <3> QED BY <2>4, <2>5, RowsGrow
  <2>7. FedTo(k, l + 1) = [mean |-> mean, mean4 |-> [i \in 1..(l + 1) |-> Piece(k, 0, i)], sums |-> <<>>, block |-> <<>>, rows |-> RowsUpTo(k, b + 1)]
    BY <2>1, <2>2, <2>3 DEF FedTo
  <2> HIDE DEF mean, sums, block, before
  <2> QED BY <1>10, <1>12, <2>6, <2>7
<1> QED BY <1>11, <1>12

(* The first n lines of a strip, fed one after the other.                  *)
LEMMA FedIs ==
  ASSUME RollOpens, NEW k \in Strips, SumsBefore(k) \in Seq(Int), NEW n \in Nat
  PROVE  Fed(k, n) = FedTo(k, n)
<1> DEFINE Follows(f) == f = [l \in 0..n |-> IF l = 0 THEN Fresh(k) ELSE FeedLine(k, f[l - 1], l - 1)]
           g == [l \in 0..n |-> FedTo(k, l)]
<1>1. FedTo(k, 0) = Fresh(k)
  <2>1. 0 \div ROW = 0 /\ 0 * ROW = 0
    BY Rows
  <2>2. Piece(k, 0, 0) = <<>>
    BY PieceIs
  <2>3. RowsUpTo(k, 0) = <<>> /\ [i \in 1..0 |-> Piece(k, 0, i)] = <<>>
    BY FirstRowIs DEF RowsUpTo, RowCount
  <2>4. SumsBefore(k) \o <<>> = SumsBefore(k)
    BY ConcatEmptySeq
  <2> QED BY <2>1, <2>2, <2>3, <2>4 DEF FedTo, SumsAfter, Fresh
<1>2. \A l \in 1..n : FedTo(k, l) = FeedLine(k, FedTo(k, l - 1), l - 1)
  <2>1. ASSUME NEW l \in 1..n PROVE FedTo(k, l) = FeedLine(k, FedTo(k, l - 1), l - 1)
    <3>1. l - 1 \in Nat /\ (l - 1) + 1 = l
      OBVIOUS
    <3> QED BY <3>1, FeedStep
  <2> QED BY <2>1
<1>3. Follows(g)
  <2>1. \A l \in 0..n : g[l] = IF l = 0 THEN Fresh(k) ELSE FeedLine(k, g[l - 1], l - 1)
    <3>1. \A l \in 0..n : l # 0 => l \in 1..n /\ l - 1 \in 0..n
      OBVIOUS
    <3> QED BY <1>1, <1>2, <3>1
  <2> QED BY <2>1
<1>4. PICK f : f = FedLines(k, n)
  OBVIOUS
<1>5. Follows(f)
  <2>1. f = CHOOSE h : Follows(h)
    BY <1>4 DEF FedLines
  <2> HIDE DEF Follows, g
  <2> QED BY <1>3, <2>1
<1>6. f[0] = g[0] /\ \A i \in 1..n : f[i - 1] = g[i - 1] => f[i] = g[i]
  <2>1. \A l \in 0..n : f[l] = IF l = 0 THEN Fresh(k) ELSE FeedLine(k, f[l - 1], l - 1)
    BY <1>5
  <2>2. 0 \in 0..n /\ \A i \in 1..n : i \in 0..n /\ i # 0 /\ i - 1 \in 0..n
    OBVIOUS
  <2> HIDE DEF Follows
  <2>3. f[0] = g[0]
    BY <1>1, <2>1, <2>2
  <2>4. ASSUME NEW i \in 1..n, f[i - 1] = g[i - 1] PROVE f[i] = g[i]
    <3>1. f[i] = FeedLine(k, f[i - 1], i - 1)
      BY <2>1, <2>2
    <3>2. g[i] = FeedLine(k, g[i - 1], i - 1)
      BY <1>2, <2>2
    <3> QED BY <2>4, <3>1, <3>2
  <2> QED BY <2>3, <2>4
<1>7. f[n] = g[n]
  <2>1. n \in 0..n
    OBVIOUS
  <2> HIDE DEF g, Follows
  <2>2. PICK h : h = g
    OBVIOUS
  <2>3. f[0] = h[0]
    BY <1>6, <2>2
  <2>4. \A i \in 1..n : f[i - 1] = h[i - 1] => f[i] = h[i]
    BY <1>6, <2>2
  <2>5. \A i \in 0..n : f[i] = h[i]
    BY <2>3, <2>4, AlikeTo, ZenonT(30)
  <2> QED BY <2>1, <2>2, <2>5
<1> QED BY <1>4, <1>7 DEF Fed

(* The lines of the single pass.                                           *)
LineCount(k) == IF Lines(k) = 0 THEN 0 ELSE Total(k)

(* The single pass's lines, and any stretch of them, as pieces of the strip. *)
LEMMA LineSeqIs ==
  ASSUME RollOpens, NEW k \in Strips
  PROVE  /\ LineCount(k) \in Nat /\ LineSeq(k) = Piece(k, 0, LineCount(k)) /\ Len(LineSeq(k)) = LineCount(k)
         /\ \A m, n \in Nat : m <= n /\ n <= LineCount(k) => SubSeq(LineSeq(k), m + 1, n) = Piece(k, m, n)
<1>1. PICK c \in Nat : c = LineCount(k)
  BY StripNumbers DEF LineCount
<1>2. LineSeq(k) = Piece(k, 0, c)
  BY <1>1 DEF LineSeq, LineCount, Piece
<1>3. Len(Piece(k, 0, c)) = c /\ Piece(k, 0, c) \in Seq(Int)
  BY PieceIs
<1>4. ASSUME NEW m \in Nat, NEW n \in Nat, m <= n, n <= c PROVE SubSeq(Piece(k, 0, c), m + 1, n) = Piece(k, m, n)
  <2> DEFINE p == Piece(k, 0, c)
  <2>1. Piece(k, m, n) \in Seq(Int) /\ Len(Piece(k, m, n)) = n - m
    BY <1>4, PieceIs
  <2>2. \A i \in (m + 1)..n : i \in 1..c /\ p[i] = Line(k, i - 1) /\ Line(k, i - 1) \in Int
    BY <1>4, StripNumbers DEF Piece, Line
  <2>3. SubSeq(p, m + 1, n) \in Seq(Int) /\ Len(SubSeq(p, m + 1, n)) = n - m
        /\ \A i \in 1..(n - m) : SubSeq(p, m + 1, n)[i] = p[m + i]
    <3> HIDE DEF p
    <3> QED BY <1>4, <2>2, SubSeqProperties
  <2>4. \A i \in 1..(n - m) : Piece(k, m, n)[i] = Line(k, m + i - 1) /\ m + i \in (m + 1)..n
    BY DEF Piece
  <2> HIDE DEF p
  <2>5. \A i \in 1..(n - m) : SubSeq(p, m + 1, n)[i] = Piece(k, m, n)[i]
    BY <2>2, <2>3, <2>4
  <2>6. PICK s \in Seq(Int), t \in Seq(Int) : s = SubSeq(p, m + 1, n) /\ t = Piece(k, m, n)
    BY <2>1, <2>3
  <2>7. Len(s) = n - m /\ Len(t) = n - m /\ \A i \in 1..(n - m) : s[i] = t[i]
    BY <2>1, <2>3, <2>5, <2>6
  <2>8. s = t
    BY <2>7, SeqEqual
  <2> USE DEF p
  <2> QED BY <2>6, <2>8
<1> QED BY <1>1, <1>2, <1>3, <1>4

(* Its blocks, and what is left over, likewise.                            *)
LEMMA BlocksAre ==
  ASSUME RollOpens, NEW k \in Strips
  PROVE  /\ Blocks(k) = LineCount(k) \div ROW /\ Blocks(k) \in Nat
         /\ Rest(k) = Piece(k, Blocks(k) * ROW, LineCount(k)) /\ Rest(k) \in Seq(Int)
         /\ \A b \in 1..Blocks(k) : Block(k, b) = Piece(k, (b - 1) * ROW, b * ROW)
<1>1. PICK c \in Nat : c = LineCount(k)
  BY LineSeqIs
<1>2. Blocks(k) = c \div ROW
  BY <1>1, LineSeqIs DEF Blocks
<1>3. PICK d \in Nat : d = Blocks(k) /\ d * ROW <= c /\ d * ROW \in Nat
  BY <1>2, Rows, RowsTimes
<1>4. Rest(k) = Piece(k, d * ROW, c)
  <2>1. \A m \in Nat : m <= c => SubSeq(LineSeq(k), m + 1, c) = Piece(k, m, c)
    <3>1. ASSUME NEW m \in Nat, m <= c PROVE SubSeq(LineSeq(k), m + 1, c) = Piece(k, m, c)
      <4>1. c <= LineCount(k)
        BY <1>1
      <4> QED BY <1>1, <3>1, <4>1, LineSeqIs
    <3> QED BY <3>1
  <2> QED BY <1>1, <1>3, <2>1, LineSeqIs DEF Rest
<1>5. Piece(k, d * ROW, c) \in Seq(Int)
  BY <1>3, PieceIs
<1>6. ASSUME NEW b \in 1..d PROVE Block(k, b) = Piece(k, (b - 1) * ROW, b * ROW)
  <2>1. /\ (b - 1) * ROW \in Nat /\ b * ROW \in Nat /\ (b - 1) * ROW <= b * ROW /\ b * ROW <= d * ROW
    BY RowsTimes
  <2>2. PICK m \in Nat, n \in Nat : m = (b - 1) * ROW /\ n = b * ROW
    BY <2>1
  <2>3. m <= n /\ n <= c
    BY <1>3, <2>1, <2>2
  <2>4. SubSeq(LineSeq(k), m + 1, n) = Piece(k, m, n)
    BY <1>1, <2>3, LineSeqIs
  <2> QED BY <2>2, <2>4 DEF Block
<1> QED BY <1>1, <1>2, <1>3, <1>4, <1>5, <1>6

(* What each strip leaves in the sums.                                     *)
LEMMA LeftIs ==
  ASSUME RollOpens
  PROVE  /\ Left[0] = <<>> /\ \A k \in 0..Len(sidecar) : Left[k] \in Seq(Int)
         /\ \A k \in Strips : Left[k] = IF Blocks(k) = 0 THEN Left[k - 1] \o Rest(k) ELSE Rest(k)
<1> DEFINE Follows(f) == f = [k \in 0..Len(sidecar) |-> IF k = 0 THEN <<>> ELSE IF Blocks(k) = 0 THEN f[k - 1] \o Rest(k) ELSE Rest(k)]
<1>1. PICK n \in Nat : n = Len(sidecar) /\ Strips = 1..n
  <2>1. sidecar \in Seq([seg : Nat, start : Nat, end : Nat, ended : BOOLEAN, film : STRING])
    BY RollAssumption DEF RollOpens
  <2> QED BY <2>1 DEF Strips
<1> DEFINE next == [k \in 1..n |-> [s \in Seq(Int) |-> IF Blocks(k) = 0 THEN s \o Rest(k) ELSE Rest(k)]]
<1>2. next \in [1..n -> [Seq(Int) -> Seq(Int)]]
  <2>1. ASSUME NEW k \in 1..n, NEW s \in Seq(Int) PROVE (IF Blocks(k) = 0 THEN s \o Rest(k) ELSE Rest(k)) \in Seq(Int)
    BY <1>1, BlocksAre, ConcatProperties
  <2> QED BY <2>1
<1>3. <<>> \in Seq(Int)
  BY EmptySeq
<1>4. PICK g : g \in [0..n -> Seq(Int)] /\ g[0] = <<>> /\ \A i \in 1..n : g[i] = next[i][g[i - 1]]
  <2>1. PICK S : S = Seq(Int)
    OBVIOUS
  <2>2. PICK e \in S : e = <<>>
    BY <1>3, <2>1
  <2>3. PICK follow \in [1..n -> [S -> S]] : follow = next
    BY <1>2, <2>1
  <2>4. \E g \in [0..n -> S] : g[0] = e /\ \A i \in 1..n : g[i] = follow[i][g[i - 1]]
    BY <1>1, FollowsOn
  <2> HIDE DEF next
  <2> QED BY <2>1, <2>2, <2>3, <2>4
<1>5. \A i \in 1..n : g[i - 1] \in Seq(Int) /\ g[i] = IF Blocks(i) = 0 THEN g[i - 1] \o Rest(i) ELSE Rest(i)
  <2>1. \A i \in 1..n : i - 1 \in 0..n
    OBVIOUS
  <2> QED BY <1>4, <2>1
<1> HIDE DEF next
<1>6. Follows(g)
  <2>1. \A i \in 0..n : g[i] = IF i = 0 THEN <<>> ELSE IF Blocks(i) = 0 THEN g[i - 1] \o Rest(i) ELSE Rest(i)
    <3>1. \A i \in 0..n : i # 0 => i \in 1..n
      OBVIOUS
    <3> QED BY <1>4, <1>5, <3>1
  <2> QED BY <1>1, <1>4, <2>1
<1>7. Follows(Left)
  <2>1. Left = CHOOSE h : Follows(h)
    BY DEF Left
  <2> HIDE DEF Follows
  <2> QED BY <1>6, <2>1
<1>8. \A i \in 0..n : Left[i] = IF i = 0 THEN <<>> ELSE IF Blocks(i) = 0 THEN Left[i - 1] \o Rest(i) ELSE Rest(i)
  BY <1>1, <1>7
<1> HIDE DEF Follows
<1>9. Left[0] = <<>> /\ \A i \in 1..n : Left[i] = IF Blocks(i) = 0 THEN Left[i - 1] \o Rest(i) ELSE Rest(i)
  <2>1. 0 \in 0..n /\ \A i \in 1..n : i \in 0..n /\ i # 0
    OBVIOUS
  <2> QED BY <1>8, <2>1
<1>10. \A i \in 0..n : Left[i] = g[i]
  <2>1. \A i \in 1..n : Left[i - 1] = g[i - 1] => Left[i] = g[i]
    BY <1>5, <1>9
  <2>2. Left[0] = g[0]
    BY <1>4, <1>9
  <2>3. PICK f : f = Left
    OBVIOUS
  <2>4. f[0] = g[0] /\ \A i \in 1..n : f[i - 1] = g[i - 1] => f[i] = g[i]
    BY <2>1, <2>2, <2>3
  <2>5. \A i \in 0..n : f[i] = g[i]
    BY <2>4, AlikeTo
  <2> QED BY <2>3, <2>5
<1> QED BY <1>1, <1>4, <1>9, <1>10

(* A strip as the single pass has it.                                      *)
StripIs(s, k) ==
  /\ s.decoded /\ s.rows = RowsOf(k) /\ s.sums_end = Left[k] /\ s.frames = FramesOf(k)
  /\ Lines(k) > 0 => s.mean4 = [i \in 1..Total(k) |-> Piece(k, 0, i)]

(* A strip decoded after the one before it is one.                         *)
LEMMA DecodedIs ==
  ASSUME RollOpens, NEW k \in Strips, SumsBefore(k) = Left[k - 1]
  PROVE  StripIs(Decoded(k), k)
<1>1. k \in 1..Len(sidecar) /\ k - 1 \in 0..Len(sidecar) /\ SumsBefore(k) \in Seq(Int)
  BY StripNumbers, LeftIs
<1>2. PICK c \in Nat : c = LineCount(k)
  BY LineSeqIs
<1>3. PICK d \in Nat : d = Blocks(k) /\ d = c \div ROW /\ d * ROW <= c /\ d * ROW \in Nat
  BY <1>2, BlocksAre, Rows, RowsTimes
<1>4. Left[k] = IF d = 0 THEN SumsBefore(k) \o Piece(k, d * ROW, c) ELSE Piece(k, d * ROW, c)
  BY <1>2, <1>3, LeftIs, BlocksAre
<1>5. SumsAfter(k, c) = Left[k]
  <2>1. ASSUME d = 0 PROVE d * ROW = 0
    BY <2>1, Rows
  <2> QED BY <1>3, <1>4, <2>1 DEF SumsAfter
<1>6. RowsUpTo(k, d) = RowsOf(k)
  <2>1. PICK f \in Nat \ {0} : f = FirstRow(k)
    BY FirstRowIs
  <2>2. PICK n \in Nat : n = RowCount(k, d) /\ n = IF d < f THEN 0 ELSE d + 1 - f
    BY <2>1 DEF RowCount
  <2>3. \A i \in 1..n : f + i - 1 \in 1..d
    BY <2>2
  <2>4. \A i \in 1..n : RowOf(k, f + i - 1) =
          LET b == f + i - 1 IN [lines |-> Block(k, b), profile |-> IF b = 1 THEN Left[k - 1] \o Block(k, b) ELSE Block(k, b)]
    <3>1. ASSUME NEW b \in 1..d
          PROVE  RowOf(k, b) = [lines |-> Block(k, b), profile |-> IF b = 1 THEN Left[k - 1] \o Block(k, b) ELSE Block(k, b)]
      BY <1>3, BlocksAre DEF RowOf
    <3> QED BY <2>3, <3>1
  <2>5. RowsUpTo(k, d) = [i \in 1..n |-> RowOf(k, f + i - 1)]
    BY <2>1, <2>2 DEF RowsUpTo
  <2>6. RowsOf(k) = [i \in 1..n |->
          LET b == f + i - 1 IN [lines |-> Block(k, b), profile |-> IF b = 1 THEN Left[k - 1] \o Block(k, b) ELSE Block(k, b)]]
    BY <1>3, <2>1, <2>2 DEF RowsOf
  <2> QED BY <2>4, <2>5, <2>6
<1>7. ASSUME Lines(k) > 0 PROVE StripIs(Decoded(k), k)
  <2>1. c = Total(k)
    BY <1>2, <1>7 DEF LineCount
  <2>2. Fed(k, Total(k)) = FedTo(k, c)
    BY <1>1, <2>1, FedIs
  <2>3. FedTo(k, c).sums = Left[k] /\ FedTo(k, c).rows = RowsOf(k) /\ FedTo(k, c).mean4 = [i \in 1..c |-> Piece(k, 0, i)]
    BY <1>3, <1>5, <1>6 DEF FedTo
  <2>4. Decoded(k) = [decoded |-> TRUE, sums_end |-> Left[k], mean4 |-> [i \in 1..c |-> Piece(k, 0, i)], rows |-> RowsOf(k), frames |-> FramesOf(k)]
    BY <1>7, <2>2, <2>3, StripNumbers DEF Decoded
  <2> QED BY <2>1, <2>4 DEF StripIs
<1>8. ASSUME ~(Lines(k) > 0) PROVE StripIs(Decoded(k), k)
  <2>1. Lines(k) = 0
    BY <1>8, StripNumbers
  <2>2. c = 0 /\ d = 0
    BY <1>2, <1>3, <2>1, Rows DEF LineCount
  <2>3. Left[k] = SumsBefore(k)
    <3>1. Piece(k, 0, 0) = <<>>
      BY PieceIs
    <3>2. d * ROW = 0
      BY <2>2, Rows
    <3> QED BY <1>1, <1>4, <2>2, <3>1, <3>2, ConcatEmptySeq
  <2>4. RowsOf(k) = <<>>
    <3>1. RowsUpTo(k, 0) = <<>>
      BY FirstRowIs DEF RowsUpTo, RowCount
    <3> QED BY <1>6, <2>2, <3>1
  <2>5. FramesOf(k) = <<>>
    <3>1. ReadableLines(k) = 0
      <4>1. (NPLANES - 1) * ROW \in Nat
        BY RollAssumption
      <4> QED BY <2>1, <4>1 DEF ReadableLines
    <3>2. HEIGHT \in Nat \ {0}
      BY RollAssumption
    <3>3. 0 \div HEIGHT = 0
      BY <3>2
    <3> QED BY <3>1, <3>3 DEF FramesOf
  <2>6. Decoded(k) = [decoded |-> TRUE, sums_end |-> SumsBefore(k), mean4 |-> <<>>, rows |-> <<>>, frames |-> <<>>]
    BY <2>1 DEF Decoded, NewStrip
  <2> QED BY <1>8, <2>3, <2>4, <2>5, <2>6 DEF StripIs
<1> QED BY <1>7, <1>8

(* A strip's planes have room for its rows (pkd_strip_new).                *)
LEMMA RowsFit ==
  ASSUME RollOpens, NEW k \in Strips, Lines(k) > 0
  PROVE  Len(RowsOf(k)) <= Lines(k) \div ROW + 1
<1>1. PICK p \in Nat, n \in Nat, t \in Nat : p = Pre(k) /\ n = Lines(k) /\ t = Total(k) /\ t <= p + n + 1
  BY StripNumbers
<1>2. PICK d \in Nat : d = Blocks(k) /\ d * ROW <= t
  <2>1. LineCount(k) = t
    BY <1>1 DEF LineCount
  <2> QED BY <1>1, <2>1, BlocksAre, Rows
<1>3. PICK q \in Nat : q = (p + 1) \div ROW /\ p + 1 < q * ROW + ROW
  BY Rows
<1>4. PICK e \in Nat : e = n \div ROW /\ n < e * ROW + ROW
  BY <1>1, Rows
<1>5. d <= q + e + 1
  <2>1. SUFFICES ASSUME q + e + 2 <= d PROVE FALSE
    OBVIOUS
  <2>2. (q + e + 2) * ROW <= d * ROW
    BY <2>1, RowsTimes
  <2>3. PICK r \in Nat \ {0} : r = ROW
    BY Rows
  <2>4. (q + e + 2) * r = q * r + r + (e * r + r)
    OBVIOUS
  <2>5. q * r \in Nat /\ e * r \in Nat /\ d * r \in Nat
    BY <2>3, RowsTimes
  <2>6. PICK x \in Nat, y \in Nat, z \in Nat : x = q * r /\ y = e * r /\ z = d * r
    BY <2>5
  <2>7. p + 1 < x + r /\ n < y + r /\ z <= p + n + 1 /\ x + r + (y + r) <= z
    BY <1>1, <1>2, <1>3, <1>4, <2>2, <2>3, <2>4, <2>6
  <2> QED BY <2>7
<1>6. FirstRow(k) = q + 1
  BY <1>1, <1>3 DEF FirstRow
<1>7. PICK c \in Nat : c = IF d < q + 1 THEN 0 ELSE d + 1 - (q + 1)
  OBVIOUS
<1>8. Len(RowsOf(k)) = c
  BY <1>2, <1>6, <1>7 DEF RowsOf
<1> QED BY <1>1, <1>4, <1>5, <1>7, <1>8, SMTT(30)

(* A frame and the lines its crop needs are on the strip and in the file   *)
(* as the roll was opened.                                                 *)
LEMMA FramesFit ==
  ASSUME RollOpens, NEW k \in Strips, NEW i \in DOMAIN FramesOf(k)
  PROVE  LET rc == FramesOf(k)[i]
         IN  /\ rc = [top |-> rc.top, bottom |-> rc.bottom] /\ rc.top \in Nat /\ rc.bottom - rc.top + 1 = HEIGHT
             /\ CropFits(k, rc) /\ Line(k, Pre(k) + Lines(k)) <= size
             /\ rc.top + Pre(k) + HEIGHT + 2 * ROW <= Total(k) /\ HEIGHT \in Nat /\ HEIGHT + 2 * ROW \in Nat
             /\ Lines(k) > 0
<1>1. PICK h \in Nat \ {0} : h = HEIGHT
  BY RollAssumption
<1>2. PICK r \in Nat \ {0} : r = ROW
  BY Rows
<1>3. PICK n \in Nat, p \in Nat : n = Lines(k) /\ p = Pre(k)
  BY StripNumbers
<1>4. PICK back \in Nat : back = (NPLANES - 1) * r /\ back >= 2 * r
  BY RollAssumption
<1>5. PICK m \in Nat : m = ReadableLines(k) /\ m = IF n > back THEN n - back ELSE 0
  BY <1>2, <1>3, <1>4 DEF ReadableLines
<1>6. PICK q \in Nat : q = m \div h /\ q * h <= m
  OBVIOUS
<1>7. i \in 1..q /\ FramesOf(k)[i] = [top |-> (i - 1) * h, bottom |-> i * h - 1]
  BY <1>1, <1>5, <1>6 DEF FramesOf
<1>8. (i - 1) * h \in Nat /\ i * h = (i - 1) * h + h /\ i * h <= q * h /\ i * h \in Nat
  <2>1. PICK a \in Nat, c \in Nat : i = a + 1 /\ q = i + c
    BY <1>7
  <2>2. a * h \in Nat /\ c * h \in Nat /\ (a + 1) * h = a * h + h /\ (i + c) * h = i * h + c * h /\ i * h \in Nat
    BY <2>1
  <2> QED BY <2>1, <2>2
<1>9. PICK top \in Nat : top = (i - 1) * h /\ top + h <= m
  BY <1>6, <1>8
<1>10. n > back /\ top + h + 2 * r <= n
  BY <1>4, <1>5, <1>9
<1>11. FramesOf(k)[i] = [top |-> top, bottom |-> top + h - 1]
  BY <1>7, <1>8, <1>9
<1>12. CropFits(k, FramesOf(k)[i])
  BY <1>1, <1>2, <1>3, <1>10, <1>11 DEF CropFits
<1>13. Line(k, p + n) <= size
  <2>1. sidecar[k].seg \in Nat /\ sidecar[k].start \in Nat /\ size \in Nat
    BY StripNumbers DEF RollOpens
  <2>2. sidecar[k].start + n <= size
    <3>1. n > 0
      BY <1>10
    <3>2. sidecar[k].end \in Nat
      <4>1. sidecar \in Seq([seg : Nat, start : Nat, end : Nat, ended : BOOLEAN, film : STRING])
        BY RollAssumption DEF RollOpens
      <4>2. sidecar[k] \in [seg : Nat, start : Nat, end : Nat, ended : BOOLEAN, film : STRING]
        BY <4>1, StripNumbers, ElementOfSeq
      <4> QED BY <4>2
    <3> QED BY <1>3, <2>1, <3>1, <3>2 DEF Lines, Lesser
  <2> QED BY <1>3, <2>1, <2>2 DEF Line, Pre
<1>14. top + p + h + 2 * r <= Total(k)
  <2>1. PICK e \in Nat : Total(k) = p + n + e
    BY <1>3, StripNumbers
  <2> QED BY <1>10, <2>1
<1> QED BY <1>1, <1>2, <1>3, <1>10, <1>11, <1>12, <1>13, <1>14

(* A frame's lines, each with the mean pass 1 had before it.               *)
CropOf(k, rc) ==
  LET t == rc.top + Pre(k)
  IN  [i \in 1..(HEIGHT + 2 * ROW) |-> [line |-> Line(k, t + i - 1), after |-> Piece(k, 0, t + i - 1)]]

(* hires_crop, which starts from a recorded mean, comes to that.           *)
LEMMA CropIs ==
  ASSUME RollOpens, NEW k \in Strips, NEW i \in DOMAIN FramesOf(k), StripIs(st[k], k)
  PROVE  Crop(k, FramesOf(k)[i]) = CropOf(k, FramesOf(k)[i])
<1>1. PICK rc : rc = FramesOf(k)[i]
  OBVIOUS
<1>2. PICK t \in Nat : t = rc.top + Pre(k) /\ t <= Total(k)
  <2>1. PICK top \in Nat, p \in Nat, m \in Nat, h \in Nat, r \in Nat :
          top = rc.top /\ p = Pre(k) /\ m = Total(k) /\ h = HEIGHT /\ r = ROW
    BY <1>1, FramesFit, StripNumbers, Rows
  <2>2. top + p + h + 2 * r <= m
    BY <1>1, <2>1, FramesFit
  <2>3. top + p \in Nat /\ top + p <= m
    BY <2>1, <2>2
  <2> QED BY <2>1, <2>3
<1>3. PICK n \in Nat : n = HEIGHT + 2 * ROW /\ n = (rc.bottom - rc.top + 1) + 2 * ROW
  BY <1>1, FramesFit
<1> DEFINE Follows(f) == f = [j \in 0..n |-> IF j = 0 THEN StartMean(k, t) ELSE MeanAfter(f[j - 1], Line(k, t + j - 1))]
           g == [j \in 0..n |-> Piece(k, 0, t + j)]
<1>4. StartMean(k, t) = Piece(k, 0, t)
  <2>1. ASSUME t > 0 PROVE st[k].mean4[t] = Piece(k, 0, t)
    <3>1. Lines(k) > 0 /\ t \in 1..Total(k)
      BY <1>1, <1>2, <2>1, FramesFit, StripNumbers
    <3> QED BY <3>1 DEF StripIs
  <2>2. ASSUME ~(t > 0) PROVE Piece(k, 0, t) = <<>>
    BY <2>2, PieceIs
  <2> QED BY <2>1, <2>2 DEF StartMean
<1>5. \A j \in 1..n : MeanAfter(Piece(k, 0, t + (j - 1)), Line(k, t + j - 1)) = Piece(k, 0, t + j)
  <2>1. ASSUME NEW j \in 1..n PROVE MeanAfter(Piece(k, 0, t + (j - 1)), Line(k, t + j - 1)) = Piece(k, 0, t + j)
    <3>1. PICK m \in Nat : m = t + j - 1 /\ m + 1 = t + j /\ t + (j - 1) = m
      OBVIOUS
    <3>2. Append(Piece(k, 0, m), Line(k, m)) = Piece(k, 0, m + 1)
      BY PieceIs
    <3> QED BY <3>1, <3>2 DEF MeanAfter
  <2> QED BY <2>1
<1>6. Follows(g)
  <2>1. \A j \in 0..n : g[j] = IF j = 0 THEN StartMean(k, t) ELSE MeanAfter(g[j - 1], Line(k, t + j - 1))
    <3>1. \A j \in 0..n : j # 0 => j \in 1..n /\ j - 1 \in 0..n
      OBVIOUS
    <3>2. g[0] = Piece(k, 0, t)
      OBVIOUS
    <3>3. \A j \in 1..n : g[j] = Piece(k, 0, t + j) /\ g[j - 1] = Piece(k, 0, t + (j - 1))
      OBVIOUS
    <3> HIDE DEF g
    <3> QED BY <1>4, <1>5, <3>1, <3>2, <3>3
  <2> QED BY <2>1
<1>7. PICK f : f = CHOOSE h : Follows(h)
  OBVIOUS
<1>8. Follows(f)
  <2> HIDE DEF Follows, g
  <2> QED BY <1>6, <1>7
<1>9. \A j \in 0..n : f[j] = IF j = 0 THEN StartMean(k, t) ELSE MeanAfter(f[j - 1], Line(k, t + j - 1))
  BY <1>8
<1>10. f[0] = g[0] /\ \A j \in 1..n : f[j - 1] = g[j - 1] => f[j] = g[j]
  <2>1. 0 \in 0..n /\ \A j \in 1..n : j \in 0..n /\ j # 0 /\ j - 1 \in 0..n
    OBVIOUS
  <2>2. g[0] = Piece(k, 0, t)
    OBVIOUS
  <2>3. \A j \in 1..n : g[j] = Piece(k, 0, t + j) /\ g[j - 1] = Piece(k, 0, t + (j - 1))
    OBVIOUS
  <2> HIDE DEF g, Follows
  <2> QED BY <1>4, <1>5, <1>9, <2>1, <2>2, <2>3
<1>11. \A j \in 0..n : f[j] = g[j]
  <2> HIDE DEF g, Follows
  <2> QED BY <1>10, AlikeTo
<1>12. Crop(k, rc) = [j \in 1..n |-> [line |-> Line(k, t + j - 1), after |-> f[j - 1]]]
  BY <1>2, <1>3, <1>7 DEF Crop
<1>13. \A j \in 1..n : f[j - 1] = Piece(k, 0, t + j - 1)
  <2>1. ASSUME NEW j \in 1..n PROVE f[j - 1] = Piece(k, 0, t + j - 1)
    <3>1. j - 1 \in 0..n /\ t + (j - 1) = t + j - 1
      OBVIOUS
    <3>2. g[j - 1] = Piece(k, 0, t + (j - 1))
      BY <3>1
    <3> HIDE DEF g, Follows
    <3> QED BY <1>11, <3>1, <3>2
  <2> QED BY <2>1
<1>14. CropOf(k, rc) = [j \in 1..n |-> [line |-> Line(k, t + j - 1), after |-> Piece(k, 0, t + j - 1)]]
  BY <1>2, <1>3 DEF CropOf
<1> HIDE DEF Follows, g
<1> QED BY <1>1, <1>12, <1>13, <1>14

(* The strips decoded so far are a beginning of the roll, each as the      *)
(* single pass has it; of the others only the sums stand.                  *)
StripsInv ==
  open =>
    /\ ~Corrupt /\ DOMAIN st = Strips
    /\ \A k \in Strips :
         /\ st[k].decoded \in BOOLEAN
         /\ ~st[k].decoded => st[k] = [NewStrip EXCEPT !.sums_end = st[k].sums_end]
         /\ st[k].decoded => StripIs(st[k], k) /\ \A j \in 1..(k - 1) : st[j].decoded

(* What is handed over is of a decoded strip and its frames.               *)
KeepInv ==
  \/ keep = NoKeep
  \/ open /\ \E k \in Strips :
       /\ keep.strip = k /\ st[k].decoded
       /\ DOMAIN keep.frames = DOMAIN FramesOf(k) /\ keep.hi \subseteq DOMAIN keep.frames
       /\ \A i \in keep.hi : keep.frames[i] = CropOf(k, FramesOf(k)[i])

RollInv == sidecar \in ROLLS /\ size \in Nat /\ file \in Nat /\ StripsInv /\ KeepInv

(* What is said of a strip rests on the sidecar and the size alone.        *)
LEMMA StripsSame ==
  ASSUME UNCHANGED <<sidecar, size>>
  PROVE  /\ Strips' = Strips /\ Corrupt' = Corrupt
         /\ \A k, s : StripIs(s, k)' = StripIs(s, k)
         /\ \A k : FramesOf(k)' = FramesOf(k)
         /\ \A k, rc : CropOf(k, rc)' = CropOf(k, rc)
<1>1. Left' = Left
  BY DEF Left, Blocks, Rest, LineSeq, Line, Lines, Lesser, Total, Pre, EndingLine
<1>2. ASSUME NEW k PROVE RowsOf(k)' = RowsOf(k)
  BY <1>1 DEF RowsOf, Blocks, Block, FirstRow, Rest, LineSeq, Line, Lines, Lesser, Total, Pre, EndingLine
<1>3. ASSUME NEW k PROVE FramesOf(k)' = FramesOf(k)
  BY DEF FramesOf, ReadableLines, Lines, Lesser
<1>4. ASSUME NEW k PROVE Lines(k)' = Lines(k) /\ Total(k)' = Total(k)
  BY DEF Lines, Lesser, Total, Pre, EndingLine
<1>5. ASSUME NEW k PROVE [i \in 1..Total(k) |-> Piece(k, 0, i)]' = [i \in 1..Total(k) |-> Piece(k, 0, i)]
  BY DEF Piece, Line, Total, Pre, Lines, Lesser, EndingLine
<1>6. ASSUME NEW k, NEW s PROVE StripIs(s, k)' = StripIs(s, k)
  <2>1. RowsOf(k)' = RowsOf(k) /\ FramesOf(k)' = FramesOf(k) /\ Lines(k)' = Lines(k)
        /\ [i \in 1..Total(k) |-> Piece(k, 0, i)]' = [i \in 1..Total(k) |-> Piece(k, 0, i)]
    BY <1>2, <1>3, <1>4, <1>5
  <2> QED BY <1>1, <2>1 DEF StripIs
<1>7. ASSUME NEW k, NEW rc PROVE CropOf(k, rc)' = CropOf(k, rc)
  BY DEF CropOf, Piece, Line, Pre
<1>8. Strips' = Strips /\ Corrupt' = Corrupt
  BY DEF Strips, Corrupt, Lines, Lesser
<1> QED BY <1>3, <1>6, <1>7, <1>8

(* What was handed over stays while its strip stays decoded.              *)
LEMMA KeepSame ==
  ASSUME KeepInv, UNCHANGED <<sidecar, size, open, keep>>,
         \A k \in Strips : keep.strip = k /\ open /\ st[k].decoded => st'[k].decoded
  PROVE  KeepInv'
<1>1. ASSUME keep # NoKeep PROVE open' /\ \E k \in Strips' :
        /\ keep'.strip = k /\ st'[k].decoded
        /\ DOMAIN keep'.frames = DOMAIN FramesOf(k)' /\ keep'.hi \subseteq DOMAIN keep'.frames
        /\ \A i \in keep'.hi : keep'.frames[i] = CropOf(k, FramesOf(k)[i])'
  <2>1. open
    BY <1>1 DEF KeepInv
  <2>2. PICK k \in Strips :
          /\ keep.strip = k /\ st[k].decoded
          /\ DOMAIN keep.frames = DOMAIN FramesOf(k) /\ keep.hi \subseteq DOMAIN keep.frames
          /\ \A i \in keep.hi : keep.frames[i] = CropOf(k, FramesOf(k)[i])
    BY <1>1 DEF KeepInv
  <2>3. ASSUME NEW i PROVE CropOf(k, FramesOf(k)[i])' = CropOf(k, FramesOf(k)[i])
    BY DEF CropOf, FramesOf, ReadableLines, Lines, Lesser, Piece, Line, Pre
  <2>4. Strips' = Strips /\ FramesOf(k)' = FramesOf(k) /\ st'[k].decoded
    BY <2>1, <2>2, StripsSame
  <2> QED BY <2>1, <2>2, <2>3, <2>4
<1> QED BY <1>1 DEF KeepInv, NoKeep

(* A step that leaves the strips and what is handed over alone.            *)
LEMMA QuietKeeps ==
  ASSUME RollInv, UNCHANGED <<sidecar, size, st, open, keep>>, file' \in Nat
  PROVE  RollInv'
<1>1. StripsInv'
  BY StripsSame DEF RollInv, StripsInv
<1>2. KeepInv'
  BY KeepSame DEF RollInv
<1> QED BY <1>1, <1>2 DEF RollInv

(* A roll just opened has no decoded strip.                                *)
LEMMA OpenKeeps ==
  ASSUME RollInv, Open
  PROVE  RollInv'
<1>1. StripsInv'
  <2>1. Strips' = Strips /\ Corrupt' = Corrupt
    BY StripsSame DEF Open
  <2>2. st' = [k \in Strips |-> NewStrip] /\ NewStrip = [NewStrip EXCEPT !.sums_end = NewStrip.sums_end] /\ ~NewStrip.decoded
    BY DEF Open, NewStrip
  <2>3. ASSUME NEW k \in Strips PROVE st'[k] = NewStrip
    BY <2>2
  <2>4. ~Corrupt /\ DOMAIN st' = Strips
    BY <2>2 DEF Open
  <2>5. NewStrip.decoded \in BOOLEAN
    BY DEF NewStrip
  <2> QED BY <2>1, <2>2, <2>3, <2>4, <2>5 DEF StripsInv
<1>2. KeepInv'
  <2>1. keep = NoKeep
    BY DEF RollInv, KeepInv, Open
  <2> QED BY <2>1 DEF KeepInv, Open, NoKeep
<1> QED BY <1>1, <1>2 DEF RollInv, Open

(* A closed roll has none.                                                 *)
LEMMA CloseKeeps ==
  ASSUME RollInv, Close
  PROVE  RollInv'
BY DEF RollInv, Close, StripsInv, KeepInv, NoKeep

(* A decode goes on where the strips decoded so far end.                   *)
LEMMA Next1Is ==
  ASSUME RollInv, open, Undecoded
  PROVE  /\ RollOpens /\ Next1 \in Strips /\ ~st[Next1].decoded /\ \A j \in 1..(Next1 - 1) : j \in Strips /\ st[j].decoded
         /\ SumsBefore(Next1) = Left[Next1 - 1] /\ SumsBefore(Next1) \in Seq(Int)
<1>1. RollOpens
  BY DEF RollOpens, RollInv, StripsInv
<1> DEFINE Waiting == {k \in Strips : ~st[k].decoded}
<1>2. PICK n \in Nat : n = Len(sidecar) /\ Strips = 1..n
  <2>1. PICK k \in Strips : TRUE
    BY DEF Undecoded
  <2> QED BY <1>1, <2>1, StripNumbers
<1>3. Waiting \in SUBSET Nat /\ Waiting # {}
  BY <1>2 DEF Undecoded
<1>4. PICK m \in Waiting : \A j \in Waiting : m <= j
  <2> HIDE DEF Waiting
  <2> QED BY <1>3, WFNat
<1>5. \A j \in 1..(m - 1) : st[j].decoded
  <2>1. ASSUME NEW j \in 1..(m - 1) PROVE st[j].decoded
    <3>1. j \in Strips /\ ~(m <= j)
      BY <1>2, <1>4
    <3> QED BY <1>4, <3>1
  <2> QED BY <2>1
<1>6. \E k \in Strips : ~st[k].decoded /\ \A j \in 1..(k - 1) : st[j].decoded
  BY <1>4, <1>5
<1>7. Next1 \in Strips /\ ~st[Next1].decoded /\ \A j \in 1..(Next1 - 1) : st[j].decoded
  BY <1>6 DEF Next1
<1>8. PICK k \in 1..n : k = Next1
  BY <1>2, <1>7
<1>9. SumsBefore(k) = Left[k - 1] /\ SumsBefore(k) \in Seq(Int)
  <2>1. Left[0] = <<>> /\ Left[k - 1] \in Seq(Int)
    BY <1>1, <1>2, LeftIs, k - 1 \in 0..n
  <2>2. ASSUME k # 1 PROVE st[k - 1].sums_end = Left[k - 1]
    <3>1. k - 1 \in Strips /\ k - 1 \in 1..(k - 1)
      BY <1>2, <2>2
    <3>2. st[k - 1].decoded
      BY <1>7, <1>8, <3>1
    <3>3. StripIs(st[k - 1], k - 1)
      BY <3>1, <3>2 DEF RollInv, StripsInv
    <3> QED BY <3>3 DEF StripIs
  <2> QED BY <2>1, <2>2 DEF SumsBefore
<1> QED BY <1>1, <1>2, <1>7, <1>8, <1>9

(* The next strip is decoded.                                              *)
LEMMA DecodeOkKeeps ==
  ASSUME RollInv, DecodeOk
  PROVE  RollInv'
<1>1. open /\ Undecoded /\ UNCHANGED <<sidecar, size, open, keep, file>> /\ st' = [st EXCEPT ![Next1] = Decoded(Next1)]
  BY DEF DecodeOk
<1>2. PICK n : n = Next1
  OBVIOUS
<1>3. /\ RollOpens /\ n \in Strips /\ ~st[n].decoded /\ \A j \in 1..(n - 1) : j \in Strips /\ st[j].decoded
      /\ SumsBefore(n) = Left[n - 1] /\ n \in 1..Len(sidecar)
  BY <1>1, <1>2, Next1Is, StripNumbers
<1>4. StripIs(Decoded(n), n)
  BY <1>3, DecodedIs
<1>5. StripsInv'
  <2>1. /\ ~Corrupt /\ DOMAIN st = Strips /\ Strips' = Strips /\ Corrupt' = Corrupt
        /\ \A k, s : StripIs(s, k)' = StripIs(s, k)
    BY <1>1, StripsSame DEF RollInv, StripsInv
  <2>2. DOMAIN st' = Strips /\ st'[n] = Decoded(n) /\ \A k \in Strips : k # n => st'[k] = st[k]
    BY <1>1, <1>2, <1>3, <2>1
  <2>3. ASSUME NEW k \in Strips
        PROVE  /\ st'[k].decoded \in BOOLEAN
               /\ ~st'[k].decoded => st'[k] = [NewStrip EXCEPT !.sums_end = st'[k].sums_end]
               /\ st'[k].decoded => StripIs(st'[k], k) /\ \A j \in 1..(k - 1) : st'[j].decoded
    <3>1. ASSUME k = n
          PROVE  StripIs(st'[k], k) /\ st'[k].decoded = TRUE /\ \A j \in 1..(k - 1) : st'[j].decoded
      <4>1. st'[n].decoded = TRUE
        BY <1>4, <2>2 DEF StripIs, Decoded, NewStrip
      <4>2. \A j \in 1..(n - 1) : j # n
        BY <1>3
      <4> QED BY <1>3, <1>4, <2>2, <3>1, <4>1, <4>2
    <3>2. ASSUME k # n, st[k].decoded PROVE \A j \in 1..(k - 1) : st'[j].decoded
      <4>1. \A j \in 1..(k - 1) : st[j].decoded
        BY <3>2, <1>1 DEF RollInv, StripsInv
      <4>2. k \in 1..Len(sidecar) /\ Strips = 1..Len(sidecar) /\ Len(sidecar) \in Nat
        BY <1>3, StripNumbers
      <4>3. \A j \in 1..(k - 1) : j \in Strips
        BY <4>2
      <4>4. \A j \in 1..(k - 1) : j # n
        BY <1>3, <4>1
      <4> QED BY <2>2, <4>1, <4>3, <4>4
    <3>3. ASSUME k # n
          PROVE  /\ st[k].decoded \in BOOLEAN
                 /\ ~st[k].decoded => st[k] = [NewStrip EXCEPT !.sums_end = st[k].sums_end]
                 /\ st[k].decoded => StripIs(st[k], k)
      BY <1>1 DEF RollInv, StripsInv
    <3> QED BY <2>2, <3>1, <3>2, <3>3
  <2> QED BY <2>1, <2>2, <2>3 DEF StripsInv
<1>6. KeepInv'
  <2>1. \A k \in Strips : st[k].decoded => st'[k] = st[k]
    BY <1>1, <1>2, <1>3 DEF RollInv, StripsInv
  <2> QED BY <1>1, <2>1, KeepSame DEF RollInv
<1> QED BY <1>1, <1>5, <1>6 DEF RollInv

(* A decode that fails leaves nothing but the sums.                        *)
LEMMA DecodeFailsKeeps ==
  ASSUME RollInv, DecodeFails
  PROVE  RollInv'
<1>1. open /\ Undecoded /\ UNCHANGED <<sidecar, size, open, keep, file>>
  BY DEF DecodeFails
<1>2. PICK n : n = Next1
  OBVIOUS
<1>3. n \in Strips /\ ~st[n].decoded
  BY <1>1, <1>2, Next1Is
<1>4. PICK s : st' = [st EXCEPT ![n] = s] /\ s = [NewStrip EXCEPT !.sums_end = s.sums_end] /\ s.decoded = FALSE
  <2>1. st[n] = [NewStrip EXCEPT !.sums_end = st[n].sums_end]
    BY <1>1, <1>3 DEF RollInv, StripsInv
  <2>2. ASSUME NEW x
        PROVE  LET s == [NewStrip EXCEPT !.sums_end = x]
               IN  s = [NewStrip EXCEPT !.sums_end = s.sums_end] /\ s.decoded = FALSE /\ [st[n] EXCEPT !.sums_end = x] = s
    BY <2>1 DEF NewStrip
  <2>3. \/ st' = [st EXCEPT ![n].sums_end = SumsBefore(n)]
        \/ \E l \in 0..(Total(n) - 1) : st' = [st EXCEPT ![n] = FailedAt(n, l)]
    BY <1>2 DEF DecodeFails
  <2>4. \E x : st' = [st EXCEPT ![n] = [NewStrip EXCEPT !.sums_end = x]]
    <3>1. ASSUME NEW x, st' = [st EXCEPT ![n].sums_end = x] PROVE st' = [st EXCEPT ![n] = [NewStrip EXCEPT !.sums_end = x]]
      BY <2>2, <3>1
    <3> QED BY <2>3, <3>1 DEF FailedAt
  <2>5. PICK x : st' = [st EXCEPT ![n] = [NewStrip EXCEPT !.sums_end = x]]
    BY <2>4
  <2> QED BY <2>2, <2>5
<1>5. StripsInv'
  <2>1. /\ ~Corrupt /\ DOMAIN st = Strips /\ Strips' = Strips /\ Corrupt' = Corrupt
        /\ \A k, z : StripIs(z, k)' = StripIs(z, k)
    BY <1>1, StripsSame DEF RollInv, StripsInv
  <2>2. DOMAIN st' = Strips /\ st'[n] = s /\ \A k \in Strips : k # n => st'[k] = st[k]
    BY <1>3, <1>4, <2>1
  <2>3. \A k \in Strips : st[k].decoded => \A j \in 1..(k - 1) : st[j].decoded /\ j \in Strips
    <3>1. ASSUME NEW k \in Strips PROVE \A j \in 1..(k - 1) : j \in Strips
      <4>1. k \in 1..Len(sidecar) /\ Strips = 1..Len(sidecar) /\ Len(sidecar) \in Nat
        BY <1>1, Next1Is, StripNumbers
      <4> QED BY <4>1
    <3> QED BY <1>1, <3>1 DEF RollInv, StripsInv
  <2>4. ASSUME NEW k \in Strips, st[k].decoded PROVE \A j \in 1..(k - 1) : st'[j].decoded
    BY <1>3, <2>2, <2>3, <2>4
  <2>5. ASSUME NEW k \in Strips, k # n
        PROVE  /\ st[k].decoded \in BOOLEAN
               /\ ~st[k].decoded => st[k] = [NewStrip EXCEPT !.sums_end = st[k].sums_end]
               /\ st[k].decoded => StripIs(st[k], k)
    BY <1>1 DEF RollInv, StripsInv
  <2>6. ASSUME NEW k \in Strips
        PROVE  /\ st'[k].decoded \in BOOLEAN
               /\ ~st'[k].decoded => st'[k] = [NewStrip EXCEPT !.sums_end = st'[k].sums_end]
               /\ st'[k].decoded => StripIs(st'[k], k) /\ \A j \in 1..(k - 1) : st'[j].decoded
    <3>1. ASSUME k = n PROVE st'[k] = s
      BY <2>2, <3>1
    <3>2. ASSUME k # n PROVE st'[k] = st[k]
      BY <2>2, <3>2
    <3> QED BY <1>4, <2>4, <2>5, <3>1, <3>2
  <2> QED BY <2>1, <2>2, <2>6 DEF StripsInv
<1>6. KeepInv'
  <2>1. \A k \in Strips : st[k].decoded => st'[k] = st[k]
    BY <1>1, <1>3, <1>4 DEF RollInv, StripsInv
  <2> QED BY <1>1, <2>1, KeepSame DEF RollInv
<1> QED BY <1>1, <1>5, <1>6 DEF RollInv

(* New storage is empty.                                                   *)
LEMMA ColourInputKeeps ==
  ASSUME RollInv, ColourInput
  PROVE  RollInv'
<1>1. open /\ UNCHANGED <<sidecar, size, st, open, file>>
  BY DEF ColourInput
<1>2. StripsInv'
  BY <1>1, StripsSame DEF RollInv, StripsInv
<1>3. PICK k \in Strips : /\ \A j \in 1..k : st[j].decoded
                          /\ keep' = [strip |-> k, film |-> FilmOf(k), frames |-> [i \in DOMAIN st[k].frames |-> <<>>], hi |-> {}]
  BY DEF ColourInput
<1>4. st[k].decoded /\ st[k].frames = FramesOf(k)
  <2>1. RollOpens
    BY <1>1 DEF RollOpens, RollInv, StripsInv
  <2>2. k \in 1..k
    BY <2>1, StripNumbers
  <2> QED BY <1>1, <1>3, <2>2 DEF RollInv, StripsInv, StripIs
<1>5. keep'.strip = k /\ DOMAIN keep'.frames = DOMAIN FramesOf(k) /\ keep'.hi = {}
  BY <1>3, <1>4
<1>6. Strips' = Strips /\ FramesOf(k)' = FramesOf(k)
  BY <1>1, StripsSame
<1>7. KeepInv'
  BY <1>1, <1>4, <1>5, <1>6 DEF KeepInv
<1> QED BY <1>1, <1>2, <1>7 DEF RollInv

(* A slot of the storage changes: the others stay, this one is its frame's *)
(* crop or not marked as loaded.                                           *)
LEMMA SlotKeeps ==
  ASSUME RollInv, open, UNCHANGED <<sidecar, size, st, open, file>>, NEW k \in Strips, keep.strip = k,
         NEW i \in DOMAIN keep.frames, NEW crop, NEW hi, keep' = KeepWith(i, crop, hi), keep # NoKeep,
         hi \subseteq keep.hi \union {i}, i \in hi => crop = CropOf(k, FramesOf(k)[i])
  PROVE  RollInv'
<1>1. StripsInv'
  BY StripsSame DEF RollInv, StripsInv
<1>2. /\ st[k].decoded /\ DOMAIN keep.frames = DOMAIN FramesOf(k) /\ keep.hi \subseteq DOMAIN keep.frames
      /\ \A j \in keep.hi : keep.frames[j] = CropOf(k, FramesOf(k)[j])
  BY DEF RollInv, KeepInv
<1>3. keep'.strip = k /\ keep'.frames = [keep.frames EXCEPT ![i] = crop] /\ keep'.hi = hi
  BY DEF KeepWith
<1>4. DOMAIN keep'.frames = DOMAIN FramesOf(k) /\ keep'.hi \subseteq DOMAIN keep'.frames
  BY <1>2, <1>3
<1>5. \A j \in keep'.hi : keep'.frames[j] = CropOf(k, FramesOf(k)[j])
  BY <1>2, <1>3
<1>6. ASSUME NEW j PROVE CropOf(k, FramesOf(k)[j])' = CropOf(k, FramesOf(k)[j])
  <2>1. FramesOf(k)' = FramesOf(k) /\ \A rc : CropOf(k, rc)' = CropOf(k, rc)
    BY StripsSame
  <2>2. PICK rc : rc = FramesOf(k)[j]
    OBVIOUS
  <2>3. FramesOf(k)'[j] = rc /\ CropOf(k, rc)' = CropOf(k, rc)
    BY <2>1, <2>2
  <2> QED BY <2>2, <2>3 DEF CropOf
<1>7. Strips' = Strips /\ FramesOf(k)' = FramesOf(k)
  BY StripsSame
<1>8. KeepInv'
  BY <1>2, <1>3, <1>4, <1>5, <1>6, <1>7 DEF KeepInv
<1> QED BY <1>1, <1>8 DEF RollInv

(* No storage: of no strip, with nothing loaded.                           *)
LEMMA NoKeepIs == NoKeep.strip = 0 /\ NoKeep.hi = {}
BY DEF NoKeep

(* A frame is loaded.                                                      *)
LEMMA ColourFrameKeeps ==
  ASSUME RollInv, ColourFrame
  PROVE  RollInv'
<1>1. PICK k \in Strips, i \in DOMAIN keep.frames :
        keep.strip = k /\ i \notin keep.hi /\ keep' = KeepWith(i, Crop(k, st[k].frames[i]), keep.hi \union {i})
  BY DEF ColourFrame
<1>2. open /\ UNCHANGED <<sidecar, size, st, open, file>>
  BY DEF ColourFrame
<1>3. RollOpens
  BY <1>2 DEF RollOpens, RollInv, StripsInv
<1>4. keep # NoKeep
  <2>1. k \in 1..Len(sidecar)
    BY <1>3, StripNumbers
  <2>2. k # 0
    BY <2>1
  <2> QED BY <1>1, <2>2, NoKeepIs
<1>5. st[k].decoded /\ DOMAIN keep.frames = DOMAIN FramesOf(k)
  BY <1>1, <1>4 DEF RollInv, KeepInv
<1>6. StripIs(st[k], k)
  BY <1>2, <1>5 DEF RollInv, StripsInv
<1>7. Crop(k, st[k].frames[i]) = CropOf(k, FramesOf(k)[i])
  <2>1. st[k].frames = FramesOf(k) /\ i \in DOMAIN FramesOf(k)
    BY <1>5, <1>6 DEF StripIs
  <2> QED BY <1>3, <1>6, <2>1, CropIs
<1> QED BY <1>1, <1>2, <1>4, <1>7, SlotKeeps

(* A frame is released.                                                    *)
LEMMA ReleaseFrameKeeps ==
  ASSUME RollInv, ReleaseFrame
  PROVE  RollInv'
<1>1. PICK i \in keep.hi : keep' = KeepWith(i, <<>>, keep.hi \ {i})
  BY DEF ReleaseFrame
<1>2. UNCHANGED <<sidecar, size, st, open, file>>
  BY DEF ReleaseFrame
<1>3. keep # NoKeep
  BY NoKeepIs
<1>4. open /\ keep.strip \in Strips /\ i \in DOMAIN keep.frames
  BY <1>1, <1>3 DEF RollInv, KeepInv
<1> QED BY <1>1, <1>2, <1>3, <1>4, SlotKeeps

(* Every step keeps the invariant.                                         *)
LEMMA RollStep == RollInv /\ [RollNext]_rollVars => RollInv'
<1> SUFFICES ASSUME RollInv, [RollNext]_rollVars PROVE RollInv'
  OBVIOUS
<1>1. ASSUME SetManualFilm PROVE RollInv'
  BY <1>1, QuietKeeps DEF SetManualFilm, RollInv
<1>2. ASSUME CalibrationArrives PROVE RollInv'
  BY <1>2, QuietKeeps DEF CalibrationArrives, RollInv
<1>3. ASSUME FileChanges PROVE RollInv'
  BY <1>3, QuietKeeps, RollAssumption DEF FileChanges, RollInv
<1>4. ASSUME UNCHANGED rollVars PROVE RollInv'
  BY <1>4, QuietKeeps DEF rollVars, RollInv
<1> QED BY <1>1, <1>2, <1>3, <1>4, OpenKeeps, CloseKeeps, DecodeOkKeeps, DecodeFailsKeeps, ColourInputKeeps,
           ColourFrameKeeps, ReleaseFrameKeeps DEF RollNext

(* A roll not yet opened satisfies it.                                     *)
LEMMA RollBegins == RollInit => RollInv
BY RollAssumption DEF RollInit, RollInv, StripsInv, KeepInv

(* What the strips and the storage hold is what the single pass gives.     *)
THEOREM RollInvariance == RollSpec => []RollInv
BY RollBegins, RollStep, PTL DEF RollSpec

(* Decoded strips are those of one pass over the roll, whatever the order  *)
(* of the calls, the failures and the retries; frames are cut as pass 1    *)
(* had them; and no frame asks for a line the file did not have.           *)
THEOREM DecodeStaysSound == RollSpec => []DecodeIsSound
<1>1. RollInv => DecodeIsSound
  <2> SUFFICES ASSUME RollInv PROVE DecodeIsSound
    OBVIOUS
  <2>1. ASSUME open PROVE RollOpens
    BY <2>1 DEF RollOpens, RollInv, StripsInv
  <2>2. ASSUME open, NEW k \in Strips, st[k].decoded PROVE StripIs(st[k], k)
    BY <2>2 DEF RollInv, StripsInv
  <2>3. DecodeIsOnePass
    <3>1. ASSUME open, NEW k \in Strips, st[k].decoded, Lines(k) > 0
          PROVE  Len(st[k].rows) <= Lines(k) \div ROW + 1 /\ Len(st[k].mean4) = Total(k)
      <4>1. Len(RowsOf(k)) <= Lines(k) \div ROW + 1
        BY <2>1, <3>1, RowsFit
      <4>2. PICK t \in Nat : t = Total(k)
        BY <2>1, <3>1, StripNumbers
      <4>3. st[k].rows = RowsOf(k) /\ st[k].mean4 = [i \in 1..t |-> Piece(k, 0, i)]
        BY <2>2, <3>1, <4>2 DEF StripIs
      <4> QED BY <4>1, <4>2, <4>3
    <3> QED BY <2>2, <3>1 DEF DecodeIsOnePass, StripIs
  <2>4. CropsFit
    <3>1. ASSUME open, NEW k \in Strips, st[k].decoded, NEW i \in DOMAIN st[k].frames
          PROVE  CropFits(k, st[k].frames[i]) /\ Line(k, Pre(k) + Lines(k)) <= size
      <4>1. st[k].frames = FramesOf(k)
        BY <2>2, <3>1 DEF StripIs
      <4> QED BY <2>1, <3>1, <4>1, FramesFit
    <3> QED BY <3>1 DEF CropsFit
  <2>5. FramesAreOfPassOne
    <3>1. SUFFICES ASSUME open, NEW i \in keep.hi
                   PROVE  LET k == keep.strip
                              rc == FramesOf(k)[i]
                          IN  /\ Len(keep.frames[i]) = HEIGHT + 2 * ROW
                              /\ \A j \in DOMAIN keep.frames[i] :
                                   LET l == Pre(k) + rc.top + j - 1
                                   IN  keep.frames[i][j] = [line |-> LineSeq(k)[l + 1], after |-> SubSeq(LineSeq(k), 1, l)]
      BY DEF FramesAreOfPassOne
    <3>2. PICK k \in Strips : keep.strip = k /\ i \in DOMAIN FramesOf(k) /\ keep.frames[i] = CropOf(k, FramesOf(k)[i])
      <4>1. keep # NoKeep
        BY <3>1, NoKeepIs
      <4> QED BY <3>1, <4>1 DEF RollInv, KeepInv
    <3>3. RollOpens
      BY <2>1, <3>1
    <3>4. PICK rc : rc = FramesOf(k)[i]
      OBVIOUS
    <3>5. LineCount(k) = Total(k) /\ LineCount(k) \in Nat /\ Pre(k) \in Nat /\ HEIGHT \in Nat /\ ROW \in Nat
      <4>1. Lines(k) > 0 /\ HEIGHT \in Nat
        BY <3>2, <3>3, FramesFit
      <4> QED BY <3>3, <4>1, StripNumbers, Rows DEF LineCount
    <3>9. rc.top \in Nat /\ rc.top + Pre(k) + HEIGHT + 2 * ROW <= LineCount(k)
      BY <3>2, <3>3, <3>4, <3>5, FramesFit
    <3>10. PICK h \in Nat, r \in Nat, p \in Nat, top \in Nat, c \in Nat :
             h = HEIGHT /\ r = ROW /\ p = Pre(k) /\ top = rc.top /\ c = LineCount(k)
      BY <3>5, <3>9
    <3>11. PICK n \in Nat : n = h + 2 * r /\ top + p + n <= c
      BY <3>9, <3>10
    <3>6. keep.frames[i] = [j \in 1..n |-> [line |-> Line(k, top + p + j - 1), after |-> Piece(k, 0, top + p + j - 1)]]
      BY <3>2, <3>4, <3>10, <3>11 DEF CropOf
    <3>7. Len(keep.frames[i]) = n /\ DOMAIN keep.frames[i] = 1..n
      BY <3>6
    <3>8. ASSUME NEW j \in 1..n
          PROVE  LET l == p + top + j - 1
                 IN  keep.frames[i][j] = [line |-> LineSeq(k)[l + 1], after |-> SubSeq(LineSeq(k), 1, l)]
      <4>1. PICK l \in Nat : l = p + top + j - 1 /\ l = top + p + j - 1 /\ l <= c /\ l + 1 \in 1..c
        BY <3>11
      <4>2. LineSeq(k) = Piece(k, 0, c)
        BY <3>3, <3>10, LineSeqIs
      <4>3. SubSeq(LineSeq(k), 0 + 1, l) = Piece(k, 0, l)
        <5>1. 0 \in Nat /\ 0 <= l /\ l <= LineCount(k)
          BY <3>10, <4>1
        <5> QED BY <3>3, <5>1, LineSeqIs
      <4>4. SubSeq(LineSeq(k), 1, l) = Piece(k, 0, l)
        BY <4>3
      <4>5. Piece(k, 0, c)[l + 1] = Line(k, l)
        BY <4>1 DEF Piece, Line
      <4>6. keep.frames[i][j] = [line |-> Line(k, l), after |-> Piece(k, 0, l)]
        BY <3>6, <4>1
      <4> QED BY <4>1, <4>2, <4>4, <4>5, <4>6
    <3> QED BY <3>2, <3>4, <3>7, <3>8, <3>10, <3>11
  <2> QED BY <2>3, <2>4, <2>5 DEF DecodeIsSound
<1> QED BY <1>1, RollInvariance, PTL
=============================================================================
