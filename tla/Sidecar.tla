------------------------------- MODULE Sidecar --------------------------------
(***************************************************************************)
(* The roll's sidecar (core/src/stream/sidecar.c): an ordered list of      *)
(* typed entries, the events and the strips, written as one JSON file and  *)
(* read back by the roll, the configuration and the next session.          *)
(*                                                                         *)
(* A JSON value is its type and its nesting (0 for a scalar).  The parser  *)
(* (core/src/util/json.c) refuses a container nested deeper than           *)
(* MAX_DEPTH, counted from where the text will stand in the file.          *)
(*                                                                         *)
(* Bounds: KEYS, EVENTS and STRIPS, and OPS changes in all.  Not   *)
(* here: integers of 19 and more characters, which the parser reads as     *)
(* floating-point numbers.                                                 *)
(***************************************************************************)
EXTENDS Integers, Sequences, SequencesExt

CONSTANTS KEYS, EVENTS, STRIPS, OPS, MAX_DEPTH

ASSUME SidecarAssumption ==
  /\ {"events", "strips"} \intersect KEYS = {}
  /\ EVENTS \in Nat /\ STRIPS \in Nat /\ OPS \in Nat /\ MAX_DEPTH \in Nat \ {0}

VARIABLES
  side,        \* the sidecar in memory: [e, events, strips]
  dom,       \* its cached DOM, or NoRoot
  file,      \* the file: its root object, or NoRoot
  shown,     \* what pk_sidecar_json last gave its caller, and whether it still stands
  ops

sidecarVars == <<side, dom, file, shown, ops>>

-----------------------------------------------------------------------------
(* JSON values, and the parser's depth rule                                *)
Scalar == [type : {"null", "str", "int", "num", "bool"}, nest : {0}]
Container == [type : {"obj", "arr"}, nest : 1..MAX_DEPTH]
Json == Scalar \union Container

Parses(v, base) == v.nest = 0 \/ base + v.nest <= MAX_DEPTH

(* The entry kinds and the value each is written as                        *)
Entry == [key : KEYS, kind : {"STR", "INT", "BOOL", "JSON"}, v : Json]
NoRoot == [version |-> 0, e |-> <<>>, events |-> <<>>, strips |-> <<>>]
New == [e |-> <<>>, events |-> <<>>, strips |-> <<>>]

find(s, key) == SelectInSeq(s.e, LAMBDA x : x.key = key)

put_entry(s, x) ==
  IF find(s, x.key) = 0 THEN [s EXCEPT !.e = Append(@, x)] ELSE [s EXCEPT !.e[find(s, x.key)] = x]

(* checked_copy: a text is parsed at the depth it will stand at            *)
StripBase == 2
ValueBase_OfTheRoot == 0
ValueBase == 1
MayStand(v, base) == Parses(v, base)
IsStrip(v) == v.type = "obj" /\ MayStand(v, StripBase)

Render(s) ==
  [version |-> 1, e |-> [i \in DOMAIN s.e |-> [key |-> s.e[i].key, v |-> s.e[i].v]],
   events |-> s.events, strips |-> s.strips]

Deep(r) ==
  \/ \E i \in DOMAIN r.e : ~Parses(r.e[i].v, 1)
  \/ \E i \in DOMAIN r.strips : ~Parses(r.strips[i], 2)

-----------------------------------------------------------------------------
(* pk_sidecar_read: each value becomes the entry of its type               *)
KindOf(v) == CASE v.type \in {"null", "str"} -> "STR" [] v.type = "int" -> "INT" [] v.type = "bool" -> "BOOL" [] OTHER -> "JSON"

Loads(r) ==
  /\ ~Deep(r) /\ r.version = 1
  /\ \A i \in DOMAIN r.strips : IsStrip(r.strips[i])
  /\ \A i \in DOMAIN r.e : KindOf(r.e[i].v) = "JSON" => MayStand(r.e[i].v, ValueBase)
Loaded(r) ==
  [e |-> [i \in DOMAIN r.e |-> [key |-> r.e[i].key, kind |-> KindOf(r.e[i].v), v |-> r.e[i].v]],
   events |-> r.events, strips |-> r.strips]

-----------------------------------------------------------------------------
(* The calls.  Every change drops the cached DOM                           *)
Dropped == dom' = NoRoot /\ shown' = "none"
Changes(s) == ops < OPS /\ ops' = ops + 1 /\ side' = s /\ UNCHANGED file

SetScalar(key) ==
  /\ \E x \in {[kind |-> "STR", v |-> [type |-> "null", nest |-> 0]], [kind |-> "STR", v |-> [type |-> "str", nest |-> 0]],
               [kind |-> "INT", v |-> [type |-> "int", nest |-> 0]], [kind |-> "BOOL", v |-> [type |-> "bool", nest |-> 0]]} :
       Changes(put_entry(side, [key |-> key, kind |-> x.kind, v |-> x.v]))
  /\ Dropped

SetJson(key) ==
  /\ \E v \in {u \in Json : MayStand(u, ValueBase)} : Changes(put_entry(side, [key |-> key, kind |-> "JSON", v |-> v]))
  /\ Dropped

AddEvent ==
  /\ Len(side.events) < EVENTS
  /\ Changes([side EXCEPT !.events = Append(@, "text")])
  /\ Dropped

(* pk_sidecar_set_strip_json: a replace, or an append one beyond the last  *)
SetStrip(i) ==
  /\ i <= Len(side.strips) + 1 /\ i <= STRIPS
  /\ \E v \in {u \in Json : IsStrip(u)} :
       Changes([side EXCEPT !.strips = IF i > Len(@) THEN Append(@, v) ELSE [@ EXCEPT ![i] = v]])
  /\ Dropped

Truncated == Dropped
TruncateStrips(n) ==
  /\ n < Len(side.strips)
  /\ Changes([side EXCEPT !.strips = SubSeq(@, 1, n)])
  /\ Truncated

(* pk_sidecar_json builds the DOM from the text when there is none         *)
AsksJson ==
  /\ dom' = IF dom # NoRoot THEN dom ELSE IF Deep(Render(side)) THEN NoRoot ELSE Render(side)
  /\ shown' = IF dom' = NoRoot THEN "nothing" ELSE "dom"
  /\ UNCHANGED <<side, file, ops>>

(* pk_sidecar_write is atomic: the file is the old one, or the new         *)
Write ==
  /\ file' \in {file, Render(side)}
  /\ UNCHANGED <<side, dom, shown, ops>>

(* The next process reads it                                               *)
Read ==
  /\ file # NoRoot /\ Loads(file)
  /\ side' = Loaded(file)
  /\ Dropped
  /\ UNCHANGED <<file, ops>>

SidecarInit == side = New /\ dom = NoRoot /\ file = NoRoot /\ shown = "none" /\ ops = 0

SidecarNext ==
  \/ \E k \in KEYS : SetScalar(k) \/ SetJson(k)
  \/ AddEvent
  \/ \E i \in 1..STRIPS : SetStrip(i)
  \/ \E n \in 0..STRIPS : TruncateStrips(n)
  \/ AsksJson \/ Write \/ Read

SidecarSpec == SidecarInit /\ [][SidecarNext]_sidecarVars

-----------------------------------------------------------------------------
SidecarTypeOK ==
  /\ side.e \in Seq(Entry) /\ \A i, j \in DOMAIN side.e : side.e[i].key = side.e[j].key => i = j
  /\ side.strips \in Seq(Json) /\ side.events \in Seq({"text"})
  /\ ops \in 0..OPS /\ shown \in {"none", "nothing", "dom"}

(* What the setters accept can be read back: a file written from any       *)
(* sidecar is loaded by the next process with the same values, however     *)
(* deep they nest (checked_copy parses a text at the depth it will stand   *)
(* at), and pk_sidecar_json always has a DOM for it.                       *)
WrittenIsRead ==
  /\ file # NoRoot => Loads(file) /\ Render(Loaded(file)) = file
  /\ shown # "nothing"

(* The DOM a caller holds is the sidecar's, until the next change.         *)
DomIsCurrent == dom # NoRoot => dom = Render(side)

(* What the sidecar's readers get.                                         *)
SidecarIsRead == SidecarTypeOK /\ WrittenIsRead /\ DomIsCurrent
==============================================================================
