--------------------------------- MODULE Ring ---------------------------------
(***************************************************************************)
(* The byte ring between the scan stream's two threads                     *)
(* (core/src/stream/ring.c): a circular buffer under a mutex, written by   *)
(* the reader of the scanner and read by the writer of the raw file.  It   *)
(* takes what fits and remembers that it dropped something.                *)
(***************************************************************************)
EXTENDS Naturals, Sequences

CONSTANTS
  CAP,     \* bytes of the ring (r->cap)
  NoByte   \* what the buffer holds before it is written

ASSUME RingAssumption == CAP \in Nat \ {0}

VARIABLES
  buf,       \* r->buf
  head,      \* r->head: the oldest byte's slot
  count,     \* r->count
  closed,    \* r->closed
  overflow   \* r->overflow

ring == <<buf, head, count, closed, overflow>>

RingInit ==
  /\ buf = [i \in 0..CAP-1 |-> NoByte] /\ head = 0 /\ count = 0
  /\ closed = FALSE /\ overflow = FALSE


Least(a, b) == IF a < b THEN a ELSE b

(* How many of n bytes fit.                                                *)
Room(n) == Least(n, CAP - count)

(* The slot k places after the oldest byte's.                              *)
Slot(k) == (head + k) % CAP

(* pkr_write: data' head as far as there is room, behind the newest byte.  *)
RingWrite(data) ==
  LET take == Room(Len(data)) IN
  /\ buf' = [i \in 0..CAP-1 |->
       IF \E k \in 1..take : i = Slot(count + k - 1)
         THEN data[CHOOSE k \in 1..take : i = Slot(count + k - 1)] ELSE buf[i]]
  /\ count' = count + take
  /\ overflow' = (overflow \/ take < Len(data))
  /\ UNCHANGED <<head, closed>>

(* pkr_read: the oldest bytes, at most max of them.                        *)
Oldest(max) == [k \in 1..Least(count, max) |-> buf[Slot(k - 1)]]
RingRead(max) ==
  /\ head' = Slot(Least(count, max)) /\ count' = count - Least(count, max)
  /\ UNCHANGED <<buf, closed, overflow>>

RingClose == closed' = TRUE /\ UNCHANGED <<buf, head, count, overflow>>
Drained == closed /\ count = 0
=============================================================================
