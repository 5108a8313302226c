----------------------------- MODULE StreamProofs -----------------------------
(***************************************************************************)
(* Proofs about Stream: the raw file is a prefix of the bytes the scanner  *)
(* sent and a stop that returns PK_OK has all of them, whatever wraps,     *)
(* overflows or fails; and the reader's steps on the line grid are steps   *)
(* of LineSync, whatever the other threads do meanwhile.  At the end,      *)
(* proofs about Dx: what the parser makes of the packets is what they say. *)
(***************************************************************************)
EXTENDS Stream, Dx, WellFoundedInduction, FiniteSetTheorems, SequenceTheorems, TLAPS

-----------------------------------------------------------------------------
(* The ring's arithmetic                                                   *)

(* The slot k places after slot h.                                         *)
At(h, k) == (h + k) % CAP

(* A slot's number wraps at most once.                                     *)
LEMMA AtIs ==
  ASSUME NEW h \in 0..CAP-1, NEW k \in 0..CAP
  PROVE  At(h, k) = IF h + k < CAP THEN h + k ELSE h + k - CAP
<1>1. PICK c \in Nat \ {0} : c = CAP
  BY RingAssumption
<1>2. PICK n \in 0..2*c-1 : n = h + k
  BY <1>1
<1>3. n % c = IF n < c THEN n ELSE n - c
  <2>1. CASE n < c
    BY <2>1
  <2>2. CASE n >= c
    BY <2>2
  <2> QED BY <2>1, <2>2
<1> QED BY <1>1, <1>2, <1>3 DEF At

(* Slots are slots.                                                        *)
LEMMA AtIsASlot ==
  ASSUME NEW h \in 0..CAP-1, NEW k \in 0..CAP
  PROVE  At(h, k) \in 0..CAP-1
BY AtIs, RingAssumption

(* A slot's slots are the ring's.                                          *)
LEMMA AtOfAt ==
  ASSUME NEW h \in 0..CAP-1, NEW m \in 0..CAP, NEW k \in 0..CAP, m + k <= CAP
  PROVE  At(At(h, m), k) = At(h, m + k)
<1>1. At(h, m) = IF h + m < CAP THEN h + m ELSE h + m - CAP
  BY AtIs
<1>2. At(h, m) \in 0..CAP-1 /\ m + k \in 0..CAP
  BY AtIsASlot, RingAssumption
<1>3. At(At(h, m), k) = IF At(h, m) + k < CAP THEN At(h, m) + k ELSE At(h, m) + k - CAP
  BY <1>2, AtIs
<1>4. At(h, m + k) = IF h + (m + k) < CAP THEN h + (m + k) ELSE h + (m + k) - CAP
  BY <1>2, AtIs
<1> QED BY <1>1, <1>3, <1>4, RingAssumption

(* Places less than a ring apart have different slots.                     *)
LEMMA AtDiffers ==
  ASSUME NEW h \in 0..CAP-1, NEW k \in 0..CAP-1, NEW m \in 0..CAP-1, At(h, k) = At(h, m)
  PROVE  k = m
<1>1. At(h, k) = IF h + k < CAP THEN h + k ELSE h + k - CAP
  BY AtIs, RingAssumption
<1>2. At(h, m) = IF h + m < CAP THEN h + m ELSE h + m - CAP
  BY AtIs, RingAssumption
<1>3. CAP \in Nat /\ h \in Nat /\ k \in Nat /\ m \in Nat /\ k < CAP /\ m < CAP
  BY RingAssumption
<1>4. (IF h + k < CAP THEN h + k ELSE h + k - CAP) = (IF h + m < CAP THEN h + m ELSE h + m - CAP)
  BY <1>1, <1>2
<1> HIDE DEF At
<1> QED BY <1>3, <1>4

-----------------------------------------------------------------------------
(* The ring's operations                                                   *)

Bytes == (0..MAX_BYTES-1) \cup {NoByte}
RingTypes == buf \in [0..CAP-1 -> Bytes] /\ head \in 0..CAP-1 /\ count \in 0..CAP

(* What a write takes is part of the data and fits (pkr_write's room).     *)
LEMMA RoomIs ==
  ASSUME RingTypes, NEW n \in Nat
  PROVE  Room(n) \in 0..n /\ count + Room(n) \in 0..CAP
BY RingAssumption DEF RingTypes, Room, Least

(* A write puts the data's head behind what the ring holds.                *)
LEMMA WriteIsBehind ==
  ASSUME RingTypes, NEW data \in Seq(0..MAX_BYTES-1), RingWrite(data)
  PROVE  /\ RingTypes'
         /\ count' = count + Room(Len(data))
         /\ \A k \in 0..count-1 : buf'[At(head', k)] = buf[At(head, k)]
         /\ \A k \in 1..Room(Len(data)) : buf'[At(head', count + k - 1)] = data[k]
<1> DEFINE take == Room(Len(data))
           Hits(i, k) == i = Slot(count + k - 1)
<1>1. /\ Len(data) \in Nat
      /\ take \in 0..Len(data) /\ count + take \in 0..CAP
      /\ \A k \in 1..Len(data) : data[k] \in 0..MAX_BYTES-1
  BY LenProperties, RoomIs
<1>2. /\ count' = count + take /\ head' = head
      /\ buf' = [i \in 0..CAP-1 |-> IF \E k \in 1..take : Hits(i, k)
                                      THEN data[CHOOSE k \in 1..take : Hits(i, k)] ELSE buf[i]]
  BY DEF RingWrite
<1> HIDE DEF take
<1>3. head \in 0..CAP-1 /\ count \in 0..CAP /\ CAP \in Nat \ {0} /\ buf \in [0..CAP-1 -> Bytes]
  BY RingAssumption DEF RingTypes
<1>4. \A k \in 1..take : Slot(count + k - 1) = At(head, count + k - 1) /\ count + k - 1 \in 0..CAP-1
  BY <1>1, <1>3 DEF Slot, At
<1>5. ASSUME NEW k \in 1..take
      PROVE  buf'[At(head, count + k - 1)] = data[k]
  <2> DEFINE i == At(head, count + k - 1)
             j == CHOOSE j \in 1..take : Hits(i, j)
  <2>1. i \in 0..CAP-1
    BY <1>3, <1>4, AtIsASlot
  <2>2. Hits(i, k)
    BY <1>4
  <2>3. j \in 1..take /\ Hits(i, j)
    BY <2>2
  <2>4. count + j - 1 = count + k - 1
    <3>1. At(head, count + j - 1) = At(head, count + k - 1)
      BY <2>3, <1>4
    <3> QED BY <3>1, <2>3, <1>3, <1>4, AtDiffers
  <2>5. j = k
    BY <2>4, <2>3, <1>1, <1>3
  <2>6. buf'[i] = data[j]
    BY <1>2, <2>1, <2>2
  <2> QED BY <2>5, <2>6
<1>6. ASSUME NEW k \in 0..count-1
      PROVE  buf'[At(head, k)] = buf[At(head, k)]
  <2>1. k \in 0..CAP-1 /\ k \in 0..CAP
    BY <1>3
  <2>a. At(head, k) \in 0..CAP-1
    BY <2>1, <1>3, AtIsASlot
  <2>2. \A j \in 1..take : ~Hits(At(head, k), j)
    <3> SUFFICES ASSUME NEW j \in 1..take, At(head, k) = At(head, count + j - 1)
                 PROVE  FALSE
      BY <1>4
    <3>1. k = count + j - 1
      BY <1>3, <1>4, <2>1, AtDiffers
    <3> QED BY <3>1, <1>1, <1>3
  <2> QED BY <1>2, <2>a, <2>2
<1>7. buf' \in [0..CAP-1 -> Bytes]
  <2> SUFFICES ASSUME NEW i \in 0..CAP-1
               PROVE  (IF \E k \in 1..take : Hits(i, k)
                         THEN data[CHOOSE k \in 1..take : Hits(i, k)] ELSE buf[i]) \in Bytes
    BY <1>2
  <2>1. CASE \E k \in 1..take : Hits(i, k)
    <3>1. (CHOOSE k \in 1..take : Hits(i, k)) \in 1..take
      BY <2>1
    <3>2. data[CHOOSE k \in 1..take : Hits(i, k)] \in 0..MAX_BYTES-1
      BY <3>1, <1>1
    <3> QED BY <2>1, <3>2 DEF Bytes
  <2>2. CASE ~\E k \in 1..take : Hits(i, k)
    BY <2>2, <1>3
  <2> QED BY <2>1, <2>2
<1> QED BY <1>1, <1>2, <1>3, <1>5, <1>6, <1>7 DEF RingTypes, take

(* A read takes the oldest bytes in their order and leaves the others.     *)
LEMMA ReadIsOldest ==
  ASSUME RingTypes, NEW max \in Nat \ {0}, RingRead(max), count > 0
  PROVE  /\ RingTypes'
         /\ \E m \in 1..count :
              /\ Oldest(max) = [k \in 1..m |-> buf[At(head, k - 1)]]
              /\ count' = count - m
              /\ \A k \in 0..count'-1 : buf'[At(head', k)] = buf[At(head, m + k)]
<1> DEFINE m == Least(count, max)
<1>1. head \in 0..CAP-1 /\ count \in 0..CAP /\ CAP \in Nat \ {0} /\ buf \in [0..CAP-1 -> Bytes]
  BY RingAssumption DEF RingTypes
<1>2. m \in 1..count
  BY <1>1 DEF Least
<1>3. Oldest(max) = [k \in 1..m |-> buf[At(head, k - 1)]]
  BY DEF Oldest, Slot, At
<1>4. head' = At(head, m) /\ count' = count - m /\ buf' = buf
  BY DEF RingRead, Slot, At
<1> HIDE DEF m
<1>5. head' \in 0..CAP-1 /\ count' \in 0..CAP
  <2>1. m \in 0..CAP /\ count - m \in 0..CAP
    BY <1>1, <1>2
  <2>2. At(head, m) \in 0..CAP-1
    BY <1>1, <2>1, AtIsASlot
  <2> QED BY <2>1, <2>2, <1>4
<1>6. ASSUME NEW k \in 0..count'-1
      PROVE  buf'[At(head', k)] = buf[At(head, m + k)]
  <2>1. m \in 0..CAP /\ k \in 0..CAP /\ m + k <= CAP
    BY <1>1, <1>2, <1>4
  <2> QED BY <2>1, <1>1, <1>4, AtOfAt
<1> QED BY <1>1, <1>2, <1>3, <1>4, <1>5, <1>6 DEF RingTypes

-----------------------------------------------------------------------------
(* The invariant                                                           *)

Types ==
  /\ RingTypes
  /\ ctl \in {"off", "unwinding", "running", "join reader", "join writer", "stopped"}
  /\ fatal \in {"OK", "NOMEM", "LOST_SYNC", "OVERFLOW", "IO", "ERROR"}
  /\ rd \in {"none", "loop", "read", "ring", "sync", "done"}
  /\ got \in 0..CHUNK /\ received \in 0..MAX_BYTES /\ st \in {"OK", "ERROR"}
  /\ wt \in [pc : {"none", "loop", "write", "done"}, chunk : Seq(Bytes)] /\ file \in Seq(Bytes)

(* What the grid's code leaves to the reader: its chunk and the bytes it   *)
(* has counted.                                                            *)
ChunkIsRecord ==
  /\ chunk = [put |-> chunk.put, at |-> chunk.at, sy |-> chunk.sy]
  /\ chunk.put \in Nat /\ chunk.sy \in {"OK", "LOST_SYNC", "NOMEM"} /\ bytes \in Nat

(* Which thread is where: the ring is closed when the reader has ended.    *)
Stages ==
  /\ rd = "none" <=> ctl \in {"off", "unwinding"}
  /\ wt.pc = "none" <=> ctl = "off"
  /\ rd = "none" => ~overflow /\ ~failed /\ count = 0 /\ wt.pc # "write"
  /\ closed => ctl \in {"unwinding", "join writer", "stopped"}
  /\ ctl \in {"join writer", "stopped"} => rd = "done"
  /\ ctl = "stopped" => wt.pc = "done"
  /\ wt.pc # "write" => wt.chunk = <<>>

(* Every loss is told, at the latest when the reader is done with the      *)
(* chunk that did not fit; the writer ends on an empty ring or a failure.  *)
Told ==
  /\ failed => fatal # "OK"
  /\ overflow => rd \in {"sync", "loop", "done"} /\ (rd = "sync" \/ fatal # "OK")
  /\ wt.pc = "done" => fatal # "OK" \/ ctl = "unwinding" \/ (closed /\ count = 0)

(* What the reader has counted, before the ring drops any.                 *)
Counts ==
  /\ got <= received
  /\ rd = "sync" => chunk.put <= got /\ (overflow <=> chunk.put < got)
  /\ ~overflow => bytes = IF rd \in {"ring", "sync"} THEN received - got ELSE received

(* The bytes are in the file, in the writer's chunk and in the ring, one   *)
(* behind the other.                                                       *)
Sent == Len(file) + Len(wt.chunk) + count
FileIsFirst == Len(file) <= received /\ \A k \in 1..Len(file) : file[k] = k - 1
Flows ==
  /\ Sent <= received
  /\ ~overflow => Sent = IF rd = "ring" THEN received - got ELSE received
  /\ \A k \in 1..Len(wt.chunk) : wt.chunk[k] = Len(file) + k - 1
  /\ \A k \in 0..count-1 : buf[At(head, k)] = Len(file) + Len(wt.chunk) + k
Flow == FileIsFirst /\ (~failed => Flows)

StreamInv == Types /\ ChunkIsRecord /\ Stages /\ Told /\ Counts /\ Flow

Flags == {closed, overflow, stop, rearm, failed} \subseteq BOOLEAN

-----------------------------------------------------------------------------
(* Steps of the grid                                                       *)

(* Whatever sync_chunk does on a piece, the chunk's length and the bytes   *)
(* counted so far stay (they count in Accepts).                            *)
LEMMA SyncsKeepCount ==
  ASSUME ChunkIsRecord, Syncs
  PROVE  ChunkIsRecord' /\ bytes' = bytes /\ rd' = rd /\ chunk'.put = chunk.put
<1> USE DEF ChunkIsRecord, cfg, grid, search, tap, history
<1>1. CASE SearchesOn
  BY <1>1 DEF SearchesOn
<1>2. CASE FindsStart
  BY <1>2 DEF FindsStart
<1>3. CASE KeepsGrid
  BY <1>3 DEF KeepsGrid
<1>4. CASE LosesSync
  BY <1>4 DEF LosesSync
<1>5. CASE RestartsSearch
  BY <1>5 DEF RestartsSearch
<1> QED BY <1>1, <1>2, <1>3, <1>4, <1>5 DEF Syncs

(* A re-arm counts no byte and leaves the chunk alone.                     *)
LEMMA RearmKeepsCount ==
  ASSUME TakesRearm
  PROVE  bytes' = bytes /\ chunk' = chunk
BY DEF TakesRearm

-----------------------------------------------------------------------------
(* Steps of the threads                                                    *)

USE DEF StreamInv, ring, read, writer, control, others, unread, linevars, cfg, grid, search, tap, history

(* Constants are numbers.                                                  *)
LEMMA Numbers == CAP \in Nat \ {0} /\ CHUNK \in Nat \ {0} /\ MAX_BYTES \in Nat
BY RingAssumption, LineAssumption

(* The initial states satisfy the invariant.                               *)
LEMMA InitHolds ==
  ASSUME StreamInit
  PROVE  StreamInv
<1> USE StreamInit DEF StreamInit, RingInit
<1>1. Types
  BY Numbers, EmptySeq DEF Types, RingTypes, Bytes
<1>2. ChunkIsRecord
  BY DEF ChunkIsRecord, NoChunk
<1>3. Stages
  BY DEF Stages
<1>4. Told
  BY DEF Told
<1>5. Counts
  BY DEF Counts
<1>6. Flow
  BY EmptySeq DEF Flow, FileIsFirst, Flows, Sent
<1> QED BY <1>1, <1>2, <1>3, <1>4, <1>5, <1>6

(* A step that moves a thread and no byte.                                 *)
Still ==
  /\ UNCHANGED <<buf, head, count, overflow, got, received, st, failed, file, bytes>>
  /\ wt'.chunk = wt.chunk

(* When no byte moves the bytes lie as before.                             *)
LEMMA StillFlows ==
  ASSUME StreamInv, Still, rd = "ring" <=> rd' = "ring"
  PROVE  Flow'
BY DEF Still, Flow, FileIsFirst, Flows, Sent

(* pk_stream_start, also when a thread cannot have its chunk.              *)
LEMMA StartKeeps ==
  ASSUME StreamInv, StreamStarts
  PROVE  StreamInv'
<1>1. /\ Still /\ UNCHANGED <<closed, chunk>> /\ ctl = "off" /\ ctl' = "running"
      /\ rd' \in {"loop", "done"} /\ wt'.pc \in {"loop", "done"} /\ wt' = [wt EXCEPT !.pc = wt'.pc]
      /\ fatal' \in {"OK", "NOMEM"} /\ (fatal' = "OK" => wt'.pc # "done")
  BY DEF StreamStarts, Still, Types
<1>2. rd = "none" /\ wt.pc = "none" /\ ~overflow /\ ~failed
  BY <1>1 DEF Stages
<1>3. Types'
  BY <1>1 DEF Types, RingTypes, Still
<1>4. ChunkIsRecord'
  BY <1>1 DEF ChunkIsRecord, Still
<1>5. Stages'
  BY <1>1, <1>2 DEF Stages, Still
<1>6. Told'
  BY <1>1, <1>2 DEF Told, Still
<1>7. Counts'
  BY <1>1, <1>2 DEF Counts, Still
<1>8. Flow'
  BY <1>1, <1>2, StillFlows
<1> QED BY <1>3, <1>4, <1>5, <1>6, <1>7, <1>8

(* A failed pk_stream_start and its unwinding.                             *)
LEMMA UnwindKeeps ==
  ASSUME StreamInv, StartFails \/ Unwound
  PROVE  StreamInv'
<1>1. /\ Still /\ UNCHANGED <<chunk, rd, fatal>> /\ wt' = [wt EXCEPT !.pc = wt'.pc]
      /\ \/ ctl = "off" /\ ctl' = "unwinding" /\ wt'.pc = "loop"
         \/ ctl = "unwinding" /\ ctl' = "off" /\ wt'.pc = "none" /\ wt.pc = "done" /\ ~closed'
  <2>1. CASE StartFails
    BY <2>1 DEF StartFails, Still, RingClose, Types
  <2>2. CASE Unwound
    BY <2>2 DEF Unwound, Still, Types
  <2> QED BY <2>1, <2>2
<1>2. rd = "none" /\ ~overflow /\ ~failed
  BY <1>1 DEF Stages
<1>3. Types'
  BY <1>1 DEF Types, RingTypes, Still
<1>4. ChunkIsRecord'
  BY <1>1 DEF ChunkIsRecord, Still
<1>5. Stages'
  BY <1>1, <1>2 DEF Stages, Still
<1>6. Told'
  BY <1>1, <1>2 DEF Told, Still
<1>7. Counts'
  BY <1>1, <1>2 DEF Counts, Still
<1>8. Flow'
  BY <1>1, <1>2, StillFlows
<1> QED BY <1>3, <1>4, <1>5, <1>6, <1>7, <1>8

(* A re-arm asked for, and the steps of pk_stream_stop.                    *)
LEMMA StopKeeps ==
  ASSUME StreamInv, AskRearm \/ Stop \/ ReaderJoined \/ WriterJoined
  PROVE  StreamInv'
<1>1. /\ Still /\ UNCHANGED <<chunk, rd, wt>>
      /\ \/ ctl = "running" /\ ctl' = "running" /\ UNCHANGED <<closed, fatal>>
         \/ ctl = "running" /\ ctl' = "join reader" /\ UNCHANGED <<closed, fatal>>
         \/ ctl = "join reader" /\ ctl' = "join writer" /\ rd = "done" /\ UNCHANGED fatal
         \/ ctl = "join writer" /\ ctl' = "stopped" /\ wt.pc = "done" /\ UNCHANGED closed
            /\ fatal' \in {fatal, "IO", "OVERFLOW"} /\ (fatal # "OK" => fatal' = fatal)
  <2>1. CASE AskRearm
    BY <2>1 DEF AskRearm, Still
  <2>2. CASE Stop
    BY <2>2 DEF Stop, Still
  <2>3. CASE ReaderJoined
    BY <2>3 DEF ReaderJoined, ClosesRing, RingClose, Still
  <2>4. CASE WriterJoined
    BY <2>4 DEF WriterJoined, First, Still
  <2> QED BY <2>1, <2>2, <2>3, <2>4
<1>2. rd # "none"
  BY <1>1 DEF Stages
<1>3. Types'
  BY <1>1 DEF Types, RingTypes, Still
<1>4. ChunkIsRecord'
  BY <1>1 DEF ChunkIsRecord, Still
<1>5. Stages'
  <2>1. /\ rd' = rd /\ wt' = wt /\ overflow' = overflow /\ failed' = failed /\ ctl' # "off" /\ ctl' # "unwinding"
        /\ ctl # "off" /\ ctl # "unwinding"
    BY <1>1 DEF Still
  <2>2. closed' => ctl' \in {"unwinding", "join writer", "stopped"}
    BY <1>1 DEF Stages
  <2>3. ctl' \in {"join writer", "stopped"} => rd' = "done"
    BY <1>1 DEF Stages
  <2>4. ctl' = "stopped" => wt'.pc = "done"
    BY <1>1
  <2> QED BY <2>1, <2>2, <2>3, <2>4 DEF Stages
<1>6. Told'
  BY <1>1, <1>2 DEF Told, Still, Stages
<1>7. Counts'
  BY <1>1, <1>2 DEF Counts, Still
<1>8. Flow'
  BY <1>1, StillFlows
<1> QED BY <1>3, <1>4, <1>5, <1>6, <1>7, <1>8

(* The reader between two chunks, and on a piece of one.                   *)
LEMMA ReaderKeeps ==
  ASSUME StreamInv, Quits \/ Reads \/ TimesOut \/ SyncsPiece
  PROVE  StreamInv'
<1>1. /\ Still /\ UNCHANGED <<closed, ctl, fatal, wt>> /\ chunk'.put = chunk.put /\ ChunkIsRecord'
      /\ \/ rd = "loop" /\ rd' = "done"
         \/ rd = "loop" /\ rd' = "read" /\ fatal = "OK"
         \/ rd = "read" /\ rd' = "loop"
         \/ rd' = rd
  <2>1. CASE Quits
    BY <2>1 DEF Quits, Goes, Still, ChunkIsRecord
  <2>2. CASE Reads
    BY <2>2 DEF Reads, Goes, Still, ChunkIsRecord
  <2>3. CASE TimesOut
    BY <2>3 DEF TimesOut, Goes, Still, ChunkIsRecord
  <2>4. CASE SyncsPiece
    BY <2>4, SyncsKeepCount DEF SyncsPiece, Still
  <2> QED BY <2>1, <2>2, <2>3, <2>4
<1>3. Types'
  BY <1>1, ZenonT(60) DEF Types, RingTypes, Still
<1>5. Stages'
  BY <1>1 DEF Stages, Still
<1>6. Told'
  BY <1>1 DEF Told, Still
<1>7. Counts'
  BY <1>1 DEF Counts, Still
<1>8. Flow'
  BY <1>1, StillFlows
<1> QED BY <1>1, <1>3, <1>5, <1>6, <1>7, <1>8

(* stream_read gives bytes, an error or both.                              *)
LEMMA ReadReturnKeeps ==
  ASSUME StreamInv, ReadReturns
  PROVE  StreamInv'
<1>1. PICK n \in 0..Least(CHUNK, MAX_BYTES - received), e \in {"OK", "ERROR"} :
        /\ got' = n /\ st' = e /\ received' = received + n
        /\ IF n > 0 THEN rd' = "ring" /\ fatal' = fatal
                    ELSE rd' = "loop" /\ fatal' = First(fatal, e)
  BY DEF ReadReturns
<1>2. /\ UNCHANGED <<buf, head, count, closed, overflow, ctl, wt, failed, file>>
      /\ bytes' = bytes /\ chunk' = chunk /\ rd = "read"
  BY RearmKeepsCount DEF ReadReturns
<1>a. received \in 0..MAX_BYTES
  BY DEF Types
<1>3. n \in 0..CHUNK /\ received + n \in 0..MAX_BYTES /\ received \in Nat
  BY <1>a, Numbers DEF Least
<1>4. ~overflow
  BY <1>2 DEF Told
<1>5. \/ n > 0 /\ rd' = "ring" /\ fatal' = fatal
      \/ n = 0 /\ rd' = "loop" /\ (fatal # "OK" => fatal' = fatal) /\ fatal' \in {fatal, "ERROR", "OK"}
  BY <1>1, <1>3 DEF First
<1>6. Types'
  BY <1>1, <1>2, <1>3, <1>5 DEF Types, RingTypes
<1>7. ChunkIsRecord'
  BY <1>2 DEF ChunkIsRecord
<1>8. Stages'
  BY <1>2, <1>5 DEF Stages
<1>9. Told'
  BY <1>2, <1>4, <1>5 DEF Told
<1>10. Counts'
  BY <1>1, <1>2, <1>3, <1>4, <1>5 DEF Counts
<1>11. FileIsFirst'
  <2>1. Len(file) \in Nat
    BY LenProperties DEF Types
  <2> QED BY <2>1, <1>1, <1>2, <1>3 DEF Flow, FileIsFirst
<1>12. ASSUME ~failed
       PROVE  Flows'
  <2>1. Flows /\ Sent = received
    BY <1>12, <1>2, <1>4 DEF Flow, Flows
  <2>2. Sent' = Sent
    BY <1>2 DEF Sent
  <2>3. received' = received + n /\ n >= 0 /\ n \in Int /\ got' = n /\ (rd' # "ring" => n = 0)
    BY <1>1, <1>3, <1>5
  <2>4. Sent' <= received' /\ (~overflow' => Sent' = IF rd' = "ring" THEN received' - got' ELSE received')
    BY <2>1, <2>2, <2>3, <1>3
  <2>5. /\ \A k \in 1..Len(wt'.chunk) : wt'.chunk[k] = Len(file') + k - 1
        /\ \A k \in 0..count'-1 : buf'[At(head', k)] = Len(file') + Len(wt'.chunk) + k
    BY <2>1, <1>2 DEF Flows
  <2> QED BY <2>4, <2>5 DEF Flows
<1> QED BY <1>6, <1>7, <1>8, <1>9, <1>10, <1>11, <1>12, <1>2 DEF Flow

(* The chunk the scanner gave, as the numbers of its bytes.                *)
LEMMA DataIs ==
  ASSUME NEW n \in Nat, NEW from \in Nat, from + n <= MAX_BYTES
  PROVE  LET data == [k \in 1..n |-> from + k - 1] IN
         data \in Seq(0..MAX_BYTES-1) /\ Len(data) = n /\ \A k \in 1..n : data[k] = from + k - 1
<1> DEFINE data == [k \in 1..n |-> from + k - 1]
<1>1. \A k \in 1..n : from + k - 1 \in 0..MAX_BYTES-1
  BY Numbers
<1>2. data \in [1..n -> 0..MAX_BYTES-1]
  BY <1>1
<1>3. data \in Seq(0..MAX_BYTES-1)
  BY <1>2, SeqDef, ZenonT(60)
<1>4. Len(data) = n
  <2>1. DOMAIN data = 1..Len(data) /\ Len(data) \in Nat /\ DOMAIN data = 1..n
    BY <1>3, LenProperties
  <2> QED BY <2>1
<1> QED BY <1>3, <1>4

(* The ring takes the head of the chunk behind what it holds; when it      *)
(* drops the rest, the reader is in the chunk that tells so.               *)
LEMMA ToRingKeeps ==
  ASSUME StreamInv, ToRing
  PROVE  StreamInv'
<1> DEFINE from == received - got
           data == [k \in 1..got |-> from + k - 1]
           take == Room(got)
<1>a. got \in 0..CHUNK /\ received \in 0..MAX_BYTES /\ got <= received /\ RingTypes
  BY DEF Types, Counts
<1>1. got \in Nat /\ received \in Nat /\ from \in Nat /\ from + got <= MAX_BYTES /\ RingTypes
  BY <1>a, Numbers
<1>2. data \in Seq(0..MAX_BYTES-1) /\ Len(data) = got /\ \A k \in 1..got : data[k] = from + k - 1
  BY <1>1, DataIs
<1>3. RingWrite(data)
  BY DEF ToRing
<1>4. take \in 0..got /\ count + take \in 0..CAP
  BY <1>1, RoomIs
<1>5. /\ RingTypes' /\ count' = count + take
      /\ \A k \in 0..count-1 : buf'[At(head', k)] = buf[At(head, k)]
      /\ \A k \in 1..take : buf'[At(head', count + k - 1)] = data[k]
  BY <1>1, <1>2, <1>3, WriteIsBehind
<1>6. /\ closed' = closed /\ head' = head /\ (overflow' <=> (overflow \/ take < got))
  BY <1>2, <1>3 DEF RingWrite
<1>7. /\ chunk' = [NoChunk EXCEPT !.put = take] /\ bytes' = bytes
      /\ UNCHANGED <<got, received, st, fatal, ctl, wt, failed, file>>
      /\ rd = "ring" /\ rd' = "sync"
  BY DEF ToRing, Arrives
<1> HIDE DEF data, take, from
<1>8. ~overflow
  BY <1>7 DEF Told
<1>9. Types'
  BY <1>5, <1>7 DEF Types
<1>10. ChunkIsRecord' /\ chunk'.put = take
  BY <1>4, <1>7 DEF ChunkIsRecord, NoChunk
<1>11. Stages'
  BY <1>6, <1>7 DEF Stages
<1>12. Told'
  BY <1>4, <1>5, <1>6, <1>7 DEF Told, Stages
<1>13. Counts'
  BY <1>1, <1>4, <1>6, <1>7, <1>8, <1>10 DEF Counts
<1>14. FileIsFirst'
  BY <1>7 DEF Flow, FileIsFirst
<1>15. ASSUME ~failed
       PROVE  Flows'
  <2>1. /\ Len(file) \in Nat /\ Len(wt.chunk) \in Nat /\ count \in Nat
        /\ Len(file) + Len(wt.chunk) + count = from
    <3>1. Len(file) \in Nat /\ Len(wt.chunk) \in Nat
      BY LenProperties DEF Types
    <3>2. count \in Nat
      BY <1>1, Numbers DEF RingTypes
    <3>3. Sent = received - got
      BY <1>7, <1>8, <1>15 DEF Flow, Flows
    <3> QED BY <3>1, <3>2, <3>3 DEF Sent, from
  <2>2. Sent' = from + take
    BY <1>5, <1>7, <2>1, <1>4 DEF Sent
  <2>3. Sent' <= received' /\ (~overflow' => Sent' = IF rd' = "ring" THEN received' - got' ELSE received')
    BY <2>2, <1>1, <1>4, <1>6, <1>7 DEF from
  <2>4. \A k \in 1..Len(wt'.chunk) : wt'.chunk[k] = Len(file') + k - 1
    BY <1>7, <1>15 DEF Flow, Flows
  <2>5. ASSUME NEW k \in 0..count'-1
        PROVE  buf'[At(head', k)] = Len(file') + Len(wt'.chunk) + k
    <3>1. CASE k < count
      <4>1. k \in 0..count-1
        BY <3>1, <2>1
      <4>2. buf[At(head, k)] = Len(file) + Len(wt.chunk) + k
        BY <4>1, <1>15 DEF Flow, Flows
      <4> QED BY <4>1, <4>2, <1>5, <1>7
    <3>2. CASE k >= count
      <4>1. k - count + 1 \in 1..take /\ count + (k - count + 1) - 1 = k
        BY <3>2, <1>4, <1>5, <2>1
      <4>2. buf'[At(head', k)] = data[k - count + 1]
        BY <4>1, <1>5
      <4>3. data[k - count + 1] = from + (k - count + 1) - 1
        BY <4>1, <1>2, <1>4
      <4> QED BY <4>2, <4>3, <2>1, <1>7
    <3> QED BY <3>1, <3>2, <2>1
  <2> QED BY <2>3, <2>4, <2>5 DEF Flows
<1> QED BY <1>7, <1>9, <1>10, <1>11, <1>12, <1>13, <1>14, <1>15 DEF Flow

(* The chunk's bytes count; what the ring dropped is told (stream.c:239).  *)
LEMMA ChunkDoneKeeps ==
  ASSUME StreamInv, ChunkDone
  PROVE  StreamInv'
<1>1. /\ UNCHANGED <<buf, head, count, closed, overflow, got, received, st, ctl, wt, failed, file>>
      /\ bytes' = bytes + chunk.put /\ chunk' = [NoChunk EXCEPT !.sy = chunk.sy]
      /\ rd = "sync" /\ rd' = "loop"
      /\ fatal' = First(First(fatal, ChunkError), st)
  BY DEF ChunkDone, Accepts, Counted
<1>2. /\ got \in Nat /\ received \in Nat /\ bytes \in Nat /\ chunk.put \in Nat
      /\ got <= received /\ chunk.put <= got /\ (overflow <=> chunk.put < got)
  <2>1. got \in 0..CHUNK /\ received \in 0..MAX_BYTES
    BY DEF Types
  <2>2. got \in Nat /\ received \in Nat
    BY <2>1, Numbers
  <2> QED BY <2>2, <1>1 DEF ChunkIsRecord, Counts
<1>3. ChunkError = (IF overflow THEN "OVERFLOW" ELSE chunk.sy)
  BY <1>2 DEF ChunkError
<1>4. /\ fatal' \in {"OK", "NOMEM", "LOST_SYNC", "OVERFLOW", "IO", "ERROR"}
      /\ fatal # "OK" => fatal' # "OK"
      /\ overflow => fatal' # "OK"
  BY <1>1, <1>3 DEF First, Types, ChunkIsRecord
<1>5. Types'
  BY <1>1, <1>4 DEF Types, RingTypes
<1>6. ChunkIsRecord'
  BY <1>1, <1>2 DEF ChunkIsRecord, NoChunk
<1>7. Stages'
  BY <1>1 DEF Stages
<1>8. Told'
  BY <1>1, <1>4 DEF Told
<1>9. Counts'
  <2>1. ~overflow => bytes' = received
    BY <1>1, <1>2 DEF Counts
  <2> QED BY <2>1, <1>1, <1>2 DEF Counts
<1>10. Flow'
  BY <1>1 DEF Flow, FileIsFirst, Flows, Sent
<1> QED BY <1>5, <1>6, <1>7, <1>8, <1>9, <1>10

(* What the lengths are numbers for.                                       *)
LEMMA Lengths ==
  ASSUME Types
  PROVE  Len(file) \in Nat /\ Len(wt.chunk) \in Nat /\ count \in 0..CAP /\ count \in Nat
<1>1. count \in 0..CAP /\ wt.chunk \in Seq(Bytes) /\ file \in Seq(Bytes)
  BY DEF Types, RingTypes
<1> QED BY <1>1, LenProperties, Numbers

(* The writer takes the ring's oldest bytes as its chunk: what was first   *)
(* in the ring is now between the file and the ring.                       *)
LEMMA TakesKeeps ==
  ASSUME StreamInv, Takes
  PROVE  StreamInv'
<1>1. /\ wt.pc = "loop" /\ count > 0 /\ wt' = [pc |-> "write", chunk |-> Oldest(CHUNK)]
      /\ UNCHANGED <<closed, overflow, got, received, st, ctl, failed, file, bytes, chunk, rd, fatal>>
  BY DEF Takes, RingRead
<1>2. RingTypes /\ RingRead(CHUNK) /\ CHUNK \in Nat \ {0}
  BY Numbers DEF Types, Takes
<1>3. RingTypes'
  BY <1>1, <1>2, ReadIsOldest
<1>4. PICK m \in 1..count :
        /\ Oldest(CHUNK) = [k \in 1..m |-> buf[At(head, k - 1)]]
        /\ count' = count - m
        /\ \A k \in 0..count'-1 : buf'[At(head', k)] = buf[At(head, m + k)]
  BY <1>1, <1>2, ReadIsOldest
<1>5. wt.chunk = <<>> /\ Len(wt.chunk) = 0 /\ Len(file) \in Nat /\ count \in Nat
  BY <1>1, Lengths, EmptySeq DEF Stages
<1>6. Len(wt'.chunk) = m /\ wt'.chunk = [k \in 1..m |-> buf[At(head, k - 1)]]
  BY <1>1, <1>4
<1>7. ASSUME ~failed
      PROVE  Flows'
  <2>1. Flows /\ Sent = Len(file) + count
    BY <1>5, <1>7 DEF Flow, Sent
  <2>2. Sent' = Sent
    BY <2>1, <1>1, <1>4, <1>5, <1>6 DEF Sent
  <2>3. Sent' <= received' /\ (~overflow' => Sent' = IF rd' = "ring" THEN received' - got' ELSE received')
    BY <2>1, <2>2, <1>1 DEF Flows
  <2>4. ASSUME NEW k \in 1..Len(wt'.chunk)
        PROVE  wt'.chunk[k] = Len(file') + k - 1
    <3>1. k \in 1..m /\ k - 1 \in 0..count-1
      BY <1>4, <1>5, <1>6
    <3>2. wt'.chunk[k] = buf[At(head, k - 1)]
      BY <3>1, <1>6
    <3>3. buf[At(head, k - 1)] = Len(file) + 0 + (k - 1)
      BY <3>1, <2>1, <1>5 DEF Flows
    <3> QED BY <3>1, <3>2, <3>3, <1>1, <1>5
  <2>5. ASSUME NEW k \in 0..count'-1
        PROVE  buf'[At(head', k)] = Len(file') + Len(wt'.chunk) + k
    <3>1. m + k \in 0..count-1
      BY <1>4, <1>5
    <3>2. buf'[At(head', k)] = buf[At(head, m + k)]
      BY <1>4
    <3>3. buf[At(head, m + k)] = Len(file) + 0 + (m + k)
      BY <3>1, <2>1, <1>5 DEF Flows
    <3> QED BY <3>1, <3>2, <3>3, <1>1, <1>4, <1>5, <1>6
  <2> QED BY <2>3, <2>4, <2>5 DEF Flows
<1>8. Types'
  <2>1. wt'.chunk \in Seq(Bytes)
    <3>1. \A k \in 1..m : buf[At(head, k - 1)] \in Bytes
      <4> SUFFICES ASSUME NEW k \in 1..m
                   PROVE  buf[At(head, k - 1)] \in Bytes
        OBVIOUS
      <4>1. k - 1 \in 0..CAP /\ head \in 0..CAP-1 /\ buf \in [0..CAP-1 -> Bytes]
        BY <1>2, <1>4, <1>5, Numbers DEF RingTypes
      <4> QED BY <4>1, AtIsASlot
    <3>2. wt'.chunk \in [1..m -> Bytes] /\ m \in Nat
      BY <3>1, <1>4, <1>5, <1>6
    <3> QED BY <3>2, SeqDef
  <2> QED BY <2>1, <1>1, <1>3 DEF Types
<1>9. ChunkIsRecord'
  BY <1>1 DEF ChunkIsRecord
<1>10. Stages'
  <2>1. rd # "none"
    <3>1. rd = "none" => count = 0
      BY DEF Stages
    <3> QED BY <3>1, <1>1
  <2>2. wt'.pc = "write"
    BY <1>1
  <2>3. ctl # "off" /\ ctl # "stopped"
    BY <1>1 DEF Stages
  <2> QED BY <2>1, <2>2, <2>3, <1>1 DEF Stages
<1>11. Told'
  BY <1>1 DEF Told
<1>12. Counts'
  BY <1>1 DEF Counts
<1>13. Flow'
  BY <1>1, <1>7 DEF Flow, FileIsFirst
<1> QED BY <1>8, <1>9, <1>10, <1>11, <1>12, <1>13

(* What a write may add to the file keeps it a prefix.                     *)
LEMMA FileGrows ==
  ASSUME StreamInv, ~failed, NEW n \in 0..Len(wt.chunk), file' = file \o SubSeq(wt.chunk, 1, n),
         received' = received
  PROVE  file' \in Seq(Bytes) /\ FileIsFirst' /\ Len(file') = Len(file) + n
<1> DEFINE part == SubSeq(wt.chunk, 1, n)
<1>1. /\ Len(file) \in Nat /\ Len(wt.chunk) \in Nat /\ count \in Nat
      /\ wt.chunk \in Seq(Bytes) /\ file \in Seq(Bytes)
  BY Lengths DEF Types
<1>2. \A i \in 1..n : wt.chunk[i] \in Bytes
  BY <1>1, LenProperties
<1>3. /\ part \in Seq(Bytes) /\ Len(part) = n
      /\ \A i \in 1..n : part[i] = wt.chunk[i]
  BY <1>1, <1>2, SubSeqProperties
<1>4. /\ file' \in Seq(Bytes) /\ Len(file') = Len(file) + n
      /\ \A i \in 1..Len(file) + n : file'[i] = IF i <= Len(file) THEN file[i] ELSE part[i - Len(file)]
  BY <1>1, <1>3, ConcatProperties
<1>5. Flows /\ FileIsFirst
  BY DEF Flow
<1>6. Len(file') <= received'
  <2>1. received \in 0..MAX_BYTES
    BY DEF Types
  <2> QED BY <2>1, <1>1, <1>4, <1>5 DEF Flows, Sent
<1>7. ASSUME NEW i \in 1..Len(file')
      PROVE  file'[i] = i - 1
  <2>1. CASE i <= Len(file)
    BY <2>1, <1>1, <1>4, <1>5 DEF FileIsFirst
  <2>2. CASE i > Len(file)
    <3>1. i - Len(file) \in 1..n /\ i - Len(file) \in 1..Len(wt.chunk)
      BY <2>2, <1>1, <1>4
    <3>2. file'[i] = wt.chunk[i - Len(file)]
      BY <3>1, <2>2, <1>1, <1>3, <1>4
    <3> QED BY <3>1, <3>2, <1>1, <1>5 DEF Flows
  <2> QED BY <2>1, <2>2, <1>1, <1>4
<1> QED BY <1>4, <1>6, <1>7 DEF FileIsFirst

(* fwrite writes the chunk, a part of it, or drops it after a failure.     *)
LEMMA WritesKeeps ==
  ASSUME StreamInv, Writes
  PROVE  StreamInv'
<1>1. /\ wt.pc = "write" /\ wt' = [pc |-> "loop", chunk |-> <<>>]
      /\ UNCHANGED <<buf, head, count, closed, overflow, got, received, st, ctl, bytes, chunk, rd>>
  BY DEF Writes
<1>2. /\ <<>> \in Seq(Bytes) /\ Len(<<>>) = 0
      /\ Len(file) \in Nat /\ Len(wt.chunk) \in Nat /\ count \in Nat
      /\ wt.chunk \in Seq(Bytes) /\ file \in Seq(Bytes)
  BY Lengths, EmptySeq DEF Types
<1>3. ChunkIsRecord' /\ Counts'
  BY <1>1 DEF ChunkIsRecord, Counts
<1>4. Stages'
  <2>1. rd = "none" => ~failed'
    BY <1>1 DEF Stages
  <2> QED BY <2>1, <1>1 DEF Stages
<1>5. ASSUME file' \in Seq(Bytes), fatal' \in {fatal, "IO"}, fatal # "OK" => fatal' # "OK", failed' => fatal' # "OK"
      PROVE  Types' /\ Told'
  <2>1. Types'
    BY <1>1, <1>2, <1>5 DEF Types, RingTypes
  <2>2. Told'
    BY <1>1, <1>5 DEF Told
  <2> QED BY <2>1, <2>2
<1>6. CASE failed /\ UNCHANGED <<failed, file, fatal>>
  <2>1. Types' /\ Told'
    BY <1>2, <1>5, <1>6 DEF Told
  <2>2. Flow'
    BY <1>1, <1>6 DEF Flow, FileIsFirst
  <2> QED BY <2>1, <2>2, <1>3, <1>4
<1>7. CASE ~failed /\ file' = file \o wt.chunk /\ UNCHANGED <<failed, fatal>>
  <2>1. file' = file \o SubSeq(wt.chunk, 1, Len(wt.chunk))
    BY <1>2, <1>7, SubSeqFull
  <2>2. file' \in Seq(Bytes) /\ FileIsFirst' /\ Len(file') = Len(file) + Len(wt.chunk)
    <3>1. Len(wt.chunk) \in 0..Len(wt.chunk)
      BY <1>2
    <3> QED BY <2>1, <3>1, <1>1, <1>7, FileGrows
  <2>3. Types' /\ Told'
    BY <2>2, <1>5, <1>7 DEF Told
  <2>4. Flows'
    <3>1. Len(wt'.chunk) = 0 /\ wt'.chunk = <<>>
      BY <1>1, <1>2
    <3>2. Sent' = Sent
      BY <3>1, <2>2, <1>1, <1>2 DEF Sent
    <3>3. \A k \in 0..count'-1 : buf'[At(head', k)] = Len(file') + Len(wt'.chunk) + k
      BY <3>1, <2>2, <1>1, <1>2, <1>7 DEF Flow, Flows
    <3> QED BY <3>1, <3>2, <3>3, <1>1, <1>7 DEF Flow, Flows
  <2> QED BY <2>2, <2>3, <2>4, <1>3, <1>4 DEF Flow
<1>8. CASE /\ ~failed /\ failed' = TRUE /\ fatal' = WriteError
           /\ \E n \in 0..Len(wt.chunk) : file' = file \o SubSeq(wt.chunk, 1, n)
  <2>1. file' \in Seq(Bytes) /\ FileIsFirst'
    BY <1>1, <1>8, FileGrows
  <2>2. fatal' \in {fatal, "IO"} /\ fatal' # "OK"
    BY <1>8 DEF WriteError, First
  <2>3. Types' /\ Told'
    BY <2>1, <2>2, <1>5
  <2> QED BY <2>1, <2>3, <1>3, <1>4, <1>8 DEF Flow
<1> QED BY <1>6, <1>7, <1>8 DEF Writes

(* The writer ends on a closed and empty ring.                             *)
LEMMA WriterEndsKeeps ==
  ASSUME StreamInv, WriterEnds
  PROVE  StreamInv'
<1>1. /\ wt.pc = "loop" /\ wt' = [wt EXCEPT !.pc = "done"] /\ closed /\ count = 0
      /\ Still /\ UNCHANGED <<closed, ctl, chunk, rd, fatal>>
  BY DEF WriterEnds, Drained, Still, Types
<1>2. wt'.pc = "done"
  BY <1>1 DEF Types
<1>3. Types'
  BY <1>1 DEF Types, RingTypes, Still
<1>4. ChunkIsRecord'
  BY <1>1 DEF ChunkIsRecord, Still
<1>5. Stages'
  BY <1>1, <1>2 DEF Stages, Still
<1>6. Told'
  BY <1>1, <1>2 DEF Told, Still
<1>7. Counts'
  BY <1>1 DEF Counts, Still
<1>8. Flow'
  BY <1>1, StillFlows
<1> QED BY <1>3, <1>4, <1>5, <1>6, <1>7, <1>8

(* A step that changes nothing.                                            *)
LEMMA StutterKeeps ==
  ASSUME StreamInv, UNCHANGED svars
  PROVE  StreamInv'
<1>1. Still /\ UNCHANGED <<ctl, closed, chunk, rd, fatal, wt>>
  BY DEF svars, Still
<1>3. Types'
  BY <1>1 DEF Types, RingTypes, Still
<1>4. ChunkIsRecord'
  BY <1>1 DEF ChunkIsRecord, Still
<1>5. Stages'
  BY <1>1 DEF Stages, Still
<1>6. Told'
  BY <1>1 DEF Told, Still
<1>7. Counts'
  BY <1>1 DEF Counts, Still
<1>8. Flow'
  BY <1>1, StillFlows
<1> QED BY <1>3, <1>4, <1>5, <1>6, <1>7, <1>8

(* Every step keeps the invariant.                                         *)
LEMMA StepKeeps ==
  ASSUME StreamInv, [StreamNext]_svars
  PROVE  StreamInv'
BY StartKeeps, UnwindKeeps, StopKeeps, ReaderKeeps, ReadReturnKeeps, ToRingKeeps, ChunkDoneKeeps,
   TakesKeeps, WritesKeeps, WriterEndsKeeps, StutterKeeps DEF StreamNext, Reader, Writer, Joins

(* The flags are flags at the start.                                       *)
LEMMA FlagsHold ==
  StreamInit => Flags
BY DEF StreamInit, RingInit, Flags

(* Zenon does what the SMT solver cannot with a flag that is set.          *)
LEMMA FlagsKeep ==
  ASSUME Flags, [StreamNext]_svars
  PROVE  Flags'
<1>1. ASSUME closed' \in {closed, TRUE, FALSE}, overflow' \in BOOLEAN, stop' \in {stop, TRUE},
             rearm' \in {rearm, TRUE, FALSE}, failed' \in {failed, TRUE}
      PROVE  Flags'
  BY <1>1, Zenon DEF Flags
<1>2. CASE StreamStarts
  BY <1>1, <1>2, Zenon DEF StreamStarts, Flags
<1>3. CASE StartFails
  BY <1>1, <1>3, Zenon DEF StartFails, RingClose, Flags
<1>4. CASE Unwound
  BY <1>1, <1>4, Zenon DEF Unwound, Flags
<1>5. CASE AskRearm
  BY <1>1, <1>5, Zenon DEF AskRearm, Flags
<1>6. CASE Stop
  BY <1>1, <1>6, Zenon DEF Stop, Flags
<1>7. CASE ReaderJoined
  BY <1>1, <1>7, Zenon DEF ReaderJoined, ClosesRing, RingClose, Flags
<1>8. CASE WriterJoined
  BY <1>1, <1>8, Zenon DEF WriterJoined, Flags
<1>9. CASE Quits \/ Reads \/ TimesOut
  BY <1>1, <1>9, Zenon DEF Quits, Reads, TimesOut, Goes, Flags
<1>10. CASE ReadReturns
  BY <1>1, <1>10, Zenon DEF ReadReturns, Flags
<1>11. CASE ToRing
  <2>1. overflow' \in BOOLEAN
    BY <1>11, Zenon DEF ToRing, RingWrite
  <2> QED BY <2>1, <1>1, <1>11, Zenon DEF ToRing, RingWrite, Flags
<1>12. CASE SyncsPiece
  BY <1>1, <1>12, Zenon DEF SyncsPiece, Flags
<1>13. CASE ChunkDone
  BY <1>1, <1>13, Zenon DEF ChunkDone, Flags
<1>14. CASE Takes
  BY <1>1, <1>14, Zenon DEF Takes, RingRead, Flags
<1>15. CASE Writes
  BY <1>1, <1>15, Zenon DEF Writes, Flags
<1>16. CASE WriterEnds
  BY <1>1, <1>16, Zenon DEF WriterEnds, Flags
<1>17. CASE UNCHANGED svars
  BY <1>1, <1>17, Zenon DEF svars, Flags
<1> QED BY <1>2, <1>3, <1>4, <1>5, <1>6, <1>7, <1>8, <1>9, <1>10, <1>11, <1>12, <1>13, <1>14, <1>15, <1>16,
           <1>17 DEF StreamNext, Reader, Writer, Joins

-----------------------------------------------------------------------------
(* What the invariant says of the file                                     *)

(* The invariant says of the file what FileIsOfTheBytes does: a stop that  *)
(* returns PK_OK finds no failure, no overflow, an empty ring and an empty *)
(* chunk, so all that was sent is in the file.                             *)
LEMMA FileSound ==
  ASSUME StreamInv, Flags
  PROVE  FileIsOfTheBytes
<1>1. StreamTypeOK
  BY DEF StreamTypeOK, Types, RingTypes, Bytes, Flags
<1>2. file \in Seq(Bytes) /\ Len(file) \in Nat /\ Len(wt.chunk) \in Nat /\ file \in [1..Len(file) -> Bytes]
  BY Lengths, LenProperties DEF Types
<1>3. FileIsPrefix
  BY <1>2 DEF FileIsPrefix, Flow, FileIsFirst
<1>4. OkMeansWhole
  <2> SUFFICES ASSUME ctl = "stopped", fatal = "OK"
               PROVE  Len(file) = received /\ bytes = received
    BY DEF OkMeansWhole
  <2>1. rd = "done" /\ wt.pc = "done" /\ wt.chunk = <<>> /\ Len(wt.chunk) = 0
    BY EmptySeq DEF Stages
  <2>2. ~failed /\ ~overflow /\ count = 0
    BY <2>1 DEF Told
  <2>3. Sent = received /\ bytes = received
    BY <2>1, <2>2 DEF Flow, Flows, Counts
  <2> QED BY <2>1, <2>2, <2>3, <1>2 DEF Sent
<1> QED BY <1>1, <1>3, <1>4 DEF FileIsOfTheBytes

HIDE DEF StreamInv, ring, read, writer, control, others, unread, linevars, cfg, grid, search, tap, history

(* In every state of the stream each byte the scanner sent and the ring    *)
(* took is in the file, the writer's chunk or the ring, in order           *)
(* (stream.c, ring.c).                                                     *)
THEOREM StreamInvariance == StreamSpec => [](StreamInv /\ Flags)
<1>1. StreamInit => StreamInv /\ Flags
  BY InitHolds, FlagsHold
<1>2. StreamInv /\ Flags /\ [StreamNext]_svars => (StreamInv /\ Flags)'
  BY StepKeeps, FlagsKeep
<1> QED BY <1>1, <1>2, PTL DEF StreamSpec

(* The raw file is a prefix of the bytes sent and, after a stop that       *)
(* returns PK_OK, all of them (stream.c:225, stream.h:7), for every        *)
(* capacity, chunk size, number of bytes and re-arm.                       *)
THEOREM FileIsSound == StreamSpec => []FileIsOfTheBytes
<1>1. StreamInv /\ Flags => FileIsOfTheBytes
  BY FileSound
<1> QED BY <1>1, StreamInvariance, PTL

-----------------------------------------------------------------------------
(* What of the grid's code does not look at where the reader is.           *)
LEMMA SameMin == \A S : Grid!Min(S) = Min(S)
BY DEF Grid!Min, Min

(* Counting words.                                                         *)
LEMMA SameBefore == \A o, w : Grid!Before(o, w) = Before(o, w)
BY DEF Grid!Before, Before, Grid!Cardinality, Cardinality

(* Cardinalities.                                                          *)
LEMMA SameCard == \A S : Grid!Cardinality(S) = Cardinality(S)
BY DEF Grid!Cardinality, Cardinality

(* The words of a range.                                                   *)
LEMMA SameWords == \A f, t : Grid!Words(f, t) = Words(f, t)
BY DEF Grid!Words, Words

(* The bytes of an unfinished search.                                      *)
LEMMA SameSpan == Grid!UnsyncedSpan = UnsyncedSpan
BY SameMin DEF Grid!UnsyncedSpan, UnsyncedSpan, Grid!Dropped, Dropped

(* The tail and the lines of a re-arm.                                     *)
LEMMA SameLines == Grid!TailBytes = TailBytes /\ Grid!CutLines = CutLines
BY DEF Grid!TailBytes, TailBytes, Grid!CutLines, CutLines, Grid!InLines, InLines

(* A re-arm of the stream is one of the grid.                              *)
LEMMA SameRearm == TakesRearm => Grid!TakesRearm
<1>1. Grid!CutLead = CutLead
  BY SameSpan, SameLines DEF Grid!CutLead, CutLead
<1> QED
  BY <1>1, SameLines DEF Grid!TakesRearm, TakesRearm, Grid!NewWindow, NewWindow, Grid!CutPend, CutPend,
     Grid!Unset, Unset, Grid!cfg, cfg

(* A chunk that the ring took is a chunk of the grid.                      *)
LEMMA SameArrives == \A n : Arrives(n) => Grid!Arrives(n)
BY SameWords DEF Arrives, Grid!Arrives, Grid!NoChunk, NoChunk, Grid!cfg, cfg, Grid!grid, grid, Grid!search, search,
   Grid!tap, tap

(* The piece of the chunk: the one place where the grid asks whether the   *)
(* reader is in a chunk.                                                   *)
LEMMA SamePiece == Grid!From = From /\ Grid!To = To /\ (InPiece => Grid!InPiece)
BY DEF Grid!From, From, Grid!To, To, Grid!InPiece, InPiece

(* The words a search looks at.                                            *)
LEMMA SameSearched == Grid!AfterSkip = AfterSkip /\ Grid!Searched = Searched
<1>1. Grid!AfterSkip = AfterSkip
  BY SameWords, SamePiece, SameBefore DEF Grid!AfterSkip, AfterSkip
<1> QED BY <1>1, SameBefore DEF Grid!Searched, Searched

(* What a search has left.                                                 *)
LEMMA SameLeft == \A s : Grid!LeftAfter(s) = LeftAfter(s)
BY SameCard DEF Grid!LeftAfter, LeftAfter

(* The missing line starts.                                                *)
LEMMA SameBroken == Grid!Broken = Broken
BY SamePiece DEF Grid!Broken, Broken

(* The tap's place.                                                        *)
LEMMA SameTap == Grid!TapNext = TapNext /\ Grid!TapLine = TapLine
BY DEF Grid!TapNext, TapNext, Grid!TapLine, TapLine, Grid!Unset, Unset

(* The bytes the tap has.                                                  *)
LEMMA SameStock == \A e : Grid!Stock(e) = Stock(e)
BY SameTap, SamePiece DEF Grid!Stock, Stock

(* The whole lines of them.                                                *)
LEMMA SameWhole == \A e : Grid!Whole(e) = Whole(e)
BY SameStock DEF Grid!Whole, Whole

(* The head of the next line.                                              *)
LEMMA SameRest == \A e : Grid!Rest(e) = Rest(e)
BY SameStock, SameWhole DEF Grid!Rest, Rest

(* The lines handed on.                                                    *)
LEMMA SameTaps == \A e : TapLines(e) => Grid!TapLines(e)
BY SameStock, SameWhole, SameTap DEF Grid!TapLines, TapLines

(* A segment's first line.                                                 *)
LEMMA SameStart == \A o : Grid!SegStart(o) = SegStart(o)
BY DEF Grid!SegStart, SegStart, Grid!WithStart, WithStart

(* sync_chunk's step on a piece is the grid's.                             *)
LEMMA SyncsAreGrids ==
  ASSUME Syncs
  PROVE  Grid!Syncs
<1> USE DEF Grid!cfg, cfg, Grid!grid, grid, Grid!search, search, Grid!tap, tap, Grid!history, history
<1>1. CASE SearchesOn
  <2>1. Grid!SearchesOn
    BY <1>1, SamePiece, SameSearched, SameLeft, SameMin, SameWords, SameCard DEF Grid!SearchesOn, SearchesOn
  <2> QED BY <2>1 DEF Grid!Syncs
<1>2. CASE FindsStart
  <2>1. Grid!FindsStart
    BY <1>2, SamePiece, SameSearched, SameLeft, SameMin, SameStart DEF Grid!FindsStart, FindsStart
  <2> QED BY <2>1 DEF Grid!Syncs
<1>3. CASE KeepsGrid
  <2>1. Grid!KeepsGrid
    BY <1>3, SamePiece, SameBroken, SameTaps, SameTap, SameWhole, SameRest DEF Grid!KeepsGrid, KeepsGrid
  <2> QED BY <2>1 DEF Grid!Syncs
<1>4. CASE LosesSync
  <2>1. Grid!LosesSync
    BY <1>4, SamePiece, SameBroken DEF Grid!LosesSync, LosesSync
  <2> QED BY <2>1 DEF Grid!Syncs
<1>5. CASE RestartsSearch
  <2>1. Grid!RestartsSearch
    BY <1>5, SamePiece, SameBroken, SameMin, SameTaps DEF Grid!RestartsSearch, RestartsSearch, Grid!Unset, Unset
  <2> QED BY <2>1 DEF Grid!Syncs
<1> QED BY <1>1, <1>2, <1>3, <1>4, <1>5 DEF Syncs

(* The end of a chunk is the grid's.                                       *)
LEMMA AcceptsAreGrids ==
  ASSUME Accepts
  PROVE  Grid!Accepts
BY SamePiece DEF Grid!Accepts, Accepts, Grid!Counted, Counted, Grid!NoChunk, NoChunk,
   Grid!cfg, cfg, Grid!grid, grid, Grid!search, search, Grid!tap, tap, Grid!history, history

-----------------------------------------------------------------------------
(* The invariant of re-arms                                                *)

(* A re-arm waits at most once for the reader, and the reader that takes   *)
(* one has no error behind it and a byte behind the last re-arm.           *)
NoError == chunk.sy # "OK" => rd = "sync" \/ (rd \in {"loop", "done"} /\ fatal # "OK")
HasBytes == rd \in {"ring", "sync"} => got > 0
Asked == Len(cuts) + (IF rearm THEN 1 ELSE 0) <= rearms /\ rearms \in 0..MAX_REARMS
CutsAreSeq == cuts \in Seq(Range(cuts))
Fresh == rd \in {"none", "read"} \/ (rd = "loop" /\ fatal = "OK")
CutsBehind ==
  ~EMPTY_READS => \A c \in DOMAIN cuts :
    cuts[c].to \in Nat /\ cuts[c].to <= bytes /\ (Fresh => cuts[c].to < bytes)
RearmInv == NoError /\ HasBytes /\ Asked /\ CutsAreSeq /\ CutsBehind

(* A re-arm adds one cut, at the bytes counted so far.                     *)
LEMMA CutsGrow ==
  ASSUME CutsAreSeq, TakesRearm
  PROVE  /\ CutsAreSeq' /\ Len(cuts') = Len(cuts) + 1 /\ DOMAIN cuts' = 1..Len(cuts) + 1
         /\ Len(cuts) \in Nat /\ DOMAIN cuts = 1..Len(cuts)
         /\ \A c \in 1..Len(cuts) : cuts'[c] = cuts[c]
         /\ cuts'[Len(cuts) + 1].to = bytes
<1>1. PICK e : cuts' = Append(cuts, e) /\ e.to = bytes
  BY DEF TakesRearm
<1> DEFINE S == Range(cuts) \cup {e}
<1>2. cuts \in Seq(S)
  BY SeqMonotonic DEF CutsAreSeq
<1>3. e \in S
  OBVIOUS
<1> HIDE DEF S
<1>4. /\ cuts' \in Seq(S) /\ Len(cuts') = Len(cuts) + 1
      /\ \A c \in 1..Len(cuts) : cuts'[c] = cuts[c]
      /\ cuts'[Len(cuts) + 1] = e
  BY <1>1, <1>2, <1>3, AppendProperties
<1>5. CutsAreSeq'
  BY <1>4, SeqOfRange DEF CutsAreSeq
<1>6. DOMAIN cuts' = 1..Len(cuts') /\ DOMAIN cuts = 1..Len(cuts) /\ Len(cuts) \in Nat
  BY <1>2, <1>4, LenProperties
<1> QED BY <1>1, <1>4, <1>5, <1>6

(* No re-arm has been asked for at the start.                              *)
LEMMA RearmsInit ==
  ASSUME StreamInit
  PROVE  RearmInv
<1> USE StreamInit DEF StreamInit
<1>1. NoError /\ HasBytes
  BY DEF NoError, HasBytes, NoChunk
<1>2. Asked
  BY LineAssumption, EmptySeq DEF Asked
<1>3. CutsAreSeq /\ CutsBehind
  BY EmptySeq DEF CutsAreSeq, CutsBehind
<1> QED BY <1>1, <1>2, <1>3 DEF RearmInv

(* A step that neither asks for a re-arm nor takes one.                    *)
LEMMA OthersAsk ==
  ASSUME Asked, CutsAreSeq, UNCHANGED <<cuts, rearm, rearms>>
  PROVE  Asked' /\ CutsAreSeq'
BY DEF Asked, CutsAreSeq

(* The cuts stay behind the bytes while the reader does not become ready   *)
(* for another re-arm.                                                     *)
LEMMA CutsStay ==
  ASSUME CutsBehind, UNCHANGED <<cuts, bytes>>, Fresh' => Fresh
  PROVE  CutsBehind'
BY DEF CutsBehind

USE DEF ring, read, writer, control, others, unread, linevars, cfg, grid, search, tap, history

(* Every step keeps the invariant of re-arms: the reader can only take one *)
(* where the last chunk brought a byte and no error.                       *)
LEMMA RearmsKeep ==
  ASSUME StreamInv, RearmInv, [StreamNext]_svars
  PROVE  RearmInv'
<1>0. NoError /\ HasBytes /\ Asked /\ CutsAreSeq /\ CutsBehind
  BY DEF RearmInv
<1>1. CASE StreamStarts
  <2>1. /\ UNCHANGED <<chunk, got, cuts, rearm, rearms, bytes>> /\ ctl = "off" /\ rd' \in {"loop", "done"}
    BY <1>1 DEF StreamStarts
  <2>2. rd = "none"
    BY <2>1 DEF StreamInv, Stages
  <2>3. NoError' /\ HasBytes'
    BY <1>0, <2>1, <2>2 DEF NoError, HasBytes
  <2> QED BY <1>0, <2>1, <2>2, <2>3, OthersAsk, CutsStay DEF RearmInv, Fresh
<1>2. CASE StartFails \/ Unwound \/ Stop \/ ReaderJoined
  <2>1. UNCHANGED <<chunk, got, cuts, rearm, rearms, bytes, rd, fatal>>
    BY <1>2 DEF StartFails, Unwound, Stop, ReaderJoined
  <2>2. NoError' /\ HasBytes' /\ (Fresh' <=> Fresh)
    BY <1>0, <2>1 DEF NoError, HasBytes, Fresh
  <2> QED BY <1>0, <2>1, <2>2, OthersAsk, CutsStay DEF RearmInv
<1>3. CASE WriterJoined \/ Writes \/ Takes \/ WriterEnds
  <2>1. UNCHANGED <<chunk, got, cuts, rearm, rearms, bytes, rd>> /\ (fatal # "OK" => fatal' = fatal)
    BY <1>3 DEF WriterJoined, Writes, WriteError, Takes, WriterEnds, First
  <2>2. NoError' /\ HasBytes' /\ (Fresh' => Fresh)
    BY <1>0, <2>1 DEF NoError, HasBytes, Fresh
  <2> QED BY <1>0, <2>1, <2>2, OthersAsk, CutsStay DEF RearmInv
<1>4. CASE AskRearm
  <2>1. UNCHANGED <<chunk, got, cuts, bytes, rd, fatal>> /\ rearm' = TRUE /\ rearms < MAX_REARMS /\ rearms' = rearms + 1
    BY <1>4 DEF AskRearm
  <2>2. NoError' /\ HasBytes' /\ (Fresh' <=> Fresh) /\ CutsAreSeq'
    BY <1>0, <2>1 DEF NoError, HasBytes, Fresh, CutsAreSeq
  <2>3. Len(cuts) \in Nat
    BY <1>0, LenProperties DEF CutsAreSeq
  <2>4. Asked'
    BY <1>0, <2>1, <2>3, LineAssumption DEF Asked
  <2> QED BY <1>0, <2>1, <2>2, <2>4, CutsStay DEF RearmInv
<1>5. CASE Quits \/ Reads \/ TimesOut
  <2>1. /\ UNCHANGED <<chunk, got, cuts, rearm, rearms, bytes, fatal>>
        /\ \/ rd = "loop" /\ rd' = "done"
           \/ rd = "loop" /\ rd' = "read" /\ fatal = "OK"
           \/ rd = "read" /\ rd' = "loop"
    BY <1>5 DEF Quits, Reads, TimesOut, Goes
  <2>2. NoError' /\ HasBytes' /\ (Fresh' => Fresh)
    BY <1>0, <2>1 DEF NoError, HasBytes, Fresh
  <2> QED BY <1>0, <2>1, <2>2, OthersAsk, CutsStay DEF RearmInv
<1>6. CASE ReadReturns
  <2>1. PICK n \in 0..Least(CHUNK, MAX_BYTES - received), e \in {"OK", "ERROR"} :
          /\ n > 0 \/ e # "OK" \/ EMPTY_READS
          /\ got' = n
          /\ IF n > 0 THEN rd' = "ring" /\ fatal' = fatal
                      ELSE rd' = "loop" /\ fatal' = First(fatal, e)
    BY <1>6 DEF ReadReturns
  <2>2. rd = "read" /\ rearm' = FALSE /\ rearms' = rearms /\ chunk' = chunk /\ bytes' = bytes
        /\ IF rearm THEN TakesRearm ELSE UNCHANGED cuts
    BY <1>6, RearmKeepsCount DEF ReadReturns
  <2>3. NoError' /\ HasBytes'
    BY <1>0, <2>1, <2>2 DEF NoError, HasBytes
  <2>4. ~EMPTY_READS => ~Fresh' /\ Fresh
    BY <2>1, <2>2 DEF Fresh, First
  <2>5. CASE rearm
    <3>1. /\ CutsAreSeq' /\ Len(cuts') = Len(cuts) + 1 /\ DOMAIN cuts' = 1..Len(cuts) + 1
          /\ Len(cuts) \in Nat /\ DOMAIN cuts = 1..Len(cuts)
          /\ \A c \in 1..Len(cuts) : cuts'[c] = cuts[c]
          /\ cuts'[Len(cuts) + 1].to = bytes
      BY <1>0, <2>2, <2>5, CutsGrow
    <3>2. Asked'
      BY <1>0, <2>2, <2>5, <3>1 DEF Asked
    <3>3. CutsBehind'
      <4> SUFFICES ASSUME ~EMPTY_READS, NEW c \in DOMAIN cuts'
                   PROVE  cuts'[c].to \in Nat /\ cuts'[c].to <= bytes'
        BY <2>4 DEF CutsBehind
      <4>1. bytes \in Nat
        BY DEF StreamInv, ChunkIsRecord
      <4>2. CASE c \in 1..Len(cuts)
        BY <1>0, <2>2, <3>1, <4>2 DEF CutsBehind
      <4>3. CASE c = Len(cuts) + 1
        BY <2>2, <3>1, <4>1, <4>3
      <4> QED BY <3>1, <4>2, <4>3
    <3> QED BY <2>3, <3>1, <3>2, <3>3 DEF RearmInv
  <2>6. CASE ~rearm
    <3>1. UNCHANGED cuts
      BY <2>2, <2>6
    <3>2. Asked' /\ CutsAreSeq'
      BY <1>0, <2>2, <2>6, <3>1 DEF Asked, CutsAreSeq
    <3>3. CutsBehind'
      BY <1>0, <2>2, <2>4, <3>1 DEF CutsBehind
    <3> QED BY <2>3, <3>2, <3>3 DEF RearmInv
  <2> QED BY <2>5, <2>6
<1>7. CASE ToRing
  <2>1. UNCHANGED <<got, cuts, rearm, rearms, bytes>> /\ rd = "ring" /\ rd' = "sync"
    BY <1>7 DEF ToRing, Arrives
  <2>2. NoError' /\ HasBytes' /\ ~Fresh'
    BY <1>0, <2>1 DEF NoError, HasBytes, Fresh
  <2> QED BY <1>0, <2>1, <2>2, OthersAsk, CutsStay DEF RearmInv
<1>8. CASE SyncsPiece
  <2>1. UNCHANGED <<got, cuts, rearm, rearms, bytes, fatal>> /\ rd = "sync" /\ rd' = "sync"
    <3>1. rd = "sync"
      BY <1>8 DEF SyncsPiece, Syncs, SearchesOn, FindsStart, KeepsGrid, LosesSync, RestartsSearch, InPiece
    <3>2. bytes' = bytes /\ rd' = rd
      BY <1>8, SyncsKeepCount DEF SyncsPiece, StreamInv
    <3>3. cuts' = cuts
      BY <1>8 DEF SyncsPiece, Syncs, SearchesOn, FindsStart, KeepsGrid, LosesSync, RestartsSearch
    <3> QED BY <1>8, <3>1, <3>2, <3>3 DEF SyncsPiece
  <2>2. NoError' /\ HasBytes' /\ ~Fresh'
    BY <1>0, <2>1 DEF NoError, HasBytes, Fresh
  <2> QED BY <1>0, <2>1, <2>2, OthersAsk, CutsStay DEF RearmInv
<1>9. CASE ChunkDone
  <2>1. UNCHANGED <<got, cuts, rearm, rearms>> /\ rd = "sync" /\ rd' = "loop" /\ bytes' = bytes + chunk.put
        /\ chunk' = [NoChunk EXCEPT !.sy = chunk.sy] /\ fatal' = First(First(fatal, ChunkError), st)
    BY <1>9 DEF ChunkDone, Accepts, Counted
  <2>2. bytes \in Nat /\ chunk.put \in Nat /\ got > 0 /\ got \in 0..CHUNK
    BY <1>0, <2>1 DEF StreamInv, ChunkIsRecord, HasBytes, Types
  <2>3. /\ chunk.sy # "OK" => fatal' # "OK"
        /\ fatal' = "OK" => chunk.put > 0
    BY <2>1, <2>2, LineAssumption DEF First, ChunkError
  <2>4. NoError' /\ HasBytes'
    BY <2>1, <2>3 DEF NoError, HasBytes, NoChunk
  <2>5. CutsBehind'
    BY <1>0, <2>1, <2>2, <2>3 DEF CutsBehind, Fresh
  <2> QED BY <1>0, <2>1, <2>4, <2>5, OthersAsk DEF RearmInv
<1>10. CASE UNCHANGED svars
  <2>1. UNCHANGED <<chunk, got, cuts, rearm, rearms, bytes, rd, fatal>>
    BY <1>10 DEF svars
  <2>2. NoError' /\ HasBytes' /\ (Fresh' <=> Fresh)
    BY <1>0, <2>1 DEF NoError, HasBytes, Fresh
  <2> QED BY <1>0, <2>1, <2>2, OthersAsk, CutsStay DEF RearmInv
<1> QED BY <1>1, <1>2, <1>3, <1>4, <1>5, <1>6, <1>7, <1>8, <1>9, <1>10 DEF StreamNext, Reader, Writer, Joins

-----------------------------------------------------------------------------
(* Steps of the stream are steps of the grid                               *)

(* A step outside a chunk that leaves the grid's fields alone is a stutter *)
(* of the grid.                                                            *)
LEMMA StillGrid ==
  ASSUME UNCHANGED <<unread>>, (rd = "sync") <=> (rd' = "sync")
  PROVE  UNCHANGED Grid!linevars
BY DEF Grid!linevars, Grid!cfg, Grid!grid, Grid!search, Grid!tap, Grid!history

(* The stream's initial states are the grid's.                             *)
LEMMA InitIsGrids ==
  ASSUME StreamInit
  PROVE  Grid!LineInit
BY DEF StreamInit, Grid!LineInit, Grid!NoChunk, NoChunk, Grid!Unset, Unset

(* Every step of the stream, of any thread, is a step of the grid or a     *)
(* stutter.                                                                *)
LEMMA StepsAreGrids ==
  ASSUME StreamInv, Flags, RearmInv, [StreamNext]_svars
  PROVE  [Grid!LineNext]_(Grid!linevars)
<1>1. CASE StreamStarts
  <2>1. rd = "none" /\ rd' \in {"loop", "done"} /\ UNCHANGED unread
    BY <1>1 DEF StreamStarts, StreamInv, Stages
  <2> QED BY <2>1, StillGrid
<1>2. CASE \/ StartFails \/ Unwound \/ AskRearm \/ Stop \/ ReaderJoined \/ WriterJoined
           \/ Writer \/ UNCHANGED svars
  <2>1. UNCHANGED <<rd, unread>>
    BY <1>2 DEF StartFails, Unwound, AskRearm, Stop, ReaderJoined, WriterJoined, Writer, Takes, Writes, WriterEnds, svars
  <2> QED BY <2>1, StillGrid
<1>3. CASE Quits \/ Reads \/ TimesOut
  <2>1. rd # "sync" /\ rd' # "sync" /\ UNCHANGED unread
    BY <1>3 DEF Quits, Reads, TimesOut, Goes
  <2> QED BY <2>1, StillGrid
<1>4. CASE ReadReturns
  <2>1. /\ rd = "read" /\ rd' # "sync"
        /\ IF rearm THEN TakesRearm ELSE UNCHANGED unread
    BY <1>4 DEF ReadReturns
  <2>2. CASE ~rearm
    BY <2>1, <2>2, StillGrid
  <2>3. CASE rearm
    <3>1. chunk.sy = "OK" /\ Len(cuts) < MAX_REARMS
      <4>1. Len(cuts) \in Nat
        BY LenProperties DEF RearmInv, CutsAreSeq
      <4> QED BY <4>1, <2>1, <2>3, LineAssumption DEF RearmInv, NoError, Asked
    <3>2. EMPTY_READS \/ \A c \in DOMAIN cuts : cuts[c].to < bytes
      BY <2>1, LineAssumption DEF RearmInv, CutsBehind, Fresh
    <3>3. Grid!Rearms
      BY <2>1, <2>3, <3>1, <3>2, SameRearm DEF Grid!Rearms
    <3> QED BY <3>3 DEF Grid!LineNext
  <2> QED BY <2>2, <2>3
<1>5. CASE ToRing
  <2>1. rd = "ring" /\ rd' = "sync" /\ Arrives(Room(got))
    BY <1>5 DEF ToRing
  <2>2. chunk.sy = "OK"
    BY <2>1 DEF RearmInv, NoError
  <2>3. Room(got) \in 0..CHUNK
    <3>0. got \in 0..CHUNK /\ RingTypes
      BY DEF StreamInv, Types
    <3>1. got \in 0..CHUNK /\ got \in Nat /\ RingTypes
      BY <3>0, Numbers
    <3>2. Room(got) \in 0..got
      BY <3>1, RoomIs
    <3> QED BY <3>1, <3>2, LineAssumption
  <2>4. Grid!NextChunk
    BY <2>1, <2>2, <2>3, SameArrives DEF Grid!NextChunk
  <2> QED BY <2>4 DEF Grid!LineNext
<1>6. CASE SyncsPiece
  BY <1>6, SyncsAreGrids DEF SyncsPiece, Grid!LineNext
<1>7. CASE ChunkDone
  BY <1>7, AcceptsAreGrids DEF ChunkDone, Grid!LineNext
<1> QED BY <1>1, <1>2, <1>3, <1>4, <1>5, <1>6, <1>7 DEF StreamNext, Reader, Joins

HIDE DEF ring, read, writer, control, others, unread, linevars, cfg, grid, search, tap, history

(* The reader takes a re-arm only between chunks, without an error behind  *)
(* it (stream.c's rearm flag).                                             *)
THEOREM RearmsAreTaken == StreamSpec => []RearmInv
<1>1. StreamInit => RearmInv
  BY RearmsInit
<1>2. StreamInv /\ RearmInv /\ [StreamNext]_svars => RearmInv'
  BY RearmsKeep
<1> QED BY <1>1, <1>2, StreamInvariance, PTL DEF StreamSpec

(* The stream implements the line grid: what holds of LineSync holds of    *)
(* the reader, whatever the writer and the caller do meanwhile, for every  *)
(* value of the constants.                                                 *)
THEOREM GridIsRefined == StreamSpec => GridIsLineSync
<1>1. StreamInit => Grid!LineInit
  BY InitIsGrids
<1>2. StreamInv /\ Flags /\ RearmInv /\ [StreamNext]_svars => [Grid!LineNext]_(Grid!linevars)
  BY StepsAreGrids
<1> QED BY <1>1, <1>2, StreamInvariance, RearmsAreTaken, PTL DEF StreamSpec, GridIsLineSync, Grid!LineSpec

(* LineSync, and what is proved of it, with the reader's place as in Grid. *)
Shown == INSTANCE LineSyncProofs WITH rd <- IF rd = "sync" THEN "sync" ELSE "loop"

(* The two instances of LineSync are the same: their definitions are the   *)
(* same once expanded.                                                     *)
LEMMA ShownIsGrid ==
  /\ Shown!LineInit <=> Grid!LineInit
  /\ [Shown!LineNext]_(Shown!linevars) <=> [Grid!LineNext]_(Grid!linevars)
  /\ Shown!LinesAreOfTheBytes <=> Grid!LinesAreOfTheBytes
<1> USE DEF
        Grid!Cardinality, Shown!Cardinality, Grid!Min, Shown!Min, Grid!cfg, Shown!cfg, Grid!grid,
        Shown!grid, Grid!search, Shown!search, Grid!tap, Shown!tap, Grid!history, Shown!history,
        Grid!linevars, Shown!linevars, Grid!Unset, Shown!Unset, Grid!NoChunk, Shown!NoChunk, Grid!Words,
        Shown!Words, Grid!LineInit, Shown!LineInit, Grid!InLines, Shown!InLines, Grid!Lines, Shown!Lines,
        Grid!TailBytes, Shown!TailBytes, Grid!Dropped, Shown!Dropped, Grid!UnsyncedSpan, Shown!UnsyncedSpan,
        Grid!Lead, Shown!Lead, Grid!CutLead, Shown!CutLead, Grid!CutLines, Shown!CutLines, Grid!NewWindow,
        Shown!NewWindow, Grid!CutPend, Shown!CutPend, Grid!TakesRearm, Shown!TakesRearm, Grid!Rearms,
        Shown!Rearms, Grid!Arrives, Shown!Arrives, Grid!NextChunk, Shown!NextChunk, Grid!From, Shown!From,
        Grid!To, Shown!To, Grid!InPiece, Shown!InPiece, Grid!Before, Shown!Before, Grid!AfterSkip,
        Shown!AfterSkip, Grid!Searched, Shown!Searched, Grid!LeftAfter, Shown!LeftAfter, Grid!SearchesOn,
        Shown!SearchesOn, Grid!WithStart, Shown!WithStart, Grid!SegStart, Shown!SegStart, Grid!FindsStart,
        Shown!FindsStart, Grid!Broken, Shown!Broken, Grid!TapNext, Shown!TapNext, Grid!TapLine,
        Shown!TapLine, Grid!Stock, Shown!Stock, Grid!Whole, Shown!Whole, Grid!TapLines, Shown!TapLines,
        Grid!Rest, Shown!Rest, Grid!KeepsGrid, Shown!KeepsGrid, Grid!LosesSync, Shown!LosesSync,
        Grid!RestartsSearch, Shown!RestartsSearch, Grid!Counted, Shown!Counted, Grid!Accepts, Shown!Accepts,
        Grid!Syncs, Shown!Syncs, Grid!LineNext, Shown!LineNext, Grid!Going, Shown!Going, Grid!LineTypeOK,
        Shown!LineTypeOK, Grid!EveryByteIsCounted, Shown!EveryByteIsCounted, Grid!LinesAreWhole,
        Shown!LinesAreWhole, Grid!WindowEnd, Shown!WindowEnd, Grid!SyncIsOfTheBytes, Shown!SyncIsOfTheBytes,
        Grid!SegmentStartIsItsFirstLine, Shown!SegmentStartIsItsFirstLine, Grid!LinesAreOfTheBytes,
        Shown!LinesAreOfTheBytes
<1>1. Shown!LineInit <=> Grid!LineInit
  BY Zenon
<1>2. [Shown!LineNext]_(Shown!linevars) <=> [Grid!LineNext]_(Grid!linevars)
  BY Zenon
<1>3. Shown!LinesAreOfTheBytes <=> Grid!LinesAreOfTheBytes
  BY Zenon
<1> QED BY <1>1, <1>2, <1>3

(* What LineSyncProofs shows of the grid holds in the threaded stream: the *)
(* lines and the counts are those of the bytes, whatever writer, ring and  *)
(* caller do meanwhile.                                                    *)
THEOREM StreamLinesAreOfTheBytes == ASSUME ~EMPTY_READS PROVE StreamSpec => []Grid!LinesAreOfTheBytes
<1>1. Shown!LineSpec => []Shown!LinesAreOfTheBytes
  BY LineAssumption, Shown!LinesAreOfTheStream
<1> QED BY <1>1, ShownIsGrid, GridIsRefined, PTL DEF GridIsLineSync, Shown!LineSpec, Grid!LineSpec

-----------------------------------------------------------------------------
(* The DX parser                                                           *)

(* A non-empty set of natural numbers has a least one. *)
LEMMA WFNat ==
  ASSUME NEW S \in SUBSET Nat, S # {}
  PROVE \E m \in S : \A j \in S : m <= j
<1>1. \E x \in S : \A y \in S : ~ (<<y, x>> \in OpToRel(<, Nat))
  BY NatLessThanWellFounded, WFMin
<1>2. PICK x \in S : \A y \in S : ~ (<<y, x>> \in OpToRel(<, Nat))
  BY <1>1
<1>3. \A y \in S : ~ (y < x)
  BY <1>2 DEF OpToRel
<1> QED BY <1>3

(* Min of such a set is that one. *)
LEMMA MinIs ==
  ASSUME NEW S \in SUBSET Nat, S # {}
  PROVE  Min(S) \in S /\ \A y \in S : Min(S) <= y
BY WFNat DEF Min

-----------------------------------------------------------------------------
(* What the DX parser's data are                                           *)

EdgeRecords   == [n : Nat, line : Int, bit : 0..1]
CodeRecords   == [n : Nat, bit : 0..1, frame : Int]
EntryRecords  == [code : Int, line : Int, edge : Nat, mark : Nat]
SlotRecords   == [code : Int, count : Nat]
ParsedRecords == [type : 1..8, ok : BOOLEAN, code : Int, bit : 0..1, low : BOOLEAN, n : Nat,
                  true : Int, fresh : BOOLEAN, line : Int]
Holes == [tail : BOOLEAN, found : BOOLEAN, e50 : EdgeRecords, e54 : EdgeRecords, c5c : CodeRecords,
          table : Seq(EntryRecords), slots : Seq(SlotRecords), winner : Nat]

(* The empty ones are some of them.                                        *)
LEMMA NothingIs ==
  /\ None \in EdgeRecords /\ NoCode \in CodeRecords /\ NoCode.n = 0 /\ NoCode.bit = 0 /\ NoCode.frame = Invalid
  /\ Invalid \in Int
BY DEF None, NoCode, Invalid, EdgeRecords, CodeRecords

(* A hole's fields.                                                        *)
LEMMA HoleFields ==
  ASSUME NEW h \in Holes
  PROVE  /\ h.tail \in BOOLEAN /\ h.found \in BOOLEAN /\ h.e50 \in EdgeRecords /\ h.e54 \in EdgeRecords
         /\ h.c5c \in CodeRecords /\ h.table \in Seq(EntryRecords) /\ h.slots \in Seq(SlotRecords) /\ h.winner \in Nat
         /\ Len(h.table) \in Nat /\ Len(h.slots) \in Nat
BY DEF Holes

(* Dropping the pending edges.                                             *)
LEMMA NonePendingIs ==
  ASSUME NEW h \in Holes
  PROVE  /\ NonePending(h) \in Holes /\ NonePending(h).e50 = None /\ NonePending(h).e54 = None
         /\ NonePending(h).tail = h.tail /\ NonePending(h).c5c = h.c5c /\ NonePending(h).table = h.table
         /\ NonePending(h).slots = h.slots /\ NonePending(h).winner = h.winner
BY NothingIs DEF NonePending, Holes

(* And the pending code.                                                   *)
WithCode(h, c) == [NonePending(h) EXCEPT !.c5c = c]
(* What is left and what waits then.                                       *)
LEMMA CodeSet ==
  ASSUME NEW h \in Holes, NEW c \in CodeRecords
  PROVE  /\ WithCode(h, c) \in Holes /\ WithCode(h, c).e50 = None /\ WithCode(h, c).e54 = None /\ WithCode(h, c).c5c = c
         /\ WithCode(h, c).tail = h.tail /\ WithCode(h, c).table = h.table
         /\ WithCode(h, c).slots = h.slots /\ WithCode(h, c).winner = h.winner
BY NonePendingIs DEF WithCode, Holes

(* Entering a frame.                                                       *)
LEMMA EnteredIs ==
  ASSUME NEW h \in Holes, NEW t \in EntryRecords, NEW g, g = Entered(h, t)
  PROVE  /\ g \in Holes /\ g.e50 = None /\ g.e54 = None /\ g.c5c = NoCode /\ g.table = Append(h.table, t)
         /\ g.tail = h.tail /\ g.slots = h.slots /\ g.winner = h.winner
<1> DEFINE p == NonePending(h)
<1>1. p \in Holes /\ p.e50 = None /\ p.e54 = None /\ p.tail = h.tail /\ p.table = h.table /\ p.slots = h.slots /\ p.winner = h.winner
  BY NonePendingIs
<1> HIDE DEF p
<1>2. Append(p.table, t) \in Seq(EntryRecords)
  BY <1>1, HoleFields, AppendProperties
<1>3. g = [p EXCEPT !.table = Append(@, t), !.c5c = NoCode]
  BY DEF Entered, p
<1> QED BY <1>1, <1>2, <1>3, NothingIs DEF Holes

(* An edge that waits, in place of the other one.                          *)
WithEdge(h, e) == IF e.bit = 1 THEN [h EXCEPT !.e50 = e, !.e54 = None] ELSE [h EXCEPT !.e54 = e, !.e50 = None]
(* The hole it leaves.                                                     *)
LEMMA EdgeSet ==
  ASSUME NEW h \in Holes, NEW e \in EdgeRecords
  PROVE  /\ WithEdge(h, e) \in Holes /\ WithEdge(h, e).tail = h.tail /\ WithEdge(h, e).c5c = h.c5c
         /\ WithEdge(h, e).table = h.table /\ WithEdge(h, e).slots = h.slots /\ WithEdge(h, e).winner = h.winner
         /\ WithEdge(h, e).e50 = IF e.bit = 1 THEN e ELSE None
         /\ WithEdge(h, e).e54 = IF e.bit = 1 THEN None ELSE e
<1>1. CASE e.bit = 1
  BY <1>1, NothingIs DEF WithEdge, Holes
<1>2. CASE e.bit # 1
  BY <1>2, NothingIs DEF WithEdge, Holes
<1> QED BY <1>1, <1>2

(* A record's effect on `found`, which nothing here depends on.            *)
Sensed(h, b) == [h EXCEPT !.found = @ \/ b]
(* All else stays.                                                         *)
LEMMA FoundSet ==
  ASSUME NEW h \in Holes, NEW b \in BOOLEAN
  PROVE  /\ Sensed(h, b) \in Holes /\ Sensed(h, b).e50 = h.e50 /\ Sensed(h, b).e54 = h.e54
         /\ Sensed(h, b).tail = h.tail /\ Sensed(h, b).c5c = h.c5c /\ Sensed(h, b).table = h.table
         /\ Sensed(h, b).slots = h.slots /\ Sensed(h, b).winner = h.winner
<1>1. h.found \/ b \in BOOLEAN
  OBVIOUS
<1> QED BY DEF Sensed, Holes

-----------------------------------------------------------------------------
(* The vote                                                                *)

(* Of the first m slots, k is the earliest of the most frequent.           *)
MostOf(s, m, k) == \A j \in 1..m : s[j].count < s[k].count \/ (j >= k /\ s[j].count = s[k].count)

(* One slot more: it, or the one before it.                                *)
LEMMA MostGoesOn ==
  ASSUME NEW s, NEW m \in Nat \ {0}, \A i \in 1..m : s[i].count \in Nat, m > 1 => \E k \in 1..(m - 1) : MostOf(s, m - 1, k)
  PROVE  \E k \in 1..m : MostOf(s, m, k)
<1>1. CASE m = 1
  <2>1. MostOf(s, m, 1) /\ 1 \in 1..m
    BY <1>1 DEF MostOf
  <2> QED BY <2>1
<1>2. CASE m > 1
  <2>1. PICK k \in 1..(m - 1) : MostOf(s, m - 1, k)
    BY <1>2
  <2>2. k \in 1..m /\ m \in 1..m /\ k \in Nat /\ k < m /\ s[k].count \in Nat /\ s[m].count \in Nat
    BY <1>2, <2>1
  <2>3. \A j \in 1..(m - 1) : j < m /\ s[j].count \in Nat /\ (s[j].count < s[k].count \/ (j >= k /\ s[j].count = s[k].count))
    BY <2>1 DEF MostOf
  <2>4. \A j \in 1..m : j = m \/ j \in 1..(m - 1)
    OBVIOUS
  <2>5. CASE s[m].count <= s[k].count
    <3>1. ASSUME NEW j \in 1..m PROVE s[j].count < s[k].count \/ (j >= k /\ s[j].count = s[k].count)
      <4>1. CASE j = m
        BY <2>2, <2>5, <4>1
      <4>2. CASE j \in 1..(m - 1)
        BY <2>3, <4>2
      <4> QED BY <2>4, <4>1, <4>2
    <3> QED BY <2>2, <3>1 DEF MostOf
  <2>6. CASE s[k].count < s[m].count
    <3>1. ASSUME NEW j \in 1..m PROVE s[j].count < s[m].count \/ (j >= m /\ s[j].count = s[m].count)
      <4>1. CASE j = m
        BY <2>2, <4>1
      <4>2. CASE j \in 1..(m - 1)
        BY <2>2, <2>3, <2>6, <4>2
      <4> QED BY <2>4, <4>1, <4>2
    <3> QED BY <2>2, <3>1 DEF MostOf
  <2> QED BY <2>2, <2>5, <2>6
<1> QED BY <1>1, <1>2

(* The earliest of the most frequent is one of the slots.                  *)
LEMMA FirstMostIs ==
  ASSUME NEW s \in Seq(SlotRecords), Len(s) > 0
  PROVE  FirstMost(s) \in 1..Len(s) /\ MostOf(s, Len(s), FirstMost(s))
<1> DEFINE Not == {m \in 1..Len(s) : ~\E k \in 1..m : MostOf(s, m, k)}
<1>1. DOMAIN s = 1..Len(s) /\ Len(s) \in Nat /\ \A i \in 1..Len(s) : s[i].count \in Nat
  <2>1. \A i \in 1..Len(s) : s[i] \in SlotRecords
    BY ElementOfSeq
  <2> QED BY <2>1 DEF SlotRecords
<1>2. \A m : m \in Not <=> m \in 1..Len(s) /\ ~\E k \in 1..m : MostOf(s, m, k)
  OBVIOUS
<1> HIDE DEF Not
<1>3. Not = {}
  <2>1. SUFFICES ASSUME Not # {} PROVE FALSE
    OBVIOUS
  <2>2. Not \in SUBSET Nat
    BY <1>1, <1>2
  <2>3. PICK m \in Not : \A j \in Not : m <= j
    BY <2>1, <2>2, WFNat
  <2>4. m \in Nat \ {0} /\ m \in 1..Len(s) /\ ~\E k \in 1..m : MostOf(s, m, k)
    BY <1>1, <1>2, <2>3
  <2>5. m > 1 => m - 1 \in 1..Len(s) /\ ~(m <= m - 1)
    BY <1>1, <2>4
  <2>6. m > 1 => \E k \in 1..(m - 1) : MostOf(s, m - 1, k)
    BY <1>2, <2>3, <2>5
  <2>7. \A i \in 1..m : s[i].count \in Nat
    BY <1>1, <2>4
  <2> QED BY <2>4, <2>6, <2>7, MostGoesOn
<1>4. Len(s) \in 1..Len(s)
  BY <1>1
<1>5. PICK k \in 1..Len(s) : MostOf(s, Len(s), k)
  BY <1>2, <1>3, <1>4
<1>6. \E i \in DOMAIN s : \A j \in DOMAIN s : s[j].count < s[i].count \/ (j >= i /\ s[j].count = s[i].count)
  BY <1>1, <1>5 DEF MostOf
<1> QED BY <1>1, <1>6 DEF FirstMost, MostOf

(* A code's slot.                                                          *)
LEMMA SlotOfIs ==
  ASSUME NEW h \in Holes, NEW c
  PROVE  \/ SlotOf(h, c) = 0 /\ \A i \in 1..Len(h.slots) : h.slots[i].code # c
         \/ SlotOf(h, c) \in 1..Len(h.slots) /\ h.slots[SlotOf(h, c)].code = c
<1> DEFINE I == {i \in 1..Len(h.slots) : h.slots[i].code = c}
<1>1. SlotOf(h, c) = IF I # {} THEN Min(I) ELSE 0
  BY DEF SlotOf, SelectInSeq
<1>2. CASE I = {}
  BY <1>1, <1>2
<1>3. CASE I # {}
  <2>1. I \in SUBSET Nat
    OBVIOUS
  <2>2. Min(I) \in I
    BY <1>3, <2>1, MinIs
  <2> QED BY <1>1, <1>3, <2>2
<1> QED BY <1>2, <1>3

(* The slots after a vote.                                                 *)
VotedSlots(s, c) ==
  {z \in Seq(SlotRecords) :
     /\ Len(z) > 0 /\ Len(z) >= Len(s) /\ \A i \in 1..Len(s) : z[i].code = s[i].code
     /\ \/ /\ Len(z) = Len(s)
           /\ \E k \in 1..Len(s) : s[k].code = c /\ z[k].count = s[k].count + 1 /\ \A i \in 1..Len(s) : i # k => z[i].count = s[i].count
        \/ /\ Len(z) = Len(s) + 1 /\ Len(s) < SLOTS /\ z[Len(z)].code = c /\ z[Len(z)].count = 1
           /\ \A i \in 1..Len(s) : s[i].code # c /\ z[i].count = s[i].count
        \/ /\ z = s /\ Len(s) >= SLOTS /\ \A i \in 1..Len(s) : s[i].code # c}

(* What voting does to a hole.                                             *)
LEMMA VotedIs ==
  ASSUME NEW h \in Holes, NEW c \in Int, NEW g, g = Voted(h, c)
  PROVE  /\ g \in Holes /\ g.slots \in VotedSlots(h.slots, c) /\ g.winner = FirstMost(g.slots)
         /\ g.tail = h.tail /\ g.e50 = h.e50 /\ g.e54 = h.e54 /\ g.c5c = h.c5c /\ g.table = h.table
<1> DEFINE k == SlotOf(h, c)
           s == h.slots
           z == IF k > 0 THEN [s EXCEPT ![k].count = @ + 1]
                ELSE IF Len(s) < SLOTS THEN Append(s, [code |-> c, count |-> 1]) ELSE s
<1>1. s \in Seq(SlotRecords) /\ Len(s) \in Nat /\ SLOTS \in Nat \ {0}
  BY HoleFields, DxAssumption
<1>2. g = [h EXCEPT !.slots = z, !.winner = FirstMost(z)]
  BY DEF Voted
<1>3. \A i \in 1..Len(s) : s[i] \in SlotRecords
  BY <1>1, ElementOfSeq
<1>4. (k = 0 /\ \A i \in 1..Len(s) : s[i].code # c) \/ (k \in 1..Len(s) /\ s[k].code = c)
  BY SlotOfIs
<1> HIDE DEF k, s
<1>5. z \in VotedSlots(s, c)
  <2>1. CASE k \in 1..Len(s) /\ s[k].code = c
    <3> DEFINE x == [s[k] EXCEPT !.count = @ + 1]
    <3>1. x \in SlotRecords /\ x.code = s[k].code /\ x.count = s[k].count + 1
      BY <1>3, <2>1 DEF SlotRecords
    <3>2. z = [s EXCEPT ![k] = x]
      BY <1>1, <2>1
    <3> HIDE DEF x
    <3>3. z \in Seq(SlotRecords) /\ Len(z) = Len(s) /\ z[k] = x /\ \A i \in 1..Len(s) : i # k => z[i] = s[i]
      BY <1>1, <2>1, <3>1, <3>2, ExceptSeq, SMTT(30)
    <3>4. \A i \in 1..Len(s) : z[i].code = s[i].code
      BY <3>1, <3>3
    <3>5. s[k].code = c /\ z[k].count = s[k].count + 1 /\ \A i \in 1..Len(s) : i # k => z[i].count = s[i].count
      BY <2>1, <3>1, <3>3
    <3>6. Len(z) > 0 /\ Len(z) >= Len(s)
      BY <1>1, <2>1, <3>3
    <3> HIDE DEF z
    <3> QED BY <2>1, <3>3, <3>4, <3>5, <3>6 DEF VotedSlots
  <2>2. CASE k = 0 /\ (\A i \in 1..Len(s) : s[i].code # c) /\ Len(s) < SLOTS
    <3> DEFINE x == [code |-> c, count |-> 1]
    <3>1. x \in SlotRecords /\ x.code = c /\ x.count = 1
      BY DEF SlotRecords
    <3>2. z = Append(s, x)
      BY <2>2
    <3> HIDE DEF x
    <3>3. z \in Seq(SlotRecords) /\ Len(z) = Len(s) + 1 /\ z[Len(s) + 1] = x /\ \A i \in 1..Len(s) : z[i] = s[i]
      BY <1>1, <3>1, <3>2, AppendProperties
    <3>4. \A i \in 1..Len(s) : z[i].code = s[i].code /\ z[i].count = s[i].count /\ s[i].code # c
      BY <2>2, <3>3
    <3>5. z[Len(z)].code = c /\ z[Len(z)].count = 1 /\ Len(z) > 0 /\ Len(z) >= Len(s)
      BY <1>1, <3>1, <3>3
    <3> HIDE DEF z
    <3> QED BY <2>2, <3>3, <3>4, <3>5 DEF VotedSlots
  <2>3. CASE k = 0 /\ (\A i \in 1..Len(s) : s[i].code # c) /\ Len(s) >= SLOTS
    BY <1>1, <2>3 DEF VotedSlots
  <2> QED BY <1>1, <1>4, <2>1, <2>2, <2>3
<1> HIDE DEF z
<1>6. z \in Seq(SlotRecords) /\ Len(z) > 0
  BY <1>5 DEF VotedSlots
<1>7. FirstMost(z) \in Nat
  BY <1>6, FirstMostIs
<1> QED BY <1>2, <1>5, <1>6, <1>7 DEF Holes, s
-----------------------------------------------------------------------------
(* The pairs                                                               *)

(* Record k is the last of P that marks the film: an edge or a code word.  *)
IsMark(r) == r.type \in {3, 4, 5}
Newest(P, k) == k \in 1..Len(P) /\ \A m \in 1..Len(P) : IsMark(P[m]) => m <= k

(* The entries of a table are of records before k.                         *)
AllBefore(tb, k) == \A i \in 1..Len(tb) : tb[i].edge < k /\ tb[i].mark < k

(* An entry's earlier and later record.                                    *)
Lo(t) == IF t.mark # 0 /\ t.mark < t.edge THEN t.mark ELSE t.edge
Hi(t) == IF t.mark > t.edge THEN t.mark ELSE t.edge

(* What an entry of a strip (tail first from some packet on, or not) says  *)
(* of the records.                                                         *)
EntryHolds(tl, P, t) ==
  /\ t.edge \in 1..Len(P) /\ t.mark \in 0..Len(P)
  /\ P[t.edge].type = 5 /\ t.line = P[t.edge].line + P[t.edge].bit * OFFSET
  /\ \A m \in 1..Len(P) : IsMark(P[m]) => m \in {t.edge, t.mark} \/ m < Lo(t) \/ m > Hi(t)
  /\ t.mark = 0 => t.code = Invalid /\ tl
  /\ t.mark # 0 => P[t.mark].type \in {3, 4} /\ (t.edge < t.mark \/ tl)
TableHolds(tl, P, tb) ==
  \A i \in 1..Len(tb) : EntryHolds(tl, P, tb[i]) /\ (i > 1 => Hi(tb[i - 1]) < Lo(tb[i]))

(* What waits is the last mark, and is in no entry yet.                    *)
EdgeWaits(P, tb, e, bit) ==
  e # None => /\ Newest(P, e.n) /\ P[e.n].type = 5 /\ P[e.n].bit = bit /\ P[e.n].line = e.line
              /\ AllBefore(tb, e.n)
CodeWaits(tl, P, tb, c) ==
  c # NoCode => tl /\ Newest(P, c.n) /\ P[c.n].type \in {3, 4} /\ AllBefore(tb, c.n)

(* The hole h has the pairs of the records P.                              *)
PairsHold(h, P) ==
  /\ TableHolds(h.tail, P, h.table)
  /\ EdgeWaits(P, h.table, h.e50, 1) /\ EdgeWaits(P, h.table, h.e54, 0)
  /\ CodeWaits(h.tail, P, h.table, h.c5c)

(* A record more.                                                          *)
GrowsBy(P, r, Q) == Q = Append(P, r)
(* The records before it stay, and it is the last one.                     *)
LEMMA OneMore ==
  ASSUME NEW P \in Seq(ParsedRecords), NEW r \in ParsedRecords, NEW Q, GrowsBy(P, r, Q)
  PROVE  /\ Q \in Seq(ParsedRecords) /\ Len(P) \in Nat /\ Len(Q) = Len(P) + 1 /\ Q[Len(P) + 1] = r
         /\ \A i \in 1..Len(P) : Q[i] = P[i] /\ i \in 1..Len(Q)
         /\ \A i \in 1..Len(Q) : i \in 1..Len(P) \/ i = Len(P) + 1
<1>1. Len(P) \in Nat
  OBVIOUS
<1>2. Q \in Seq(ParsedRecords) /\ Len(Q) = Len(P) + 1 /\ Q[Len(P) + 1] = r /\ \A i \in 1..Len(P) : Q[i] = P[i]
  BY AppendProperties DEF GrowsBy
<1> QED BY <1>1, <1>2

(* What a table says stays true, and of a strip found to be tail first.    *)
LEMMA TableStays ==
  ASSUME NEW P \in Seq(ParsedRecords), NEW r \in ParsedRecords, NEW Q, GrowsBy(P, r, Q),
         NEW tb \in Seq(EntryRecords), NEW tl, TableHolds(tl, P, tb)
  PROVE  TableHolds(tl, Q, tb) /\ AllBefore(tb, Len(P) + 1)
<1>1. ASSUME NEW i \in 1..Len(tb) PROVE EntryHolds(tl, Q, tb[i]) /\ tb[i].edge < Len(P) + 1 /\ tb[i].mark < Len(P) + 1
  <2>1. PICK t \in EntryRecords : t = tb[i]
    BY ElementOfSeq
  <2>2. t.edge \in Nat /\ t.mark \in Nat
    BY DEF EntryRecords
  <2>3. EntryHolds(tl, P, t)
    BY <2>1 DEF TableHolds
  <2>4. /\ Len(P) \in Nat /\ Len(Q) = Len(P) + 1 /\ \A m \in 1..Len(P) : Q[m] = P[m]
        /\ \A m \in 1..Len(Q) : m \in 1..Len(P) \/ m = Len(P) + 1
    BY OneMore
  <2>5. Hi(t) < Len(P) + 1 /\ t.edge \in 1..Len(P) /\ t.mark \in 0..Len(P) /\ (t.mark # 0 => t.mark \in 1..Len(P))
    BY <2>2, <2>3, <2>4 DEF EntryHolds, Hi
  <2>6. \A m \in 1..Len(Q) : IsMark(Q[m]) => m \in {t.edge, t.mark} \/ m < Lo(t) \/ m > Hi(t)
    BY <2>3, <2>4, <2>5 DEF EntryHolds
  <2>7. t.edge \in 1..Len(Q) /\ t.mark \in 0..Len(Q) /\ Q[t.edge] = P[t.edge] /\ (t.mark # 0 => Q[t.mark] = P[t.mark])
    BY <2>4, <2>5
  <2>8. EntryHolds(tl, Q, t)
    BY <2>3, <2>6, <2>7 DEF EntryHolds
  <2> QED BY <2>1, <2>4, <2>5, <2>8
<1>2. \A i \in 1..Len(tb) : i > 1 => Hi(tb[i - 1]) < Lo(tb[i])
  BY DEF TableHolds
<1> QED BY <1>1, <1>2 DEF TableHolds, AllBefore

(* An entry of later records more.                                         *)
LEMMA TableEnters ==
  ASSUME NEW Q, NEW tb \in Seq(EntryRecords), NEW tl, TableHolds(tl, Q, tb),
         NEW t \in EntryRecords, EntryHolds(tl, Q, t), AllBefore(tb, Lo(t))
  PROVE  TableHolds(tl, Q, Append(tb, t))
<1> DEFINE z == Append(tb, t)
<1>1. Len(tb) \in Nat /\ Len(z) = Len(tb) + 1 /\ z[Len(tb) + 1] = t /\ \A i \in 1..Len(tb) : z[i] = tb[i]
  BY AppendProperties
<1> HIDE DEF z
<1>2. ASSUME NEW i \in 1..Len(z) PROVE EntryHolds(tl, Q, z[i]) /\ (i > 1 => Hi(z[i - 1]) < Lo(z[i]))
  <2>1. CASE i \in 1..Len(tb)
    <3>1. i > 1 => i - 1 \in 1..Len(tb)
      BY <1>1, <2>1
    <3>2. z[i] = tb[i] /\ (i > 1 => z[i - 1] = tb[i - 1])
      BY <1>1, <2>1, <3>1
    <3> QED BY <2>1, <3>2 DEF TableHolds
  <2>2. CASE i = Len(tb) + 1
    <3>1. i > 1 => i - 1 \in 1..Len(tb) /\ i - 1 = Len(tb)
      BY <1>1, <2>2
    <3>2. i > 1 => Hi(z[i - 1]) < Lo(t)
      BY <1>1, <3>1 DEF AllBefore, Hi
    <3> QED BY <1>1, <2>2, <3>2
  <2> QED BY <1>1, <2>1, <2>2
<1> QED BY <1>2 DEF TableHolds, z

(* A pending edge and the code word after it.                              *)
LEMMA PairEnters ==
  ASSUME NEW P \in Seq(ParsedRecords), NEW r \in ParsedRecords, NEW Q, GrowsBy(P, r, Q), r.type \in {3, 4},
         NEW tb \in Seq(EntryRecords), NEW e \in EdgeRecords, NEW bit \in 0..1, EdgeWaits(P, tb, e, bit), e # None, NEW tl,
         NEW t \in EntryRecords, t.line = e.line + bit * OFFSET, t.edge = e.n, t.mark = Len(P) + 1
  PROVE  EntryHolds(tl, Q, t) /\ AllBefore(tb, Lo(t))
<1>1. /\ Len(P) \in Nat /\ Len(Q) = Len(P) + 1 /\ Q[Len(P) + 1] = r /\ \A m \in 1..Len(P) : Q[m] = P[m]
      /\ \A m \in 1..Len(Q) : m \in 1..Len(P) \/ m = Len(P) + 1
  BY OneMore
<1>2. /\ e.n \in 1..Len(P) /\ P[e.n].type = 5 /\ P[e.n].bit = bit /\ P[e.n].line = e.line /\ AllBefore(tb, e.n)
      /\ \A m \in 1..Len(P) : IsMark(P[m]) => m <= e.n
  BY DEF EdgeWaits, Newest
<1>3. e.n \in Nat /\ e.n < Len(P) + 1 /\ Lo(t) = e.n /\ Hi(t) = Len(P) + 1 /\ t.mark # 0
  BY <1>1, <1>2 DEF Lo, Hi
<1>4. \A m \in 1..Len(Q) : IsMark(Q[m]) => m \in {t.edge, t.mark} \/ m < Lo(t) \/ m > Hi(t)
  BY <1>1, <1>2, <1>3
<1>5. Q[t.edge] = P[e.n] /\ Q[t.mark] = r /\ t.edge \in 1..Len(Q) /\ t.mark \in 0..Len(Q)
  BY <1>1, <1>2
<1> QED BY <1>2, <1>3, <1>4, <1>5 DEF EntryHolds

(* Tail first, an edge and the code word before it, if there is one.       *)
LEMMA TailEnters ==
  ASSUME NEW P \in Seq(ParsedRecords), NEW r \in ParsedRecords, NEW Q, GrowsBy(P, r, Q), r.type = 5,
         NEW tb \in Seq(EntryRecords), NEW c \in CodeRecords, CodeWaits(TRUE, P, tb, c), AllBefore(tb, Len(P) + 1),
         NEW t \in EntryRecords, t.code = c.frame, t.line = r.line + r.bit * OFFSET, t.edge = Len(P) + 1, t.mark = c.n
  PROVE  EntryHolds(TRUE, Q, t) /\ AllBefore(tb, Lo(t))
<1>1. /\ Len(P) \in Nat /\ Len(Q) = Len(P) + 1 /\ Q[Len(P) + 1] = r /\ \A m \in 1..Len(P) : Q[m] = P[m]
      /\ \A m \in 1..Len(Q) : m \in 1..Len(P) \/ m = Len(P) + 1
  BY OneMore
<1>2. CASE c = NoCode
  <2>1. t.mark = 0 /\ t.code = Invalid /\ Lo(t) = Len(P) + 1 /\ Hi(t) = Len(P) + 1
    BY <1>1, <1>2, NothingIs DEF Lo, Hi
  <2>2. \A m \in 1..Len(Q) : IsMark(Q[m]) => m \in {t.edge, t.mark} \/ m < Lo(t) \/ m > Hi(t)
    BY <1>1, <2>1
  <2>3. Q[t.edge] = r /\ t.edge \in 1..Len(Q) /\ t.mark \in 0..Len(Q)
    BY <1>1, <2>1
  <2> QED BY <2>1, <2>2, <2>3 DEF EntryHolds
<1>3. CASE c # NoCode
  <2>1. /\ c.n \in 1..Len(P) /\ P[c.n].type \in {3, 4} /\ AllBefore(tb, c.n)
        /\ \A m \in 1..Len(P) : IsMark(P[m]) => m <= c.n
    BY <1>3 DEF CodeWaits, Newest
  <2>2. c.n \in Nat /\ c.n # 0 /\ c.n < Len(P) + 1 /\ Lo(t) = c.n /\ Hi(t) = Len(P) + 1
    BY <1>1, <2>1 DEF Lo, Hi
  <2>3. \A m \in 1..Len(Q) : IsMark(Q[m]) => m \in {t.edge, t.mark} \/ m < Lo(t) \/ m > Hi(t)
    BY <1>1, <2>1, <2>2
  <2>4. Q[t.mark] = P[c.n] /\ Q[t.edge] = r /\ t.edge \in 1..Len(Q) /\ t.mark \in 0..Len(Q)
    BY <1>1, <2>1
  <2> QED BY <2>1, <2>2, <2>3, <2>4 DEF EntryHolds
<1> QED BY <1>2, <1>3

(* Pairs are in these fields of the hole only.                             *)
LEMMA PairsSame ==
  ASSUME NEW P, NEW h, NEW g, PairsHold(h, P),
         g.tail = h.tail, g.e50 = h.e50, g.e54 = h.e54, g.c5c = h.c5c, g.table = h.table
  PROVE  PairsHold(g, P)
BY DEF PairsHold

(* A record that is no mark leaves what waits waiting.                     *)
LEMMA PairsStay ==
  ASSUME NEW P \in Seq(ParsedRecords), NEW r \in ParsedRecords, NEW Q, GrowsBy(P, r, Q), ~IsMark(r),
         NEW h \in Holes, PairsHold(h, P)
  PROVE  PairsHold(h, Q)
<1>1. /\ Len(P) \in Nat /\ Len(Q) = Len(P) + 1 /\ Q[Len(P) + 1] = r
      /\ \A m \in 1..Len(P) : Q[m] = P[m] /\ m \in 1..Len(Q)
      /\ \A m \in 1..Len(Q) : m \in 1..Len(P) \/ m = Len(P) + 1
  BY OneMore
<1>2. ASSUME NEW k, Newest(P, k) PROVE Newest(Q, k) /\ Q[k] = P[k]
  BY <1>1, <1>2 DEF Newest
<1>3. \A e \in EdgeRecords, bit \in 0..1 : EdgeWaits(P, h.table, e, bit) => EdgeWaits(Q, h.table, e, bit)
  BY <1>2 DEF EdgeWaits
<1>4. CodeWaits(h.tail, Q, h.table, h.c5c)
  BY <1>2 DEF CodeWaits, PairsHold
<1>5. TableHolds(h.tail, Q, h.table)
  BY HoleFields, TableStays DEF PairsHold
<1>6. EdgeWaits(Q, h.table, h.e50, 1) /\ EdgeWaits(Q, h.table, h.e54, 0)
  BY <1>3, HoleFields DEF PairsHold
<1> QED BY <1>4, <1>5, <1>6 DEF PairsHold

(* A record after which nothing waits, or after which only it does.        *)
LEMMA PairsDropped ==
  ASSUME NEW P \in Seq(ParsedRecords), NEW r \in ParsedRecords, NEW Q, GrowsBy(P, r, Q),
         NEW h \in Holes, PairsHold(h, P),
         NEW g, g.tail = h.tail, g.table = h.table,
         g.e50 \in {None, [n |-> Len(P) + 1, line |-> r.line, bit |-> 1]},
         g.e54 \in {None, [n |-> Len(P) + 1, line |-> r.line, bit |-> 0]},
         g.e50 # None => r.type = 5 /\ r.bit = 1, g.e54 # None => r.type = 5 /\ r.bit = 0,
         g.c5c = NoCode \/ (h.tail /\ r.type \in {3, 4} /\ g.c5c.n = Len(P) + 1)
  PROVE  PairsHold(g, Q)
<1>1. /\ Len(P) \in Nat /\ Len(Q) = Len(P) + 1 /\ Q[Len(P) + 1] = r
      /\ \A m \in 1..Len(Q) : m <= Len(P) + 1
  BY OneMore
<1>2. TableHolds(g.tail, Q, g.table) /\ AllBefore(g.table, Len(P) + 1)
  BY HoleFields, TableStays DEF PairsHold
<1>3. Newest(Q, Len(P) + 1)
  BY <1>1 DEF Newest
<1>4. EdgeWaits(Q, g.table, g.e50, 1)
  BY <1>1, <1>2, <1>3 DEF EdgeWaits
<1>5. EdgeWaits(Q, g.table, g.e54, 0)
  BY <1>1, <1>2, <1>3 DEF EdgeWaits
<1>6. CodeWaits(g.tail, Q, g.table, g.c5c)
  BY <1>1, <1>2, <1>3 DEF CodeWaits
<1> QED BY <1>2, <1>4, <1>5, <1>6 DEF PairsHold

(* A record that makes an entry; nothing waits after it.                   *)
LEMMA PairsEntered ==
  ASSUME NEW P \in Seq(ParsedRecords), NEW r \in ParsedRecords, NEW Q, GrowsBy(P, r, Q),
         NEW h \in Holes, PairsHold(h, P), NEW t \in EntryRecords, EntryHolds(h.tail, Q, t), AllBefore(h.table, Lo(t))
  PROVE  PairsHold(Entered(h, t), Q)
<1>1. PICK g : g = Entered(h, t)
  OBVIOUS
<1>2. g.e50 = None /\ g.e54 = None /\ g.c5c = NoCode /\ g.table = Append(h.table, t) /\ g.tail = h.tail
  BY <1>1, EnteredIs
<1>3. TableHolds(h.tail, Q, h.table)
  BY HoleFields, TableStays DEF PairsHold
<1>4. TableHolds(g.tail, Q, g.table)
  BY <1>2, <1>3, HoleFields, TableEnters
<1> QED BY <1>1, <1>2, <1>4 DEF PairsHold, EdgeWaits, CodeWaits

(* Head first, a code word takes the edge before it or drops it.           *)
LEMMA PairedPairs ==
  ASSUME NEW P \in Seq(ParsedRecords), NEW r \in ParsedRecords, NEW Q, GrowsBy(P, r, Q), r.type \in {3, 4}, r.n = Len(P) + 1,
         NEW h \in Holes, PairsHold(h, P), ~h.tail, NEW frame \in Int
  PROVE  PairsHold(Paired(h, r, frame), Q) /\ Paired(h, r, frame) \in Holes
<1>1. h.e50 \in EdgeRecords /\ h.e54 \in EdgeRecords /\ h.c5c = NoCode /\ OFFSET \in Nat
  BY HoleFields, DxAssumption DEF PairsHold, CodeWaits
<1>2. PairsHold(NonePending(h), Q) /\ NonePending(h) \in Holes
  <2>1. PICK g : g = NonePending(h)
    OBVIOUS
  <2>2. g \in Holes /\ g.e50 = None /\ g.e54 = None /\ g.tail = h.tail /\ g.c5c = h.c5c /\ g.table = h.table
    BY <2>1, NonePendingIs
  <2> QED BY <1>1, <2>1, <2>2, PairsDropped
<1>3. ASSUME NEW e \in EdgeRecords, NEW bit \in 0..1, EdgeWaits(P, h.table, e, bit), e # None, NEW t,
             t = [code |-> frame, line |-> e.line + bit * OFFSET, edge |-> e.n, mark |-> r.n]
      PROVE  PairsHold(Entered(h, t), Q) /\ Entered(h, t) \in Holes
  <2>1. e.line + bit * OFFSET \in Int /\ e.n \in Nat /\ r.n \in Nat
    BY <1>1 DEF EdgeRecords, ParsedRecords
  <2>2. t \in EntryRecords /\ t.line = e.line + bit * OFFSET /\ t.edge = e.n /\ t.mark = Len(P) + 1
    BY <1>3, <2>1 DEF EntryRecords
  <2>3. EntryHolds(h.tail, Q, t) /\ AllBefore(h.table, Lo(t))
    BY <1>3, <2>2, HoleFields, PairEnters
  <2> QED BY <2>2, <2>3, PairsEntered, EnteredIs
<1>4. CASE Len(h.table) < TABLE /\ h.e50 # None /\ r.bit = 1
  <2>1. Paired(h, r, frame) = Entered(h, [code |-> frame, line |-> h.e50.line + OFFSET, edge |-> h.e50.n, mark |-> r.n])
    BY <1>4 DEF Paired
  <2>2. h.e50.line + OFFSET = h.e50.line + 1 * OFFSET
    BY <1>1 DEF EdgeRecords
  <2> QED BY <1>1, <1>3, <1>4, <2>1, <2>2 DEF PairsHold
<1>5. CASE Len(h.table) < TABLE /\ ~(h.e50 # None /\ r.bit = 1) /\ h.e54 # None /\ r.low
  <2>1. Paired(h, r, frame) = Entered(h, [code |-> frame, line |-> h.e54.line + 0, edge |-> h.e54.n, mark |-> r.n])
    BY <1>5 DEF Paired
  <2>2. h.e54.line + 0 = h.e54.line + 0 * OFFSET
    BY <1>1 DEF EdgeRecords
  <2> QED BY <1>1, <1>3, <1>5, <2>1, <2>2 DEF PairsHold
<1>6. CASE ~(Len(h.table) < TABLE /\ ((h.e50 # None /\ r.bit = 1) \/ (h.e54 # None /\ r.low)))
  BY <1>2, <1>6 DEF Paired
<1> QED BY <1>4, <1>5, <1>6

(* What a code word does to the pairs.                                     *)
LEMMA CodeWordPairs ==
  ASSUME NEW P \in Seq(ParsedRecords), NEW r \in ParsedRecords, NEW Q, GrowsBy(P, r, Q), r.type \in {3, 4}, r.n = Len(P) + 1,
         NEW h \in Holes, PairsHold(h, P)
  PROVE  PairsHold(CodeWord(h, r), Q) /\ CodeWord(h, r) \in Holes
<1>1. PICK v : v = IF r.ok THEN Voted(h, r.code) ELSE h
  OBVIOUS
<1>2. r.code \in Int /\ r.n \in Nat /\ r.bit \in 0..1
  BY DEF ParsedRecords
<1>3. v \in Holes /\ v.tail = h.tail /\ v.e50 = h.e50 /\ v.e54 = h.e54 /\ v.c5c = h.c5c /\ v.table = h.table
  <2>1. ASSUME r.ok PROVE v = Voted(h, r.code)
    BY <1>1, <2>1
  <2>2. ASSUME ~r.ok PROVE v = h
    BY <1>1, <2>2
  <2>3. PICK c \in Int : c = r.code
    BY <1>2
  <2>4. CASE r.ok
    <3>1. v = Voted(h, c)
      BY <2>1, <2>3, <2>4
    <3> QED BY <3>1, VotedIs
  <2>5. CASE ~r.ok
    BY <2>2, <2>5
  <2> QED BY <2>4, <2>5
<1>4. PairsHold(v, P)
  BY <1>3, PairsSame
<1>5. Frame(r) \in Int /\ Doubled(Frame(r)) \in Int
  BY <1>2 DEF Frame, Doubled, Invalid
<1>6. CASE h.tail
  <2>1. PICK c : c = [n |-> r.n, bit |-> r.bit, frame |-> Doubled(Frame(r))]
    OBVIOUS
  <2>2. c \in CodeRecords /\ c.n = Len(P) + 1
    BY <1>2, <1>5, <2>1 DEF CodeRecords
  <2>3. PICK g : g = WithCode(v, c)
    OBVIOUS
  <2>4. g \in Holes /\ g.e50 = None /\ g.e54 = None /\ g.c5c = c /\ g.tail = v.tail /\ g.table = v.table
    BY <1>3, <2>2, <2>3, CodeSet
  <2>5. PairsHold(g, Q)
    BY <1>3, <1>4, <1>6, <2>2, <2>4, PairsDropped
  <2>6. CodeWord(h, r) = g
    BY <1>1, <1>6, <2>1, <2>3 DEF CodeWord, WithCode
  <2> QED BY <2>4, <2>5, <2>6
<1>7. CASE ~h.tail
  <2>1. CodeWord(h, r) = Paired(v, r, Frame(r))
    BY <1>1, <1>7 DEF CodeWord
  <2> QED BY <1>3, <1>4, <1>5, <1>7, <2>1, PairedPairs
<1> QED BY <1>6, <1>7

(* What an edge does to the pairs.                                         *)
LEMMA EdgePairs ==
  ASSUME NEW P \in Seq(ParsedRecords), NEW r \in ParsedRecords, NEW Q, GrowsBy(P, r, Q), r.type = 5, r.n = Len(P) + 1,
         NEW h \in Holes, PairsHold(h, P)
  PROVE  PairsHold(Edge(h, r), Q) /\ Edge(h, r) \in Holes /\ Edge(h, r).slots = h.slots /\ Edge(h, r).winner = h.winner
<1>1. r.line \in Int /\ r.n \in Nat /\ r.bit \in 0..1 /\ OFFSET \in Nat /\ h.tail \in BOOLEAN
  BY HoleFields, DxAssumption DEF ParsedRecords
<1>2. PICK g : g = Edge(h, r)
  OBVIOUS
<1>3. CASE ~h.tail
  <2>1. h.c5c = NoCode
    BY <1>3 DEF PairsHold, CodeWaits
  <2>2. CASE r.bit = 1
    <3>1. PICK e : e = [n |-> r.n, line |-> r.line, bit |-> 1]
      OBVIOUS
    <3>2. e \in EdgeRecords
      BY <1>1, <3>1 DEF EdgeRecords
    <3>3. g = WithEdge(h, e) /\ e.bit = 1
      BY <1>2, <1>3, <2>2, <3>1 DEF Edge, WithEdge
    <3>4. g \in Holes /\ g.e50 = e /\ g.e54 = None /\ g.tail = h.tail /\ g.c5c = h.c5c /\ g.table = h.table /\ g.slots = h.slots /\ g.winner = h.winner
      BY <3>2, <3>3, NothingIs, EdgeSet
    <3>5. PairsHold(g, Q)
      BY <2>1, <2>2, <3>1, <3>4, PairsDropped
    <3> QED BY <1>2, <3>4, <3>5
  <2>3. CASE r.bit # 1
    <3>1. PICK e : e = [n |-> r.n, line |-> r.line, bit |-> 0]
      OBVIOUS
    <3>2. e \in EdgeRecords /\ r.bit = 0
      BY <1>1, <2>3, <3>1 DEF EdgeRecords
    <3>3. g = WithEdge(h, e) /\ e.bit = 0
      BY <1>2, <1>3, <2>3, <3>1 DEF Edge, WithEdge
    <3>4. g \in Holes /\ g.e50 = None /\ g.e54 = e /\ g.tail = h.tail /\ g.c5c = h.c5c /\ g.table = h.table /\ g.slots = h.slots /\ g.winner = h.winner
      BY <3>2, <3>3, NothingIs, EdgeSet
    <3>5. PairsHold(g, Q)
      BY <2>1, <3>1, <3>2, <3>4, PairsDropped
    <3> QED BY <1>2, <3>4, <3>5
  <2> QED BY <2>2, <2>3
<1>4. CASE h.tail /\ (r.bit # h.c5c.bit \/ ~(Len(h.table) < TABLE))
  <2>1. g = WithCode(h, NoCode)
    BY <1>2, <1>4 DEF Edge, WithCode
  <2>2. g \in Holes /\ g.e50 = None /\ g.e54 = None /\ g.c5c = NoCode /\ g.tail = h.tail /\ g.table = h.table /\ g.slots = h.slots /\ g.winner = h.winner
    BY <2>1, NothingIs, CodeSet
  <2>3. PairsHold(g, Q)
    BY <2>2, PairsDropped
  <2> QED BY <1>2, <2>2, <2>3
<1>5. CASE h.tail /\ r.bit = h.c5c.bit /\ Len(h.table) < TABLE
  <2>1. PICK t : t = [code |-> h.c5c.frame, line |-> r.line + r.bit * OFFSET, edge |-> r.n, mark |-> h.c5c.n]
    OBVIOUS
  <2>2. h.c5c \in CodeRecords /\ h.c5c.frame \in Int /\ h.c5c.n \in Nat /\ r.line + r.bit * OFFSET \in Int
    BY <1>1, HoleFields DEF CodeRecords
  <2>3. t \in EntryRecords /\ t.code = h.c5c.frame /\ t.line = r.line + r.bit * OFFSET /\ t.edge = Len(P) + 1 /\ t.mark = h.c5c.n
    BY <1>1, <2>1, <2>2 DEF EntryRecords
  <2>4. g = Entered(h, t)
    BY <1>2, <1>5, <2>1 DEF Edge
  <2>5. CodeWaits(TRUE, P, h.table, h.c5c) /\ h.tail = TRUE
    BY <1>5 DEF PairsHold, CodeWaits
  <2>6. AllBefore(h.table, Len(P) + 1)
    BY HoleFields, TableStays DEF PairsHold
  <2>7. EntryHolds(TRUE, Q, t) /\ AllBefore(h.table, Lo(t))
    BY <2>2, <2>3, <2>5, <2>6, HoleFields, TailEnters
  <2>8. PairsHold(g, Q)
    BY <2>3, <2>4, <2>5, <2>7, PairsEntered
  <2> QED BY <1>2, <2>3, <2>4, <2>8, EnteredIs
<1> QED BY <1>3, <1>4, <1>5

-----------------------------------------------------------------------------
(* The votes of the records P, and what the hole's slots say of them.      *)
VotesFor(r, c) == r.type \in {3, 4} /\ r.ok /\ r.code = c
AcceptedOf(P, c) == {k \in 1..Len(P) : VotesFor(P[k], c)}
VotesHold(h, P) ==
  /\ Len(h.slots) <= SLOTS /\ (Len(h.slots) > 0 => h.winner = FirstMost(h.slots))
  /\ \A i \in 1..Len(h.slots) : /\ AcceptedOf(P, h.slots[i].code) # {}
                                 /\ h.slots[i].count = Cardinality(AcceptedOf(P, h.slots[i].code))
  /\ \A i, j \in 1..Len(h.slots) :
       i < j => Min(AcceptedOf(P, h.slots[i].code)) < Min(AcceptedOf(P, h.slots[j].code))
  /\ \A c : AcceptedOf(P, c) # {} /\ (\A i \in 1..Len(h.slots) : h.slots[i].code # c) => Len(h.slots) = SLOTS

(* A vote more is one more of its code and the same of the others.         *)
LEMMA AcceptedGrows ==
  ASSUME NEW P \in Seq(ParsedRecords), NEW r \in ParsedRecords, NEW Q, GrowsBy(P, r, Q), NEW c
  PROVE  /\ AcceptedOf(P, c) # {} =>
              /\ Min(AcceptedOf(P, c)) \in Nat /\ Min(AcceptedOf(P, c)) < Len(P) + 1
              /\ AcceptedOf(Q, c) # {} /\ Min(AcceptedOf(Q, c)) = Min(AcceptedOf(P, c))
         /\ Cardinality(AcceptedOf(P, c)) \in Nat /\ (AcceptedOf(P, c) = {} => Cardinality(AcceptedOf(P, c)) = 0)
         /\ ~VotesFor(r, c) => AcceptedOf(Q, c) = AcceptedOf(P, c)
         /\ VotesFor(r, c) =>
              /\ AcceptedOf(Q, c) # {} /\ Cardinality(AcceptedOf(Q, c)) = Cardinality(AcceptedOf(P, c)) + 1
              /\ AcceptedOf(P, c) = {} => Min(AcceptedOf(Q, c)) = Len(P) + 1
<1> DEFINE a == AcceptedOf(P, c)
           z == AcceptedOf(Q, c)
           n == Len(P) + 1
           voted == VotesFor(r, c)
<1>1. /\ Len(P) \in Nat /\ Len(Q) = n /\ Q[n] = r /\ \A m \in 1..Len(P) : Q[m] = P[m] /\ m \in 1..Len(Q)
      /\ \A m \in 1..Len(Q) : m \in 1..Len(P) \/ m = n
  BY OneMore
<1>2. a \subseteq 1..Len(P)
  BY DEF AcceptedOf
<1>3. z = IF voted THEN a \union {n} ELSE a
  <2>1. \A m \in 1..Len(P) : m \in z <=> m \in a
    BY <1>1 DEF AcceptedOf
  <2>2. n \in z <=> voted
    BY <1>1 DEF AcceptedOf
  <2>3. \A m : m \in z => m \in 1..Len(P) \/ m = n
    BY <1>1 DEF AcceptedOf
  <2> HIDE DEF z, a, voted
  <2>4. \A m : m \in a => m \in 1..Len(P)
    BY <1>2
  <2>5. CASE voted
    <3>1. \A m : m \in z <=> m \in a \union {n}
      BY <2>1, <2>2, <2>3, <2>4, <2>5
    <3> QED BY <2>5, <3>1
  <2>6. CASE ~voted
    <3>1. \A m : m \in z <=> m \in a
      BY <2>1, <2>2, <2>3, <2>4, <2>6
    <3> QED BY <2>6, <3>1
  <2> QED BY <2>5, <2>6
<1> HIDE DEF a, z, voted
<1>4. IsFiniteSet(a) /\ Cardinality(a) \in Nat /\ (a = {} => Cardinality(a) = 0)
  <2>1. IsFiniteSet(1..Len(P))
    BY <1>1, FS_Interval
  <2> QED BY <1>2, <2>1, FS_Subset, FS_CardinalityType, FS_EmptySet
<1>5. \A m \in a : m \in Nat /\ m < n
  BY <1>1, <1>2
<1>6. n \in Nat /\ n \notin a
  BY <1>1, <1>5
<1>7. ASSUME a # {} PROVE Min(a) < n /\ z # {} /\ Min(z) = Min(a) /\ Min(a) \in Nat
  <2>1. a \in SUBSET Nat /\ z \in SUBSET Nat /\ z # {}
    BY <1>3, <1>5, <1>6, <1>7
  <2>2. Min(a) \in a /\ Min(z) \in z /\ (\A y \in a : Min(a) <= y) /\ (\A y \in z : Min(z) <= y)
    BY <1>7, <2>1, MinIs
  <2>3. Min(a) \in z /\ Min(a) \in Nat /\ Min(z) \in Nat /\ Min(a) < n
    BY <1>3, <1>5, <2>1, <2>2
  <2>4. Min(z) <= Min(a)
    BY <2>2, <2>3
  <2>5. Min(z) \in a
    BY <1>3, <1>6, <2>2, <2>3, <2>4
  <2> QED BY <2>1, <2>2, <2>3, <2>4, <2>5
<1>8. ASSUME voted PROVE z # {} /\ Cardinality(z) = Cardinality(a) + 1
  <2>1. z = a \union {n}
    BY <1>3, <1>8
  <2> QED BY <1>4, <1>6, <2>1, FS_AddElement
<1>9. ASSUME voted, a = {} PROVE Min(z) = n
  <2>1. z = {n} /\ z \in SUBSET Nat /\ z # {}
    BY <1>3, <1>6, <1>9
  <2> QED BY <2>1, MinIs
<1> QED BY <1>3, <1>4, <1>7, <1>8, <1>9 DEF a, z, voted

(* A record that is no vote leaves them.                                   *)
LEMMA VotesStay ==
  ASSUME NEW P \in Seq(ParsedRecords), NEW r \in ParsedRecords, NEW Q, GrowsBy(P, r, Q), ~(r.type \in {3, 4} /\ r.ok),
         NEW h \in Holes, VotesHold(h, P), NEW g, g.slots = h.slots, g.winner = h.winner
  PROVE  VotesHold(g, Q)
<1>1. ASSUME NEW c PROVE AcceptedOf(Q, c) = AcceptedOf(P, c)
  <2>1. ~VotesFor(r, c)
    BY DEF VotesFor
  <2> QED BY <2>1, AcceptedGrows
<1> QED BY <1>1 DEF VotesHold

(* A vote, for its code and for the others.                                *)
LEMMA OneVote ==
  ASSUME NEW P \in Seq(ParsedRecords), NEW r \in ParsedRecords, NEW Q, GrowsBy(P, r, Q), r.type \in {3, 4}, r.ok, NEW x
  PROVE  /\ AcceptedOf(P, x) # {} =>
              /\ Min(AcceptedOf(P, x)) \in Nat /\ Min(AcceptedOf(P, x)) < Len(P) + 1
              /\ AcceptedOf(Q, x) # {} /\ Min(AcceptedOf(Q, x)) = Min(AcceptedOf(P, x))
         /\ x # r.code => AcceptedOf(Q, x) = AcceptedOf(P, x)
         /\ x = r.code => AcceptedOf(Q, x) # {} /\ Cardinality(AcceptedOf(Q, x)) = Cardinality(AcceptedOf(P, x)) + 1
         /\ x = r.code /\ AcceptedOf(P, x) = {} => Cardinality(AcceptedOf(P, x)) = 0 /\ Min(AcceptedOf(Q, x)) = Len(P) + 1
<1>1. CASE x = r.code
  <2>1. VotesFor(r, x)
    BY <1>1 DEF VotesFor
  <2>2. /\ AcceptedOf(P, x) # {} =>
              /\ Min(AcceptedOf(P, x)) \in Nat /\ Min(AcceptedOf(P, x)) < Len(P) + 1
              /\ AcceptedOf(Q, x) # {} /\ Min(AcceptedOf(Q, x)) = Min(AcceptedOf(P, x))
        /\ AcceptedOf(P, x) = {} => Cardinality(AcceptedOf(P, x)) = 0
        /\ AcceptedOf(Q, x) # {} /\ Cardinality(AcceptedOf(Q, x)) = Cardinality(AcceptedOf(P, x)) + 1
        /\ AcceptedOf(P, x) = {} => Min(AcceptedOf(Q, x)) = Len(P) + 1
    BY <2>1, AcceptedGrows
  <2> QED BY <1>1, <2>2
<1>2. CASE x # r.code
  <2>1. ~VotesFor(r, x)
    BY <1>2 DEF VotesFor
  <2>2. /\ AcceptedOf(P, x) # {} =>
              /\ Min(AcceptedOf(P, x)) \in Nat /\ Min(AcceptedOf(P, x)) < Len(P) + 1
              /\ AcceptedOf(Q, x) # {} /\ Min(AcceptedOf(Q, x)) = Min(AcceptedOf(P, x))
        /\ AcceptedOf(Q, x) = AcceptedOf(P, x)
    BY <2>1, AcceptedGrows
  <2> QED BY <1>2, <2>2
<1> QED BY <1>1, <1>2

(* A vote: in its slot, in a free one, or not counted.                     *)
LEMMA VotesVoted ==
  ASSUME NEW P \in Seq(ParsedRecords), NEW r \in ParsedRecords, NEW Q, GrowsBy(P, r, Q), r.type \in {3, 4}, r.ok,
         NEW h \in Holes, VotesHold(h, P), NEW g, g.slots \in VotedSlots(h.slots, r.code), g.winner = FirstMost(g.slots)
  PROVE  VotesHold(g, Q)
<1>0. ASSUME NEW x
      PROVE  /\ AcceptedOf(P, x) # {} =>
                  /\ Min(AcceptedOf(P, x)) \in Nat /\ Min(AcceptedOf(P, x)) < Len(P) + 1
                  /\ AcceptedOf(Q, x) # {} /\ Min(AcceptedOf(Q, x)) = Min(AcceptedOf(P, x))
             /\ x # r.code => AcceptedOf(Q, x) = AcceptedOf(P, x)
             /\ x = r.code => AcceptedOf(Q, x) # {} /\ Cardinality(AcceptedOf(Q, x)) = Cardinality(AcceptedOf(P, x)) + 1
             /\ x = r.code /\ AcceptedOf(P, x) = {} => Cardinality(AcceptedOf(P, x)) = 0 /\ Min(AcceptedOf(Q, x)) = Len(P) + 1
  BY OneVote
<1>1. PICK s \in Seq(SlotRecords) : s = h.slots
  BY HoleFields
<1>2. PICK z \in Seq(SlotRecords) : z = g.slots
  BY DEF VotedSlots
<1>3. Len(s) \in Nat /\ Len(z) \in Nat /\ SLOTS \in Nat
  BY DxAssumption
<1> DEFINE c == r.code
           In(i) == AcceptedOf(P, s[i].code)
<1>4. /\ Len(s) <= SLOTS
      /\ \A i \in 1..Len(s) : In(i) # {} /\ s[i].count = Cardinality(In(i))
      /\ \A i, j \in 1..Len(s) : i < j => Min(In(i)) < Min(In(j))
      /\ \A x : AcceptedOf(P, x) # {} /\ (\A i \in 1..Len(s) : s[i].code # x) => Len(s) = SLOTS
  BY <1>1 DEF VotesHold
<1>5. /\ z \in VotedSlots(s, c) /\ Len(z) > 0 /\ Len(z) >= Len(s) /\ \A i \in 1..Len(s) : z[i].code = s[i].code
  BY <1>1, <1>2 DEF VotedSlots
<1>6. \A x : x # c => AcceptedOf(Q, x) = AcceptedOf(P, x)
  BY <1>0
<1>7. \A i \in 1..Len(s) : /\ AcceptedOf(Q, s[i].code) # {} /\ Min(AcceptedOf(Q, s[i].code)) = Min(In(i))
                            /\ Min(In(i)) \in Nat /\ Min(In(i)) < Len(P) + 1
  BY <1>0, <1>4
<1>8. /\ AcceptedOf(Q, c) # {} /\ Cardinality(AcceptedOf(Q, c)) = Cardinality(AcceptedOf(P, c)) + 1
      /\ AcceptedOf(P, c) = {} => Cardinality(AcceptedOf(P, c)) = 0 /\ Min(AcceptedOf(Q, c)) = Len(P) + 1
  BY <1>0
<1> HIDE DEF c, In
<1>9. \A i, j \in 1..Len(s) : i < j => Min(AcceptedOf(Q, z[i].code)) < Min(AcceptedOf(Q, z[j].code))
  BY <1>4, <1>5, <1>7
<1>10. \A i, j \in 1..Len(s) : i # j => s[i].code # s[j].code
  <2>1. ASSUME NEW i \in 1..Len(s), NEW j \in 1..Len(s), i < j PROVE s[i].code # s[j].code
    BY <1>4, <1>7, <2>1 DEF In
  <2>2. \A i, j \in 1..Len(s) : i # j => i < j \/ j < i
    BY <1>3
  <2> QED BY <2>1, <2>2
<1>11. CASE Len(z) = Len(s) /\ \E k \in 1..Len(s) : s[k].code = c /\ z[k].count = s[k].count + 1 /\ \A i \in 1..Len(s) : i # k => z[i].count = s[i].count
  <2>1. PICK k \in 1..Len(s) : s[k].code = c /\ z[k].count = s[k].count + 1 /\ \A i \in 1..Len(s) : i # k => z[i].count = s[i].count
    BY <1>11
  <2>2. \A i \in 1..Len(z) : AcceptedOf(Q, z[i].code) # {} /\ z[i].count = Cardinality(AcceptedOf(Q, z[i].code))
    <3>1. ASSUME NEW i \in 1..Len(z) PROVE AcceptedOf(Q, z[i].code) # {} /\ z[i].count = Cardinality(AcceptedOf(Q, z[i].code))
      <4>1. i \in 1..Len(s) /\ z[i].code = s[i].code
        BY <1>5, <1>11
      <4>2. CASE i = k
        BY <1>4, <1>8, <2>1, <4>1, <4>2 DEF In
      <4>3. CASE i # k
        <5>1. s[i].code # c
          BY <1>10, <2>1, <4>1, <4>3
        <5> QED BY <1>4, <1>6, <2>1, <4>1, <4>3, <5>1 DEF In
      <4> QED BY <4>2, <4>3
    <3> QED BY <3>1
  <2>3. \A x : AcceptedOf(Q, x) # {} /\ (\A i \in 1..Len(z) : z[i].code # x) => Len(z) = SLOTS
    BY <1>4, <1>5, <1>6, <1>11, <2>1
  <2> QED BY <1>2, <1>4, <1>5, <1>9, <1>11, <2>2, <2>3 DEF VotesHold
<1>12. CASE Len(z) = Len(s) + 1 /\ Len(s) < SLOTS /\ z[Len(z)].code = c /\ z[Len(z)].count = 1
            /\ \A i \in 1..Len(s) : s[i].code # c /\ z[i].count = s[i].count
  <2>1. AcceptedOf(P, c) = {}
    BY <1>3, <1>4, <1>12
  <2>2. \A i \in 1..Len(z) : i \in 1..Len(s) \/ i = Len(z)
    BY <1>3, <1>12
  <2>3. \A i \in 1..Len(z) : AcceptedOf(Q, z[i].code) # {} /\ z[i].count = Cardinality(AcceptedOf(Q, z[i].code))
    <3>1. ASSUME NEW i \in 1..Len(z) PROVE AcceptedOf(Q, z[i].code) # {} /\ z[i].count = Cardinality(AcceptedOf(Q, z[i].code))
      <4>1. CASE i \in 1..Len(s)
        BY <1>4, <1>5, <1>6, <1>12, <4>1 DEF In
      <4>2. CASE i = Len(z)
        BY <1>8, <1>12, <2>1, <4>2
      <4> QED BY <2>2, <4>1, <4>2
    <3> QED BY <3>1
  <2>4. \A i, j \in 1..Len(z) : i < j => Min(AcceptedOf(Q, z[i].code)) < Min(AcceptedOf(Q, z[j].code))
    <3>1. ASSUME NEW i \in 1..Len(z), NEW j \in 1..Len(z), i < j PROVE Min(AcceptedOf(Q, z[i].code)) < Min(AcceptedOf(Q, z[j].code))
      <4>1. i \in 1..Len(s)
        BY <1>3, <1>12, <3>1
      <4>2. CASE j \in 1..Len(s)
        BY <1>9, <3>1, <4>1, <4>2
      <4>3. CASE j = Len(z)
        BY <1>5, <1>7, <1>8, <1>12, <2>1, <4>1, <4>3
      <4> QED BY <2>2, <4>2, <4>3
    <3> QED BY <3>1
  <2>5. \A x : AcceptedOf(Q, x) # {} /\ (\A i \in 1..Len(z) : z[i].code # x) => Len(z) = SLOTS
    <3>1. ASSUME NEW x, AcceptedOf(Q, x) # {}, \A i \in 1..Len(z) : z[i].code # x PROVE FALSE
      <4>1. Len(z) \in 1..Len(z) /\ \A i \in 1..Len(s) : i \in 1..Len(z)
        BY <1>3, <1>12
      <4>2. x # c /\ \A i \in 1..Len(s) : s[i].code # x
        BY <1>5, <1>12, <3>1, <4>1
      <4> QED BY <1>3, <1>4, <1>6, <1>12, <3>1, <4>2
    <3> QED BY <3>1
  <2>6. Len(z) <= SLOTS
    BY <1>3, <1>12
  <2> QED BY <1>2, <1>5, <2>3, <2>4, <2>5, <2>6 DEF VotesHold
<1>13. CASE z = s /\ Len(s) >= SLOTS /\ \A i \in 1..Len(s) : s[i].code # c
  <2>1. \A i \in 1..Len(z) : AcceptedOf(Q, z[i].code) # {} /\ z[i].count = Cardinality(AcceptedOf(Q, z[i].code))
    BY <1>4, <1>6, <1>13 DEF In
  <2>2. Len(z) = SLOTS
    BY <1>3, <1>4, <1>13
  <2> QED BY <1>2, <1>4, <1>5, <1>9, <1>13, <2>1, <2>2 DEF VotesHold
<1> QED BY <1>5, <1>11, <1>12, <1>13 DEF VotedSlots

-----------------------------------------------------------------------------
(* What the hole h knows of the records P.                                 *)
Knows(h, P) == h \in Holes /\ PairsHold(h, P) /\ VotesHold(h, P)

(* Pairing leaves the votes.                                               *)
LEMMA PairedVotes ==
  ASSUME NEW h \in Holes, NEW r \in ParsedRecords, NEW frame \in Int
  PROVE  Paired(h, r, frame).slots = h.slots /\ Paired(h, r, frame).winner = h.winner
<1>1. r.n \in Nat /\ OFFSET \in Nat /\ h.e50.line \in Int /\ h.e50.n \in Nat /\ h.e54.line \in Int /\ h.e54.n \in Nat
  BY HoleFields, DxAssumption DEF ParsedRecords, EdgeRecords
<1>2. \A l \in Int, m \in Nat : [code |-> frame, line |-> l, edge |-> m, mark |-> r.n] \in EntryRecords
  BY <1>1 DEF EntryRecords
<1>3. NonePending(h).slots = h.slots /\ NonePending(h).winner = h.winner
  BY NonePendingIs
<1>4. \A t \in EntryRecords : Entered(h, t).slots = h.slots /\ Entered(h, t).winner = h.winner
  BY EnteredIs
<1>5. CASE Len(h.table) < TABLE /\ h.e50 # None /\ r.bit = 1
  <2>1. Paired(h, r, frame) = Entered(h, [code |-> frame, line |-> h.e50.line + OFFSET, edge |-> h.e50.n, mark |-> r.n])
    BY <1>5 DEF Paired
  <2>2. h.e50.line + OFFSET \in Int
    BY <1>1
  <2> QED BY <1>1, <1>2, <1>4, <2>1, <2>2
<1>6. CASE Len(h.table) < TABLE /\ ~(h.e50 # None /\ r.bit = 1) /\ h.e54 # None /\ r.low
  <2>1. Paired(h, r, frame) = Entered(h, [code |-> frame, line |-> h.e54.line + 0, edge |-> h.e54.n, mark |-> r.n])
    BY <1>6 DEF Paired
  <2>2. h.e54.line + 0 \in Int
    BY <1>1
  <2> QED BY <1>1, <1>2, <1>4, <2>1, <2>2
<1>7. CASE ~(Len(h.table) < TABLE /\ ((h.e50 # None /\ r.bit = 1) \/ (h.e54 # None /\ r.low)))
  BY <1>3, <1>7 DEF Paired
<1> QED BY <1>5, <1>6, <1>7

(* A code word's vote.                                                     *)
LEMMA CodeWordVotes ==
  ASSUME NEW P \in Seq(ParsedRecords), NEW r \in ParsedRecords, NEW Q, GrowsBy(P, r, Q), r.type \in {3, 4},
         NEW h \in Holes, VotesHold(h, P)
  PROVE  VotesHold(CodeWord(h, r), Q)
<1>1. PICK v : v = IF r.ok THEN Voted(h, r.code) ELSE h
  OBVIOUS
<1>2. r.code \in Int /\ r.n \in Nat /\ r.bit \in 0..1
  BY DEF ParsedRecords
<1>3. v \in Holes
  BY <1>1, <1>2, VotedIs
<1>4. VotesHold(v, Q)
  <2>1. CASE r.ok
    <3>1. v.slots \in VotedSlots(h.slots, r.code) /\ v.winner = FirstMost(v.slots)
      BY <1>1, <1>2, <2>1, VotedIs
    <3> QED BY <2>1, <3>1, VotesVoted
  <2>2. CASE ~r.ok
    BY <1>1, <2>2, VotesStay
  <2> QED BY <2>1, <2>2
<1>5. CodeWord(h, r).slots = v.slots /\ CodeWord(h, r).winner = v.winner
  <2>1. CASE h.tail
    <3>1. PICK c : c = [n |-> r.n, bit |-> r.bit, frame |-> Doubled(Frame(r))]
      OBVIOUS
    <3>2. Doubled(Frame(r)) \in Int
      BY <1>2 DEF Frame, Doubled, Invalid
    <3>3. c \in CodeRecords
      BY <1>2, <3>1, <3>2 DEF CodeRecords
    <3>4. CodeWord(h, r) = WithCode(v, c)
      BY <1>1, <2>1, <3>1 DEF CodeWord, WithCode
    <3> QED BY <1>3, <3>3, <3>4, CodeSet
  <2>2. CASE ~h.tail
    <3>1. CodeWord(h, r) = Paired(v, r, Frame(r))
      BY <1>1, <2>2 DEF CodeWord
    <3>2. Frame(r) \in Int
      BY <1>2 DEF Frame, Invalid
    <3> QED BY <1>3, <3>1, <3>2, PairedVotes
  <2> QED BY <2>1, <2>2
<1> QED BY <1>4, <1>5 DEF VotesHold

(* A record is dispatched: the hole knows it too.                          *)
LEMMA DispatchedKnows ==
  ASSUME NEW P \in Seq(ParsedRecords), NEW r \in ParsedRecords, NEW Q, GrowsBy(P, r, Q), r.n = Len(P) + 1,
         NEW h, Knows(h, P)
  PROVE  Knows(Dispatched(h, r), Q)
<1>1. PICK b \in BOOLEAN : b = (r.type = 6 \/ (r.type \in {5, 7} /\ r.low))
  OBVIOUS
<1>2. h \in Holes /\ PairsHold(h, P) /\ VotesHold(h, P)
  BY DEF Knows
<1>3. PICK f : f = Sensed(h, b)
  OBVIOUS
<1>4. /\ f \in Holes /\ f.e50 = h.e50 /\ f.e54 = h.e54 /\ f.tail = h.tail /\ f.c5c = h.c5c /\ f.table = h.table
      /\ f.slots = h.slots /\ f.winner = h.winner
  BY <1>2, <1>3, FoundSet
<1>5. PairsHold(f, P) /\ VotesHold(f, P)
  BY <1>2, <1>4, PairsSame DEF VotesHold
<1>6. Dispatched(h, r) = IF r.type \in {3, 4} THEN CodeWord(f, r) ELSE IF r.type = 5 THEN Edge(f, r) ELSE f
  BY <1>1, <1>3 DEF Dispatched, Sensed
<1>7. CASE r.type \in {3, 4}
  BY <1>4, <1>5, <1>6, <1>7, CodeWordPairs, CodeWordVotes DEF Knows
<1>8. CASE r.type = 5
  <2>1. PairsHold(Edge(f, r), Q) /\ Edge(f, r) \in Holes /\ Edge(f, r).slots = f.slots /\ Edge(f, r).winner = f.winner
    BY <1>4, <1>5, <1>8, EdgePairs
  <2>2. VotesHold(Edge(f, r), Q)
    BY <1>4, <1>5, <1>8, <2>1, VotesStay
  <2> QED BY <1>6, <1>8, <2>1, <2>2 DEF Knows
<1>9. CASE r.type \notin {3, 4, 5}
  <2>1. ~IsMark(r)
    BY <1>9 DEF IsMark
  <2>2. PairsHold(f, Q) /\ VotesHold(f, Q)
    BY <1>4, <1>5, <1>9, <2>1, PairsStay, VotesStay
  <2> QED BY <1>4, <1>6, <1>9, <2>2 DEF Knows
<1> QED BY <1>7, <1>8, <1>9

(* A status byte may tell that the strip comes tail first.                 *)
LEMMA TailKnows ==
  ASSUME NEW P, NEW h, Knows(h, P), NEW status \in [entry : BOOLEAN, exit : BOOLEAN, tail : BOOLEAN]
  PROVE  Knows(TailAfter(h, status), P)
<1>1. PICK g : g = TailAfter(h, status)
  OBVIOUS
<1>2. h \in Holes /\ status.tail \in BOOLEAN
  BY DEF Knows
<1>3. /\ g \in Holes /\ g.e50 = h.e50 /\ g.e54 = h.e54 /\ g.c5c = h.c5c /\ g.table = h.table
      /\ g.slots = h.slots /\ g.winner = h.winner /\ (h.tail => g.tail)
  BY <1>1, <1>2 DEF TailAfter, Holes
<1>4. TableHolds(g.tail, P, g.table)
  BY <1>3 DEF Knows, PairsHold, TableHolds, EntryHolds
<1>5. CodeWaits(g.tail, P, g.table, g.c5c)
  BY <1>3 DEF Knows, PairsHold, CodeWaits
<1>6. PairsHold(g, P)
  BY <1>3, <1>4, <1>5 DEF Knows, PairsHold
<1>7. VotesHold(g, P)
  BY <1>3 DEF Knows, VotesHold
<1> QED BY <1>1, <1>3, <1>6, <1>7 DEF Knows

(* A packet's records, one after the other.                                *)
Chain(h, rs, n, f) == f = [i \in 0..n |-> IF i = 0 THEN h ELSE Dispatched(f[i - 1], rs[i])]

(* There is such a chain.                                                  *)
LEMMA ChainIs ==
  ASSUME NEW h, NEW rs, NEW n \in Nat
  PROVE  \E f : Chain(h, rs, n, f)
<1> DEFINE Not == {m \in 0..n : ~\E f : Chain(h, rs, m, f)}
<1>1. SUFFICES ASSUME Not # {} PROVE FALSE
  <2>1. ASSUME Not = {} PROVE \E f : Chain(h, rs, n, f)
    <3>1. n \in 0..n
      OBVIOUS
    <3> QED BY <2>1, <3>1
  <2> QED BY <2>1
<1>2. PICK m \in Not : \A j \in Not : m <= j
  <2>1. Not \in SUBSET Nat
    OBVIOUS
  <2> HIDE DEF Not
  <2> QED BY <1>1, <2>1, WFNat
<1>3. m \in 0..n /\ ~\E f : Chain(h, rs, m, f)
  BY <1>2
<1>4. m # 0
  <2>1. PICK g : g = [i \in 0..0 |-> h]
    OBVIOUS
  <2>2. \A i \in 0..0 : i = 0
    OBVIOUS
  <2>3. g = [i \in 0..0 |-> IF i = 0 THEN h ELSE Dispatched(g[i - 1], rs[i])]
    BY <2>1, <2>2
  <2> QED BY <1>3, <2>3 DEF Chain
<1>5. m - 1 \in 0..n /\ ~(m <= m - 1)
  BY <1>3, <1>4
<1>6. PICK f : Chain(h, rs, m - 1, f)
  BY <1>2, <1>5
<1>7. \A i \in 0..(m - 1) : f[i] = IF i = 0 THEN h ELSE Dispatched(f[i - 1], rs[i])
  BY <1>6 DEF Chain
<1>8. PICK g : g = [i \in 0..m |-> IF i = m THEN Dispatched(f[m - 1], rs[m]) ELSE f[i]]
  OBVIOUS
<1>9. \A i \in 0..m : g[i] = IF i = 0 THEN h ELSE Dispatched(g[i - 1], rs[i])
  <2>1. ASSUME NEW i \in 0..m PROVE g[i] = IF i = 0 THEN h ELSE Dispatched(g[i - 1], rs[i])
    <3>1. CASE i = m
      <4>1. g[i] = Dispatched(f[m - 1], rs[m]) /\ m - 1 \in 0..m /\ m - 1 # m
        BY <1>3, <1>4, <1>8, <3>1
      <4>2. g[i - 1] = f[m - 1]
        BY <1>8, <3>1, <4>1
      <4> QED BY <1>4, <3>1, <4>1, <4>2
    <3>2. CASE i = 0
      <4>1. i \in 0..(m - 1) /\ i # m
        BY <1>3, <1>4, <3>2
      <4> QED BY <1>7, <1>8, <3>2, <4>1
    <3>3. CASE i # m /\ i # 0
      <4>1. i \in 0..(m - 1) /\ i - 1 \in 0..m /\ i - 1 # m
        BY <1>3, <3>3
      <4>2. g[i] = f[i] /\ g[i - 1] = f[i - 1]
        BY <1>8, <3>3, <4>1
      <4> QED BY <1>7, <3>3, <4>1, <4>2
    <3> QED BY <3>1, <3>2, <3>3
  <2> QED BY <2>1
<1>10. Chain(h, rs, m, g)
  BY <1>8, <1>9 DEF Chain
<1> QED BY <1>3, <1>10

(* Holes, from the packet's first to its last.                             *)
LeadsTo(h, rs, f) ==
  /\ DispatchedAll(h, rs) = f[Len(rs)] /\ f[0] = h
  /\ \A i \in 1..Len(rs) : f[i] = Dispatched(f[i - 1], rs[i])

(* The chain's end is what the packet's records come to.                   *)
LEMMA AllIs ==
  ASSUME NEW h, NEW rs, Len(rs) \in Nat
  PROVE  \E f : LeadsTo(h, rs, f)
<1> DEFINE n == Len(rs)
<1>1. PICK f : f = CHOOSE g : Chain(h, rs, n, g)
  OBVIOUS
<1>2. Chain(h, rs, n, f)
  BY <1>1, ChainIs
<1>3. DispatchedAll(h, rs) = f[n]
  BY <1>1 DEF DispatchedAll, Chain
<1>4. \A i \in 0..n : f[i] = IF i = 0 THEN h ELSE Dispatched(f[i - 1], rs[i])
  BY <1>2 DEF Chain
<1>5. 0 \in 0..n /\ \A i \in 1..n : i \in 0..n /\ i # 0
  OBVIOUS
<1>6. LeadsTo(h, rs, f)
  BY <1>3, <1>4, <1>5 DEF LeadsTo
<1> QED BY <1>6

(* The first l of a sequence, and one more.                                *)
LEMMA OneLonger ==
  ASSUME NEW s \in Seq(ParsedRecords), NEW l \in Nat, l < Len(s)
  PROVE  /\ SubSeq(s, 1, l) \in Seq(ParsedRecords) /\ Len(SubSeq(s, 1, l)) = l
         /\ GrowsBy(SubSeq(s, 1, l), s[l + 1], SubSeq(s, 1, l + 1))
<1>1. Len(s) \in Nat /\ l + 1 \in 1..Len(s)
  OBVIOUS
<1>2. s[l + 1] \in ParsedRecords
  BY <1>1, ElementOfSeq
<1>3. /\ SubSeq(s, 1, l) \in Seq(ParsedRecords) /\ Len(SubSeq(s, 1, l)) = l /\ \A i \in 1..l : SubSeq(s, 1, l)[i] = s[i]
      /\ SubSeq(s, 1, l + 1) \in Seq(ParsedRecords) /\ Len(SubSeq(s, 1, l + 1)) = l + 1
      /\ \A i \in 1..(l + 1) : SubSeq(s, 1, l + 1)[i] = s[i]
  BY <1>1
<1>4. PICK p \in Seq(ParsedRecords) : p = SubSeq(s, 1, l)
  BY <1>3
<1>5. PICK q \in Seq(ParsedRecords) : q = SubSeq(s, 1, l + 1)
  BY <1>3
<1>6. /\ Append(p, s[l + 1]) \in Seq(ParsedRecords) /\ Len(Append(p, s[l + 1])) = l + 1
      /\ \A i \in 1..(l + 1) : Append(p, s[l + 1])[i] = q[i]
  <2>1. /\ Append(p, s[l + 1]) \in Seq(ParsedRecords) /\ Len(Append(p, s[l + 1])) = Len(p) + 1
        /\ Append(p, s[l + 1])[Len(p) + 1] = s[l + 1] /\ \A i \in 1..Len(p) : Append(p, s[l + 1])[i] = p[i]
    BY <1>2, AppendProperties
  <2>2. \A i \in 1..(l + 1) : i \in 1..l \/ i = l + 1
    OBVIOUS
  <2> QED BY <1>3, <1>4, <1>5, <2>1, <2>2
<1>7. Len(q) = l + 1
  BY <1>3, <1>5
<1>8. q = Append(p, s[l + 1])
  BY <1>6, <1>7, SeqEqual
<1> QED BY <1>3, <1>4, <1>5, <1>8 DEF GrowsBy

(* A packet is dispatched: the hole knows all of its records.              *)
LEMMA AllKnown ==
  ASSUME NEW P \in Seq(ParsedRecords), NEW rs \in Seq(ParsedRecords), \A i \in 1..Len(rs) : rs[i].n = Len(P) + i,
         NEW h, Knows(h, P)
  PROVE  Knows(DispatchedAll(h, rs), P \o rs)
<1>1. PICK s \in Seq(ParsedRecords) : s = P \o rs
  BY ConcatProperties
<1>2. /\ Len(P) \in Nat /\ Len(rs) \in Nat /\ Len(s) = Len(P) + Len(rs)
      /\ \A i \in 1..Len(P) : s[i] = P[i]
      /\ \A i \in 1..Len(rs) : s[Len(P) + i] = rs[i]
  BY <1>1
<1>9. PICK f : LeadsTo(h, rs, f)
  BY <1>2, AllIs
<1>3. /\ DispatchedAll(h, rs) = f[Len(rs)] /\ f[0] = h
      /\ \A i \in 1..Len(rs) : f[i] = Dispatched(f[i - 1], rs[i])
  BY <1>9 DEF LeadsTo
<1> DEFINE Not == {m \in 0..Len(rs) : ~Knows(f[m], SubSeq(s, 1, Len(P) + m))}
<1>4. SubSeq(s, 1, Len(P)) = P /\ SubSeq(s, 1, Len(s)) = s
  <2>1. \A l \in 0..Len(s) : SubSeq(s, 1, l) \in Seq(ParsedRecords) /\ Len(SubSeq(s, 1, l)) = l /\ \A i \in 1..l : SubSeq(s, 1, l)[i] = s[i]
    BY <1>2
  <2>2. Len(P) \in 0..Len(s) /\ Len(s) \in 0..Len(s)
    BY <1>2
  <2>3. SubSeq(s, 1, Len(P)) = P
    <3>1. PICK p \in Seq(ParsedRecords) : p = SubSeq(s, 1, Len(P))
      BY <2>1, <2>2
    <3>2. Len(p) = Len(P) /\ \A i \in 1..Len(p) : p[i] = P[i]
      BY <1>2, <2>1, <2>2, <3>1
    <3> QED BY <3>1, <3>2, SeqEqual
  <2>4. SubSeq(s, 1, Len(s)) = s
    <3>1. PICK p \in Seq(ParsedRecords) : p = SubSeq(s, 1, Len(s))
      BY <2>1, <2>2
    <3>2. Len(p) = Len(s) /\ \A i \in 1..Len(p) : p[i] = s[i]
      BY <1>2, <2>1, <2>2, <3>1
    <3> QED BY <3>1, <3>2, SeqEqual
  <2> QED BY <2>3, <2>4
<1>5. Not = {}
  <2>1. SUFFICES ASSUME Not # {} PROVE FALSE
    OBVIOUS
  <2>2. PICK m \in Not : \A j \in Not : m <= j
    <3>1. Not \in SUBSET Nat
      OBVIOUS
    <3> HIDE DEF Not
    <3> QED BY <2>1, <3>1, WFNat
  <2>3. m \in 0..Len(rs) /\ ~Knows(f[m], SubSeq(s, 1, Len(P) + m))
    BY <2>2
  <2>4. m # 0
    <3>1. m = 0 => Len(P) + m = Len(P)
      BY <1>2
    <3> QED BY <1>3, <1>4, <2>3, <3>1
  <2>5. m - 1 \in 0..Len(rs) /\ ~(m <= m - 1) /\ m \in 1..Len(rs)
    BY <1>2, <2>3, <2>4
  <2>6. Knows(f[m - 1], SubSeq(s, 1, Len(P) + (m - 1)))
    BY <2>2, <2>5
  <2> HIDE DEF Not
  <2>7. PICK l \in Nat : l = Len(P) + (m - 1)
    <3>1. \A a, b \in Nat : b # 0 => a + (b - 1) \in Nat
      OBVIOUS
    <3>2. m \in Nat /\ m # 0 /\ Len(P) \in Nat
      BY <1>2, <2>5
    <3> QED BY <3>1, <3>2
  <2>8. l < Len(s) /\ l + 1 = Len(P) + m /\ s[l + 1] = rs[m]
    <3>1. \A a, b, c \in Nat : b # 0 /\ b <= c => a + (b - 1) < a + c /\ a + (b - 1) + 1 = a + b
      OBVIOUS
    <3>2. m \in Nat /\ m # 0 /\ Len(P) \in Nat /\ Len(rs) \in Nat /\ m <= Len(rs)
      BY <1>2, <2>5
    <3>3. l < Len(s) /\ l + 1 = Len(P) + m
      BY <1>2, <2>7, <3>1, <3>2
    <3> QED BY <1>2, <2>5, <3>3
  <2>9. rs[m] \in ParsedRecords /\ rs[m].n = l + 1
    BY <2>5, <2>8, ElementOfSeq
  <2>10. SubSeq(s, 1, l) \in Seq(ParsedRecords) /\ Len(SubSeq(s, 1, l)) = l /\ GrowsBy(SubSeq(s, 1, l), rs[m], SubSeq(s, 1, l + 1))
    BY <2>8, OneLonger
  <2>11. Knows(Dispatched(f[m - 1], rs[m]), SubSeq(s, 1, l + 1))
    <3>1. PICK p \in Seq(ParsedRecords) : p = SubSeq(s, 1, l)
      BY <2>10
    <3>2. PICK q : q = SubSeq(s, 1, l + 1)
      OBVIOUS
    <3>3. PICK x \in ParsedRecords : x = rs[m]
      BY <2>9
    <3>4. PICK g : g = f[m - 1]
      OBVIOUS
    <3>5. GrowsBy(p, x, q) /\ x.n = Len(p) + 1
      BY <2>9, <2>10, <3>1, <3>2, <3>3
    <3>6. Knows(g, p)
      BY <2>6, <2>7, <3>1, <3>4
    <3>7. Knows(Dispatched(g, x), q)
      BY <3>5, <3>6, DispatchedKnows
    <3> QED BY <3>2, <3>3, <3>4, <3>7
  <2> QED BY <1>3, <2>3, <2>5, <2>8, <2>11
<1>6. Len(rs) \in 0..Len(rs) /\ Len(P) + Len(rs) = Len(s)
  BY <1>2
<1>7. Knows(f[Len(rs)], SubSeq(s, 1, Len(s)))
  BY <1>5, <1>6
<1> QED BY <1>1, <1>3, <1>4, <1>7

-----------------------------------------------------------------------------
(* The lines                                                               *)

(* The counter's modulus, and what dividing by it means.                   *)
LEMMA WordIs == WORD \in Nat \ {0}
BY DxAssumption

(* A line's round of the counter and its place in it.                      *)
LEMMA DividedIs ==
  ASSUME NEW l \in Nat, NEW w, w = WORD
  PROVE  \E q \in Nat, m \in 0..(w - 1) : q = l \div WORD /\ m = l % WORD /\ l = q * w + m
<1>1. PICK v \in Nat \ {0} : v = WORD
  BY WordIs
<1>2. l \div v \in Nat /\ (l \div v) * v <= l /\ l < (l \div v) * v + v
  OBVIOUS
<1>3. PICK q \in Nat : q = l \div v
  BY <1>2
<1>4. PICK y \in Nat : y = q * v
  OBVIOUS
<1>5. PICK m \in 0..(v - 1) : m = l - y
  BY <1>2, <1>3, <1>4
<1>6. l = q * v + m
  BY <1>4, <1>5
<1>7. l % v = m
  BY <1>6
<1> QED BY <1>1, <1>3, <1>6, <1>7

(* A remainder is one.                                                     *)
LEMMA RemainderIs == ASSUME NEW l \in Nat PROVE l % WORD \in 0..(WORD - 1)
<1>1. \A w \in Nat \ {0} : l % w \in 0..(w - 1)
  OBVIOUS
<1> QED BY <1>1, WordIs

(* Two lines less than a range apart are in the same round of the counter  *)
(* or in the next.                                                         *)
LEMMA RoundIs ==
  ASSUME NEW a \in Nat, NEW b \in Nat, a <= b, b < a + WORD
  PROVE  \/ b \div WORD = a \div WORD /\ b % WORD = (a % WORD) + (b - a)
         \/ b \div WORD = a \div WORD + 1 /\ b % WORD = (a % WORD) + (b - a) - WORD
<1>1. PICK w \in Nat \ {0} : w = WORD
  BY WordIs
<1>2. PICK q \in Nat, m \in 0..(w - 1) : q = a \div WORD /\ m = a % WORD /\ a = q * w + m
  BY <1>1, DividedIs
<1>3. PICK p \in Nat, n \in 0..(w - 1) : p = b \div WORD /\ n = b % WORD /\ b = p * w + n
  BY <1>1, DividedIs
<1>4. PICK y \in Nat : y = q * w
  OBVIOUS
<1>5. PICK z \in Nat : z = p * w
  OBVIOUS
<1>6. a = y + m /\ b = z + n /\ m < w /\ n < w /\ m >= 0 /\ n >= 0
  <2>1. a = y + m
    BY <1>2, <1>4
  <2>2. b = z + n
    BY <1>3, <1>5
  <2> QED BY <2>1, <2>2
<1>7. \A i, j \in Nat : i * w + j * w = (i + j) * w /\ j * w \in Nat
  OBVIOUS
<1>8. CASE p < q
  <2>1. PICK d \in Nat : q = p + 1 + d
    BY <1>8
  <2>2. PICK x \in Nat : x = d * w
    BY <1>7
  <2>3. y = z + w + x
    <3>1. (p + 1 + d) * w = p * w + w + d * w
      OBVIOUS
    <3> QED BY <1>4, <1>5, <2>1, <2>2, <3>1
  <2> QED BY <1>1, <1>6, <2>3
<1>9. CASE p = q
  <2>1. y = z
    BY <1>4, <1>5, <1>9
  <2>2. n = m + (b - a)
    BY <1>6, <2>1
  <2>3. q = a \div WORD /\ m = a % WORD /\ p = b \div WORD /\ n = b % WORD
    BY <1>2, <1>3
  <2> QED BY <1>9, <2>2, <2>3
<1>10. CASE p = q + 1
  <2>1. (q + 1) * w = q * w + w
    OBVIOUS
  <2>2. z = y + w
    BY <1>4, <1>5, <1>10, <2>1
  <2>3. n = m + (b - a) - w
    BY <1>6, <2>2
  <2>4. q = a \div WORD /\ m = a % WORD /\ p = b \div WORD /\ n = b % WORD
    BY <1>2, <1>3
  <2> QED BY <1>1, <1>10, <2>3, <2>4
<1>11. CASE p > q + 1
  <2>1. PICK d \in Nat : p = q + 2 + d
    BY <1>11
  <2>2. PICK x \in Nat : x = d * w
    BY <1>7
  <2>3. z = y + w + w + x
    <3>1. (q + 2 + d) * w = q * w + w + w + d * w
      OBVIOUS
    <3> QED BY <1>4, <1>5, <2>1, <2>2, <3>1
  <2> QED BY <1>1, <1>6, <2>3
<1> QED BY <1>8, <1>9, <1>10, <1>11

(* The board's counters are those of the film.                             *)
CountersHold == now \in Nat /\ b_last = now /\ b_roll = now \div WORD

(* A packet's counter is completed to its line.                            *)
LEMMA FullIs ==
  ASSUME CountersHold, NEW step \in STEPS
  PROVE  Full((now + step) % WORD) = now + step /\ Rolled((now + step) % WORD) = (now + step) \div WORD
<1>1. PICK w \in Nat \ {0} : w = WORD
  BY WordIs
<1>2. now \in Nat /\ step \in Nat /\ step < w /\ BACK \in Nat
  BY <1>1, DxAssumption, FilmAssumption DEF CountersHold
<1>3. PICK at \in Nat : at = now + step
  BY <1>2
<1>4. PICK q \in Nat, m \in 0..(w - 1) : q = now \div WORD /\ m = now % WORD
  BY <1>1, <1>2, DividedIs
<1>5. PICK p \in Nat, n \in 0..(w - 1) : p = at \div WORD /\ n = at % WORD /\ at = p * w + n
  BY <1>1, <1>3, DividedIs
<1>6. \/ p = q /\ n = m + step
      \/ p = q + 1 /\ n = m + step - w
  <2>1. now <= at /\ at < now + WORD /\ at - now = step
    BY <1>1, <1>2, <1>3
  <2>2. \/ at \div WORD = now \div WORD /\ at % WORD = (now % WORD) + (at - now)
        \/ at \div WORD = now \div WORD + 1 /\ at % WORD = (now % WORD) + (at - now) - WORD
    BY <1>2, <2>1, RoundIs
  <2>3. q = now \div WORD /\ m = now % WORD /\ p = at \div WORD /\ n = at % WORD
    BY <1>4, <1>5
  <2> QED BY <1>1, <2>1, <2>2, <2>3
<1>7. Rolled(n) = p
  <2>1. b_last % WORD = m /\ b_roll = q
    BY <1>4 DEF CountersHold
  <2>2. n < m <=> p = q + 1
    BY <1>2, <1>6
  <2> QED BY <1>6, <2>1, <2>2 DEF Rolled
<1>8. Full(n) = at
  <2>1. n + p * w = p * w + n
    OBVIOUS
  <2> QED BY <1>1, <1>5, <1>7, <2>1 DEF Full
<1> QED BY <1>3, <1>5, <1>7, <1>8

(* An edge's own line, completed.                                          *)
LEMMA LineIs ==
  ASSUME CountersHold, NEW step \in STEPS, NEW lag \in 0..(WORD - 1), NEW t, t = now + step - lag, t >= 0
  PROVE  /\ t \in Nat
         /\ LineOf([type |-> 5, true |-> t], (now + step) % WORD) \in IF t > now THEN {t} ELSE {t, t + WORD}
<1>1. PICK w \in Nat \ {0} : w = WORD
  BY WordIs
<1>2. now \in Nat /\ step \in Nat /\ BACK \in Nat /\ step + BACK < w /\ lag \in Nat /\ lag < w /\ t \in Nat
  BY <1>1, DxAssumption, FilmAssumption DEF CountersHold
<1>3. PICK q \in Nat, m \in 0..(w - 1) : q = now \div WORD /\ m = now % WORD /\ now = q * w + m
  <2>1. PICK l \in Nat : l = now
    BY <1>2
  <2>2. PICK q \in Nat, m \in 0..(w - 1) : q = l \div WORD /\ m = l % WORD /\ l = q * w + m
    BY <1>1, DividedIs
  <2> QED BY <2>1, <2>2
<1>4. PICK v \in 0..(w - 1) : v = t % WORD
  <2>1. t % WORD \in 0..(WORD - 1)
    BY <1>2, RemainderIs
  <2> QED BY <1>1, <2>1
<1>5. PICK y \in Nat : y = q * w
  OBVIOUS
<1>6. PICK line \in Nat : line = v + y
  BY <1>4
<1>7. LineOf([type |-> 5, true |-> t], (now + step) % WORD) = IF line + BACK < now THEN line + w ELSE line
  <2>1. line = (t % WORD) + b_roll * WORD /\ b_last = now /\ w = WORD
    BY <1>1, <1>3, <1>4, <1>5, <1>6 DEF CountersHold
  <2>2. LineOf([type |-> 5, true |-> t], (now + step) % WORD)
          = IF (t % WORD) + b_roll * WORD + BACK < b_last THEN (t % WORD) + b_roll * WORD + WORD ELSE (t % WORD) + b_roll * WORD
    BY DEF LineOf
  <2> QED BY <2>1, <2>2
<1>8. now = y + m
  BY <1>3, <1>5
<1>9. CASE now <= t
  <2>1. t < now + WORD
    BY <1>1, <1>2
  <2>2. v = m + (t - now) \/ v = m + (t - now) - w
    <3>1. t % WORD = (now % WORD) + (t - now) \/ t % WORD = (now % WORD) + (t - now) - WORD
      BY <1>2, <1>9, <2>1, RoundIs
    <3> QED BY <1>1, <1>3, <1>4, <3>1
  <2>3. line = t \/ line = t - w
    BY <1>2, <1>6, <1>8, <2>2
  <2> QED BY <1>1, <1>2, <1>6, <1>7, <1>9, <2>3
<1>10. CASE t < now
  <2>1. now < t + WORD /\ t <= now
    BY <1>1, <1>2, <1>10
  <2>2. m = v + (now - t) \/ m = v + (now - t) - w
    <3>1. now % WORD = (t % WORD) + (now - t) \/ now % WORD = (t % WORD) + (now - t) - WORD
      BY <1>2, <2>1, RoundIs
    <3> QED BY <1>1, <1>3, <1>4, <3>1
  <2>3. line = t \/ line = t + w
    BY <1>2, <1>6, <1>8, <2>2
  <2> QED BY <1>1, <1>2, <1>6, <1>7, <1>10, <2>1, <2>3
<1> QED BY <1>2, <1>9, <1>10

-----------------------------------------------------------------------------
(* The invariant: the board's counters are the film's, every edge's line   *)
(* is as LinesAreTrue says, and the hole knows the records parsed.         *)
LineTold(r) == r.type = 5 => IF r.fresh THEN r.line = r.true ELSE r.line \in {r.true, r.true + WORD}
DxTypes ==
  /\ parsed \in Seq(ParsedRecords) /\ {cal, cal_abort, analysed} \subseteq BOOLEAN
  /\ sensors \in [entry : BOOLEAN, exit : BOOLEAN]
DxInv ==
  /\ DxTypes /\ CountersHold /\ Knows(Hole, parsed)
  /\ \A k \in 1..Len(parsed) : LineTold(parsed[k])

(* At the beginning nothing is known of nothing.                           *)
LEMMA FreshHolds == DxInit => DxInv
<1> SUFFICES ASSUME DxInit PROVE DxInv
  OBVIOUS
<1>1. DxTypes
  <2>1. parsed = <<>> /\ sensors = [entry |-> FALSE, exit |-> FALSE]
    BY DEF DxInit, DxFresh
  <2>2. cal \in BOOLEAN /\ cal_abort = FALSE /\ analysed = FALSE
    BY DEF DxInit, DxFresh
  <2>3. parsed \in Seq(ParsedRecords)
    BY <2>1
  <2>4. sensors \in [entry : BOOLEAN, exit : BOOLEAN]
    BY <2>1
  <2> QED BY <2>2, <2>3, <2>4 DEF DxTypes
<1>2. CountersHold
  <2>1. PICK q \in Nat, m \in 0..(WORD - 1) : q = 0 \div WORD /\ m = 0 % WORD /\ 0 = q * WORD + m
    BY DividedIs
  <2>2. PICK w \in Nat \ {0} : w = WORD
    BY WordIs
  <2>3. q = 0
    <3>1. ASSUME q # 0 PROVE FALSE
      <4>1. PICK d \in Nat : q = d + 1
        BY <3>1
      <4>2. (d + 1) * w = d * w + w /\ d * w \in Nat
        OBVIOUS
      <4>3. 0 = (d + 1) * w + m /\ m >= 0
        BY <2>1, <2>2, <4>1
      <4> QED BY <4>2, <4>3
    <3> QED BY <3>1
  <2> QED BY <2>1, <2>3 DEF DxInit, DxFresh, CountersHold
<1>3. parsed = <<>> /\ Len(parsed) = 0 /\ table = <<>> /\ slots = <<>> /\ Len(table) = 0 /\ Len(slots) = 0
      /\ tail = FALSE /\ found = FALSE /\ e50 = None /\ e54 = None /\ c5c = NoCode /\ winner = 0
  BY DEF DxInit, DxFresh
<1>4. PICK g : g = Hole
  OBVIOUS
<1>5. /\ g.tail = FALSE /\ g.found = FALSE /\ g.e50 = None /\ g.e54 = None /\ g.c5c = NoCode /\ g.table = <<>>
      /\ g.slots = <<>> /\ g.winner = 0
  BY <1>3, <1>4 DEF Hole
<1>6. g \in Holes
  <2>1. PICK e \in EdgeRecords, c \in CodeRecords : e = None /\ c = NoCode
    BY NothingIs
  <2>2. PICK a \in Seq(EntryRecords), b \in Seq(SlotRecords) : a = <<>> /\ b = <<>>
    <3>1. <<>> \in Seq(EntryRecords) /\ <<>> \in Seq(SlotRecords)
      OBVIOUS
    <3> QED BY <3>1
  <2>3. g = [tail |-> FALSE, found |-> FALSE, e50 |-> e, e54 |-> e, c5c |-> c, table |-> a, slots |-> b, winner |-> 0]
    BY <1>3, <1>4, <2>1, <2>2, Zenon DEF Hole
  <2> QED BY <2>3 DEF Holes
<1>7. PairsHold(g, parsed)
  BY <1>5 DEF PairsHold, TableHolds, EdgeWaits, CodeWaits
<1>8. VotesHold(g, parsed)
  <2>1. \A c : AcceptedOf(parsed, c) = {}
    BY <1>3 DEF AcceptedOf
  <2> QED BY <1>5, <2>1, DxAssumption DEF VotesHold
<1> QED BY <1>1, <1>2, <1>3, <1>4, <1>6, <1>7, <1>8 DEF DxInv, Knows

(* A record of a packet, parsed.                                           *)
LEMMA ParsedIs ==
  ASSUME CountersHold, NEW r \in RECORDS, NEW n \in Nat, NEW step \in STEPS, NEW p, p = Parsed(r, n, now + step), p.true >= 0
  PROVE  p \in ParsedRecords /\ p.n = n /\ LineTold(p)
<1>1. r \in [type : 1..8, ok : BOOLEAN, code : Int, bit : 0..1, low : BOOLEAN, lag : 0..(WORD - 1)]
  BY FilmAssumption
<1>2. now \in Nat /\ step \in Nat /\ b_roll \in Nat /\ b_last \in Nat
  <2>1. now \in Nat /\ b_last = now /\ step \in Nat
    BY DxAssumption DEF CountersHold
  <2>2. \E q \in Nat, m \in 0..(WORD - 1) : q = now \div WORD /\ m = now % WORD /\ now = q * WORD + m
    BY <2>1, DividedIs
  <2> QED BY <2>1, <2>2 DEF CountersHold
<1>3. PICK at \in Nat : at = now + step
  BY <1>2
<1>4. PICK lag \in 0..(WORD - 1) : lag = r.lag
  BY <1>1
<1>5. PICK t : t = at - lag
  OBVIOUS
<1>6. p = [type |-> r.type, ok |-> r.ok, code |-> r.code, bit |-> r.bit, low |-> r.low, n |-> n,
           true |-> t, fresh |-> t > now, line |-> LineOf([type |-> r.type, true |-> t], at % WORD)]
  BY <1>3, <1>4, <1>5 DEF Parsed
<1>7. t \in Nat
  <2>1. p.true = t
    BY <1>6
  <2>2. lag \in Int
    BY WordIs
  <2> QED BY <1>5, <2>1, <2>2
<1>8. LineOf([type |-> r.type, true |-> t], at % WORD) \in Int
  <2>1. Full(at % WORD) = at
    BY <1>3, FullIs
  <2>2. (t % WORD) + b_roll * WORD \in Int /\ WORD \in Int
    <3>1. t % WORD \in Int
      BY <1>7, RemainderIs
    <3>2. b_roll * WORD \in Int
      BY <1>2, WordIs
    <3> QED BY <3>1, <3>2, WordIs
  <2>3. PICK x \in Int : x = (t % WORD) + b_roll * WORD
    BY <2>2
  <2>4. LineOf([type |-> r.type, true |-> t], at % WORD) \in {at, x, x + WORD}
    BY <2>1, <2>3 DEF LineOf
  <2> QED BY <2>2, <2>3, <2>4
<1>9. PICK l \in Int : l = LineOf([type |-> r.type, true |-> t], at % WORD)
  BY <1>8
<1>10. PICK f \in BOOLEAN : f = (t > now)
  <2>1. (t > now) \in BOOLEAN
    OBVIOUS
  <2> QED BY <2>1
<1>11. p = [type |-> r.type, ok |-> r.ok, code |-> r.code, bit |-> r.bit, low |-> r.low, n |-> n, true |-> t, fresh |-> f, line |-> l]
  BY <1>6, <1>9, <1>10
<1>12. p \in ParsedRecords /\ p.n = n
  BY <1>1, <1>7, <1>11 DEF ParsedRecords
<1>13. LineTold(p)
  <2>1. SUFFICES ASSUME p.type = 5 PROVE IF p.fresh THEN p.line = p.true ELSE p.line \in {p.true, p.true + WORD}
    BY DEF LineTold
  <2>2. r.type = 5 /\ p.fresh = f /\ p.line = l /\ p.true = t
    BY <1>11, <2>1
  <2>3. LineOf([type |-> 5, true |-> t], (now + step) % WORD) \in IF t > now THEN {t} ELSE {t, t + WORD}
    <3>0. PICK w \in Nat \ {0} : w = WORD
      BY WordIs
    <3>1. t = now + step - lag /\ t >= 0
      BY <1>2, <1>3, <1>4, <1>5, <1>7, <3>0
    <3> QED BY <3>1, LineIs
  <2>4. l \in IF t > now THEN {t} ELSE {t, t + WORD}
    BY <1>3, <1>9, <2>2, <2>3
  <2> QED BY <1>10, <2>2, <2>4
<1> QED BY <1>12, <1>13

(* A hole is what its fields say.                                          *)
LEMMA HoleSet ==
  ASSUME NEW h \in Holes, HoleIs(h)
  PROVE  Hole' = h
<1>1. h = [tail |-> h.tail, found |-> h.found, e50 |-> h.e50, e54 |-> h.e54, c5c |-> h.c5c,
           table |-> h.table, slots |-> h.slots, winner |-> h.winner]
  BY DEF Holes
<1> QED BY <1>1 DEF HoleIs, Hole

(* A packet is fed.                                                        *)
LEMMA FeedKeeps == DxInv /\ Feed => DxInv'
<1> SUFFICES ASSUME DxInv, Feed PROVE DxInv'
  OBVIOUS
<1>1. PICK step \in STEPS, k \in 0..PER_PACKET, status \in STATUSES :
       /\ k <= MAX_RECORDS - Len(parsed) /\ now + step <= MAX_LINE
       /\ \E rs \in [1..k -> RECORDS] :
            LET at == now + step
                ps == [i \in 1..k |-> Parsed(rs[i], Len(parsed) + i, at)]
                h0 == IF k > 0 THEN TailAfter(Hole, status) ELSE Hole
            IN /\ \A i \in 1..k : ps[i].true >= 0
               /\ HoleIs(DispatchedAll(h0, ps))
               /\ IF k > 0 THEN SensorsAre(status) ELSE UNCHANGED sensors
               /\ now' = at /\ parsed' = parsed \o ps
               /\ b_roll' = Rolled(at % WORD) /\ b_last' = Full(at % WORD)
  BY DEF Feed
<1>2. PICK rs \in [1..k -> RECORDS] :
       LET at == now + step
           ps == [i \in 1..k |-> Parsed(rs[i], Len(parsed) + i, at)]
           h0 == IF k > 0 THEN TailAfter(Hole, status) ELSE Hole
       IN /\ \A i \in 1..k : ps[i].true >= 0
          /\ HoleIs(DispatchedAll(h0, ps))
          /\ IF k > 0 THEN SensorsAre(status) ELSE UNCHANGED sensors
          /\ now' = at /\ parsed' = parsed \o ps
          /\ b_roll' = Rolled(at % WORD) /\ b_last' = Full(at % WORD)
  BY <1>1
<1>3. PICK ps : ps = [i \in 1..k |-> Parsed(rs[i], Len(parsed) + i, now + step)]
  OBVIOUS
<1>4. PICK h0 : h0 = IF k > 0 THEN TailAfter(Hole, status) ELSE Hole
  OBVIOUS
<1>5. /\ \A i \in 1..k : ps[i].true >= 0
      /\ HoleIs(DispatchedAll(h0, ps))
      /\ IF k > 0 THEN SensorsAre(status) ELSE UNCHANGED sensors
      /\ now' = now + step /\ parsed' = parsed \o ps
      /\ b_roll' = Rolled((now + step) % WORD) /\ b_last' = Full((now + step) % WORD)
  BY <1>2, <1>3, <1>4
<1>6. k \in Nat /\ parsed \in Seq(ParsedRecords) /\ Len(parsed) \in Nat /\ CountersHold /\ Knows(Hole, parsed)
  BY DxAssumption DEF DxInv, DxTypes
<1>7. ASSUME NEW i \in 1..k PROVE ps[i] \in ParsedRecords /\ ps[i].n = Len(parsed) + i /\ LineTold(ps[i])
  <2>1. PICK n \in Nat : n = Len(parsed) + i
    BY <1>6
  <2>2. PICK r \in RECORDS : r = rs[i]
    OBVIOUS
  <2>3. PICK p : p = ps[i]
    OBVIOUS
  <2>4. p = Parsed(r, n, now + step)
    BY <1>3, <2>1, <2>2, <2>3
  <2>5. p.true >= 0
    BY <1>5, <2>3
  <2>6. p \in ParsedRecords /\ p.n = n /\ LineTold(p)
    BY <1>6, <2>4, <2>5, ParsedIs
  <2> QED BY <2>1, <2>3, <2>6
<1>8. ps \in Seq(ParsedRecords) /\ Len(ps) = k
  <2>1. ps = [i \in 1..k |-> ps[i]]
    BY <1>3
  <2>2. ps \in [1..k -> ParsedRecords]
    BY <1>7, <2>1
  <2>3. \A n \in Nat : \A z \in [1..n -> ParsedRecords] : z \in Seq(ParsedRecords) /\ Len(z) = n
    OBVIOUS
  <2> QED BY <1>6, <2>2, <2>3
<1>9. Knows(h0, parsed)
  <2>1. status \in [entry : BOOLEAN, exit : BOOLEAN, tail : BOOLEAN]
    BY FilmAssumption
  <2>2. CASE k > 0
    BY <1>4, <1>6, <2>1, <2>2, TailKnows
  <2>3. CASE ~(k > 0)
    BY <1>4, <1>6, <2>3
  <2> QED BY <2>2, <2>3
<1>10. Knows(DispatchedAll(h0, ps), parsed \o ps)
  <2>1. \A i \in 1..Len(ps) : ps[i].n = Len(parsed) + i
    BY <1>7, <1>8
  <2> QED BY <1>6, <1>8, <1>9, <2>1, AllKnown
<1>11. Knows(Hole, parsed)'
  <2>1. PICK h : h = DispatchedAll(h0, ps)
    OBVIOUS
  <2>2. h \in Holes
    BY <1>10, <2>1 DEF Knows
  <2>3. Hole' = h
    BY <1>5, <2>1, <2>2, HoleSet
  <2>4. Knows(Hole', parsed')
    BY <1>5, <1>10, <2>1, <2>3
  <2> QED BY <2>4 DEF Knows, PairsHold, VotesHold
<1>12. CountersHold'
  <2>1. now' \in Nat
    <3>1. now \in Nat
      BY DEF DxInv, CountersHold
    <3>2. step \in Nat
      BY DxAssumption
    <3>3. now' = now + step
      BY <1>5
    <3> QED BY <3>1, <3>2, <3>3
  <2>2. b_last' = now' /\ b_roll' = now' \div WORD
    BY <1>5, <1>6, FullIs
  <2> QED BY <2>1, <2>2 DEF CountersHold
<1>13. parsed' \in Seq(ParsedRecords) /\ \A j \in 1..Len(parsed') : LineTold(parsed'[j])
  <2>1. /\ parsed' \in Seq(ParsedRecords) /\ Len(parsed') = Len(parsed) + k
        /\ \A j \in 1..(Len(parsed) + k) : parsed'[j] = IF j <= Len(parsed) THEN parsed[j] ELSE ps[j - Len(parsed)]
    BY <1>5, <1>6, <1>8, ConcatProperties
  <2>2. ASSUME NEW j \in 1..Len(parsed') PROVE LineTold(parsed'[j])
    <3>1. CASE j <= Len(parsed)
      <4>1. j \in 1..Len(parsed) /\ parsed'[j] = parsed[j]
        BY <1>6, <2>1, <3>1
      <4>2. LineTold(parsed[j])
        BY <4>1 DEF DxInv
      <4> QED BY <4>1, <4>2
    <3>2. CASE ~(j <= Len(parsed))
      <4>1. j - Len(parsed) \in 1..k /\ parsed'[j] = ps[j - Len(parsed)]
        BY <1>6, <2>1, <3>2
      <4>2. LineTold(ps[j - Len(parsed)])
        BY <1>7, <4>1
      <4> QED BY <4>1, <4>2
    <3> QED BY <3>1, <3>2
  <2> QED BY <2>1, <2>2
<1>14. DxTypes'
  <2>1. {cal, cal_abort, analysed}' \subseteq BOOLEAN
    BY DEF DxInv, DxTypes, Feed
  <2>2. sensors' \in [entry : BOOLEAN, exit : BOOLEAN]
    BY <1>5, FilmAssumption DEF DxInv, DxTypes, SensorsAre
  <2> QED BY <1>13, <2>1, <2>2 DEF DxTypes
<1> QED BY <1>11, <1>12, <1>13, <1>14 DEF DxInv, LineTold

(* What the others do leaves it as it is.                                  *)
LEMMA ParserRestsKeep ==
  DxInv /\ (FeedCalibrating \/ Analyse \/ UNCHANGED vars) => DxInv'
<1> SUFFICES ASSUME DxInv, FeedCalibrating \/ Analyse \/ UNCHANGED vars PROVE DxInv'
  OBVIOUS
<1>1. UNCHANGED <<b_roll, b_last, hole, now, parsed>>
  BY DEF FeedCalibrating, Analyse, vars, board
<1>2. Hole' = Hole /\ parsed' = parsed
  BY <1>1 DEF hole, Hole
<1>3. Knows(Hole, parsed)'
  <2>1. Knows(Hole', parsed')
    BY <1>2 DEF DxInv
  <2> QED BY <2>1 DEF Knows, PairsHold, VotesHold
<1>4. CountersHold'
  BY <1>1 DEF DxInv, CountersHold
<1>5. DxTypes'
  <2>1. CASE FeedCalibrating
    BY <1>1, <2>1, FilmAssumption DEF DxInv, DxTypes, FeedCalibrating, SensorsAre
  <2>2. CASE Analyse \/ UNCHANGED vars
    BY <1>1, <2>2 DEF DxInv, DxTypes, Analyse, vars, board
  <2> QED BY <2>1, <2>2
<1> QED BY <1>2, <1>3, <1>4, <1>5 DEF DxInv, LineTold

(* The hole's counters, its pairs and its votes are of the records parsed. *)
THEOREM DxInvariance == DxSpec => []DxInv
<1>1. DxInit => DxInv
  BY FreshHolds
<1>2. DxInv /\ [DxNext]_vars => DxInv'
  BY FeedKeeps, ParserRestsKeep DEF DxNext
<1> QED BY <1>1, <1>2, PTL DEF DxSpec

(* An entry's records, the earlier and the later.                          *)
LEMMA BesideIs ==
  ASSUME NEW t, t.edge \in Nat \ {0}, t.mark \in Nat
  PROVE  Min(Beside(t)) = Lo(t) /\ Max(Beside(t)) = Hi(t) /\ Beside(t) \subseteq {t.edge, t.mark}
<1>1. Lo(t) \in Beside(t) /\ \A y \in Beside(t) : Lo(t) <= y
  BY DEF Lo, Beside
<1>2. Hi(t) \in Beside(t) /\ \A y \in Beside(t) : Hi(t) >= y
  BY DEF Hi, Beside
<1>3. \A y \in Beside(t) : y \in Nat
  BY DEF Beside
<1>4. Min(Beside(t)) = Lo(t)
  BY <1>1, <1>3 DEF Min
<1>5. Max(Beside(t)) = Hi(t)
  BY <1>2, <1>3 DEF Max
<1> QED BY <1>4, <1>5 DEF Beside

(* What the invariant says of the table and of the votes.                  *)
LEMMA ParserIs == DxInv => ParserIsTrue
<1> SUFFICES ASSUME DxInv PROVE ParserIsTrue
  OBVIOUS
<1>1. LinesAreTrue
  BY DEF DxInv, CountersHold, LineTold, LinesAreTrue
<1>2. PairsHold(Hole, parsed) /\ VotesHold(Hole, parsed) /\ Hole \in Holes /\ Len(parsed) \in Nat
  BY DEF DxInv, Knows, DxTypes
<1>3. Hole.table = table /\ Hole.tail = tail /\ Hole.slots = slots /\ Hole.winner = winner
  BY DEF Hole
<1>4. EntriesArePairs
  <2>1. TableHolds(tail, parsed, table)
    BY <1>2, <1>3 DEF PairsHold
  <2>2. SUFFICES ASSUME NEW i \in 1..Len(table)
        PROVE  LET t == table[i]
               IN  /\ parsed[t.edge].type = 5 /\ t.line = parsed[t.edge].line + parsed[t.edge].bit * OFFSET
                   /\ \A m \in Marks \ Beside(t) : m < Min(Beside(t)) \/ m > Max(Beside(t))
                   /\ IF t.mark = 0 THEN t.code = Invalid /\ tail
                      ELSE parsed[t.mark].type \in {3, 4} /\ (t.edge < t.mark \/ tail)
                   /\ i > 1 => Max(Beside(table[i - 1])) < Min(Beside(t))
    BY DEF EntriesArePairs
  <2>3. PICK t : t = table[i]
    OBVIOUS
  <2>4. EntryHolds(tail, parsed, t) /\ (i > 1 => Hi(table[i - 1]) < Lo(t))
    BY <2>1, <2>3 DEF TableHolds
  <2>5. \A e : EntryHolds(tail, parsed, e) => e.edge \in Nat \ {0} /\ e.mark \in Nat
    BY <1>2 DEF EntryHolds
  <2>6. t.edge \in Nat \ {0} /\ t.mark \in Nat
    BY <2>4, <2>5
  <2>7. Min(Beside(t)) = Lo(t) /\ Max(Beside(t)) = Hi(t)
    BY <2>6, BesideIs
  <2>8. ASSUME i > 1 PROVE Max(Beside(table[i - 1])) < Min(Beside(t))
    <3>1. i - 1 \in 1..Len(table)
      BY <1>2, <1>3, <2>8, HoleFields
    <3>2. PICK e : e = table[i - 1]
      OBVIOUS
    <3>3. EntryHolds(tail, parsed, e)
      BY <2>1, <3>1, <3>2 DEF TableHolds
    <3>4. Max(Beside(e)) = Hi(e)
      BY <2>5, <3>3, BesideIs
    <3> QED BY <2>4, <2>7, <2>8, <3>2, <3>4
  <2>9. ASSUME NEW m \in Marks \ Beside(t) PROVE m < Min(Beside(t)) \/ m > Max(Beside(t))
    <3>1. m \in 1..Len(parsed) /\ IsMark(parsed[m]) /\ m # 0
      BY <1>2 DEF Marks, IsMark
    <3>2. m \notin {t.edge, t.mark}
      BY <3>1 DEF Beside
    <3> QED BY <2>4, <2>7, <3>1, <3>2 DEF EntryHolds
  <2>10. /\ parsed[t.edge].type = 5 /\ t.line = parsed[t.edge].line + parsed[t.edge].bit * OFFSET
         /\ IF t.mark = 0 THEN t.code = Invalid /\ tail ELSE parsed[t.mark].type \in {3, 4} /\ (t.edge < t.mark \/ tail)
    BY <2>4 DEF EntryHolds
  <2> QED BY <2>3, <2>8, <2>9, <2>10
<1>5. VoteIsCount
  <2>1. \A c : Accepted(c) = AcceptedOf(parsed, c)
    BY DEF Accepted, AcceptedOf, VotesFor
  <2>2. \A i \in 1..Len(slots) : slots[i].count = Cardinality(Accepted(slots[i].code))
    BY <1>2, <1>3, <2>1 DEF VotesHold
  <2>3. \A i, j \in 1..Len(slots) : i < j => Min(Accepted(slots[i].code)) < Min(Accepted(slots[j].code))
    BY <1>2, <1>3, <2>1 DEF VotesHold
  <2>4. ASSUME NEW c \in CODES, Accepted(c) # {}, SlotOf(Hole, c) = 0 PROVE Len(slots) = SLOTS
    <3>1. \A i \in 1..Len(slots) : slots[i].code # c
      BY <1>2, <1>3, <2>4, SlotOfIs
    <3>2. AcceptedOf(parsed, c) # {}
      BY <2>1, <2>4
    <3> QED BY <1>2, <1>3, <3>1, <3>2 DEF VotesHold
  <2>5. ASSUME Len(slots) > 0
        PROVE  \A j \in 1..Len(slots) : slots[j].count < slots[winner].count \/ (slots[j].count = slots[winner].count /\ winner <= j)
    <3>1. slots \in Seq(SlotRecords) /\ winner = FirstMost(slots)
      BY <1>2, <1>3, <2>5, HoleFields DEF VotesHold
    <3>2. winner \in 1..Len(slots) /\ MostOf(slots, Len(slots), winner)
      BY <2>5, <3>1, FirstMostIs
    <3> QED BY <3>2 DEF MostOf
  <2> QED BY <2>2, <2>3, <2>4, <2>5 DEF VoteIsCount
<1> QED BY <1>1, <1>4, <1>5 DEF ParserIsTrue

(* Of every film that meets its assumption: the lines, the entries of the  *)
(* frame table and the vote are those of the records parsed.               *)
THEOREM ParserStaysTrue == DxSpec => []ParserIsTrue
BY DxInvariance, ParserIs, PTL
=============================================================================
