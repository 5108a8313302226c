-------------------------------- MODULE Stream --------------------------------
(***************************************************************************)
(* The scan stream's threads (core/src/stream/stream.c): a reader takes    *)
(* chunks from the scanner, puts them into the ring and looks for the line *)
(* grid in what the ring took; a writer moves the ring's bytes to the raw  *)
(* file; another thread starts, re-arms and stops the stream.  The ring is *)
(* Ring and the grid is LineSync; here are the threads, their failures and *)
(* the file.  A byte is its number among the bytes the scanner sent.       *)
(***************************************************************************)
EXTENDS Ring, LineSync

VARIABLES
  ctl,       \* the thread that starts and stops the stream
  stop, rearm, fatal,   \* s->stop, s->rearm, s->fatal
  got, st,   \* what the reader's stream_read gave
  wt,        \* the writer: where it is, and its chunk
  failed,    \* the writer's local
  file,      \* the raw file
  received,  \* history: bytes the scanner sent
  rearms     \* history: re-arms asked for

read    == <<got, st, received>>
writer  == <<wt, failed, file>>
control == <<ctl, stop, rearms>>
others  == <<control, rearm, writer>>    \* what the reader's steps on a chunk leave alone
svars   == <<ring, linevars, read, fatal, others>>

(* set_fatal: the first fatal error stays.                                 *)
First(a, b) == IF a = "OK" THEN b ELSE a

StreamInit ==
  /\ RingInit
  /\ skip0 \in Skips /\ resync \in BOOLEAN
  /\ bytes = 0 /\ synced = FALSE /\ origin = 0 /\ search_start = 0 /\ lines_base = 0 /\ lead_bytes = 0
  /\ seg_start = <<>> /\ rd = "none" /\ chunk = NoChunk
  /\ left = WINDOW /\ skip = skip0
  /\ pend = <<>> /\ tap_next = Unset /\ tap_line = 0 /\ tap_seg = 0
  /\ marks = {} /\ lines = <<>> /\ cuts = <<>>
  /\ ctl = "off" /\ stop = FALSE /\ rearm = FALSE /\ fatal = "OK" /\ rearms = 0
  /\ got = 0 /\ st = "OK" /\ received = 0
  /\ wt = [pc |-> "none", chunk |-> <<>>] /\ failed = FALSE /\ file = <<>>

unread == <<cfg, bytes, grid, seg_start, chunk, search, tap, history>>   \* linevars but for rd

-----------------------------------------------------------------------------
(* pk_stream_start, pk_stream_rearm_sync, pk_stream_stop                   *)

(* Either thread may fail to allocate its chunk.                           *)
StreamStarts ==
  /\ ctl = "off" /\ ctl' = "running"
  /\ \E r, w \in {"loop", "done"} :
       /\ rd' = r /\ wt' = [wt EXCEPT !.pc = w]
       /\ fatal' = IF "done" \in {r, w} THEN "NOMEM" ELSE "OK"
  /\ UNCHANGED <<ring, unread, read, stop, rearms, rearm, failed, file>>

(* The reader cannot be created: the ring is closed, the writer joined.    *)
StartFails ==
  /\ ctl = "off" /\ ctl' = "unwinding"
  /\ wt' = [wt EXCEPT !.pc = "loop"] /\ RingClose
  /\ UNCHANGED <<linevars, read, fatal, stop, rearms, rearm, failed, file>>

(* The next start makes a new stream.                                      *)
Unwound ==
  /\ ctl = "unwinding" /\ wt.pc = "done" /\ ctl' = "off"
  /\ wt' = [wt EXCEPT !.pc = "none"] /\ closed' = FALSE
  /\ UNCHANGED <<buf, head, count, overflow, linevars, read, fatal, stop, rearms, rearm, failed, file>>

AskRearm_AtOnce ==
  /\ ctl = "running" /\ rearms < MAX_REARMS
  /\ TakesRearm /\ rearms' = rearms + 1
  /\ UNCHANGED <<ring, rd, read, fatal, writer, ctl, stop, rearm>>
AskRearm ==
  /\ ctl = "running" /\ rearms < MAX_REARMS
  /\ rearm' = TRUE /\ rearms' = rearms + 1
  /\ UNCHANGED <<ring, linevars, read, fatal, writer, ctl, stop>>

Stop ==
  /\ ctl = "running" /\ ctl' = "join reader" /\ stop' = TRUE
  /\ UNCHANGED <<ring, linevars, read, fatal, writer, rearm, rearms>>

ClosesRing_Not == UNCHANGED ring
ClosesRing == RingClose
ReaderJoined ==
  /\ ctl = "join reader" /\ rd = "done" /\ ctl' = "join writer"
  /\ ClosesRing
  /\ UNCHANGED <<linevars, read, fatal, writer, stop, rearm, rearms>>

(* The file's flush or close may fail; a drop in the ring is told here too.*)
WriterJoined ==
  /\ ctl = "join writer" /\ wt.pc = "done" /\ ctl' = "stopped"
  /\ \E closes \in {"OK", "IO"} :
       fatal' = First(First(fatal, closes), IF overflow THEN "OVERFLOW" ELSE "OK")
  /\ UNCHANGED <<ring, linevars, read, writer, stop, rearm, rearms>>

-----------------------------------------------------------------------------
(* reader_main                                                             *)

Goes(from, to) == rd = from /\ rd' = to /\ UNCHANGED <<ring, unread, read, fatal, others>>

Quits    == (stop \/ fatal # "OK") /\ Goes("loop", "done")
Reads    == ~stop /\ fatal = "OK" /\ Goes("loop", "read")
TimesOut == Goes("read", "loop")

(* stream_read returns bytes, with an error or without; the reader takes a *)
(* re-arm that was asked for before it looks at them.                      *)
ReadReturns ==
  /\ rd = "read"
  /\ \E n \in 0..Least(CHUNK, MAX_BYTES - received), e \in {"OK", "ERROR"} :
       /\ n > 0 \/ e # "OK" \/ EMPTY_READS
       /\ got' = n /\ st' = e /\ received' = received + n
       /\ IF n > 0 THEN rd' = "ring" /\ UNCHANGED fatal
                   ELSE rd' = "loop" /\ fatal' = First(fatal, e)
  /\ rearm' = FALSE
  /\ IF rearm THEN TakesRearm ELSE UNCHANGED unread
  /\ UNCHANGED <<ring, control, writer>>

(* The ring takes what fits of the chunk; only that is looked at below.    *)
ToRing ==
  /\ rd = "ring" /\ rd' = "sync"
  /\ RingWrite([k \in 1..got |-> received - got + k - 1])
  /\ Arrives(Room(got))
  /\ UNCHANGED <<read, fatal, others>>

SyncsPiece == Syncs /\ UNCHANGED <<ring, read, fatal, others>>

(* The chunk is done; its errors count in this order.                      *)
ChunkError == IF chunk.put < got THEN "OVERFLOW" ELSE chunk.sy
ChunkDone ==
  /\ Accepts
  /\ fatal' = First(First(fatal, ChunkError), st)
  /\ UNCHANGED <<ring, read, others>>

-----------------------------------------------------------------------------
(* writer_main                                                             *)

Takes ==
  /\ wt.pc = "loop" /\ count > 0
  /\ wt' = [pc |-> "write", chunk |-> Oldest(CHUNK)]
  /\ RingRead(CHUNK)
  /\ UNCHANGED <<linevars, read, fatal, control, rearm, failed, file>>

(* fwrite, and at times fflush, may fail; a short write leaves what went.  *)
(* The writer then drains the ring without writing.                        *)
WriteError_Untold == fatal
WriteError == First(fatal, "IO")
Writes ==
  /\ wt.pc = "write" /\ wt' = [pc |-> "loop", chunk |-> <<>>]
  /\ \/ failed /\ UNCHANGED <<failed, file, fatal>>
     \/ ~failed /\ file' = file \o wt.chunk /\ UNCHANGED <<failed, fatal>>
     \/ ~failed /\ failed' = TRUE /\ fatal' = WriteError
        /\ \E n \in 0..Len(wt.chunk) : file' = file \o SubSeq(wt.chunk, 1, n)
  /\ UNCHANGED <<ring, linevars, read, control, rearm>>

WriterEnds ==
  /\ wt.pc = "loop" /\ Drained /\ wt' = [wt EXCEPT !.pc = "done"]
  /\ UNCHANGED <<ring, linevars, read, fatal, control, rearm, failed, file>>

-----------------------------------------------------------------------------
Reader == Quits \/ Reads \/ TimesOut \/ ReadReturns \/ ToRing \/ SyncsPiece \/ ChunkDone
Writer == Takes \/ Writes \/ WriterEnds
Joins  == ReaderJoined \/ WriterJoined \/ Unwound
StreamNext == StreamStarts \/ StartFails \/ AskRearm \/ Stop \/ Joins \/ Reader \/ Writer

(* The threads are scheduled: the reader's read has a timeout, the writer  *)
(* looks at the ring every 50 ms at the latest, a join ends with the       *)
(* thread it waits for.                                                    *)
StreamSpec == StreamInit /\ [][StreamNext]_svars
StreamFairSpec == StreamSpec /\ WF_svars(Reader) /\ WF_svars(Writer) /\ WF_svars(Joins)

-----------------------------------------------------------------------------
(* Properties                                                              *)

(* Types and ranges: the ring holds at most its capacity.                  *)
StreamTypeOK ==
  /\ buf \in [0..CAP-1 -> 0..MAX_BYTES-1 \cup {NoByte}] /\ head \in 0..CAP-1 /\ count \in 0..CAP
  /\ {closed, overflow, stop, rearm, failed} \subseteq BOOLEAN
  /\ ctl \in {"off", "unwinding", "running", "join reader", "join writer", "stopped"}
  /\ fatal \in {"OK", "NOMEM", "LOST_SYNC", "OVERFLOW", "IO", "ERROR"}
  /\ rd \in {"none", "loop", "read", "ring", "sync", "done"} /\ wt.pc \in {"none", "loop", "write", "done"}
  /\ got \in 0..CHUNK /\ received \in 0..MAX_BYTES

(* The raw file is the bytes the scanner sent, from the first on, with no  *)
(* byte missing, doubled or out of order (stream.c:225), wherever the ring *)
(* wraps, whenever it overflows and whatever write fails.                  *)
FileIsPrefix == Len(file) <= received /\ file = [k \in 1..Len(file) |-> k - 1]

(* A stop that returns PK_OK has every byte the scanner sent in the file   *)
(* and has counted them all; what was left out is always told (stream.h:7  *)
(* "Nothing is dropped silently").                                         *)
OkMeansWhole == ctl = "stopped" /\ fatal = "OK" => Len(file) = received /\ bytes = received

(* What is in the file, whatever failed.                                   *)
FileIsOfTheBytes == StreamTypeOK /\ FileIsPrefix /\ OkMeansWhole

(* The reader does to the grid what LineSync does, whatever the other      *)
(* threads do meanwhile: its properties hold of the stream.                *)
Grid == INSTANCE LineSync WITH rd <- IF rd = "sync" THEN "sync" ELSE "loop"
GridIsLineSync == Grid!LineSpec

(* A stop returns, and so does a failed start: the reader ends, and the    *)
(* writer after it has drained the ring, whatever failed before.           *)
StopReturns == ctl \in {"join reader", "unwinding"} ~> ctl \in {"stopped", "off"}
=============================================================================
