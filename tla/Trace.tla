------------------------------- MODULE Trace -------------------------------
(***************************************************************************)
(* The trace recorder and its replay (transport/record.c, trace.c,         *)
(* replay.c).  Two threads go through a recorder at the same time, the     *)
(* link's and the stream's; each call is a transfer of the inner transport *)
(* and then, under the recorder's lock, an event in events.jsonl (for the  *)
(* stream also its bytes in stream.bin).  A later process loads the trace  *)
(* and answers the calls of the same two threads from it.                  *)
(*                                                                         *)
(* A stream read that times out is no event: the recorded reader polls on, *)
(* and a replayed one is told a timeout when its events are at an end.     *)
(*                                                                         *)
(* The replaying callers either repeat what the recorded ones called or    *)
(* call something else; what the recorded ones really did is happened.     *)
(***************************************************************************)
EXTENDS Integers, Sequences, SequencesExt

CONSTANTS MAX_LINK, MAX_STREAM       \* calls of each thread

THREADS   == {"link", "stream"}
CallBound == [link |-> MAX_LINK, stream |-> MAX_STREAM]

VARIABLES
    mode,            \* recording, closed, replaying, refused
    happened,        \* [THREADS -> seq of <<call, answer>>] of the recorded run, but for
    idle_then,       \* stream reads that timed out: after how many others one did
    idle_now,        \* the same of the replayed reader
    events,          \* events.jsonl
    bin,             \* stream.bin: per byte the event it belongs to, 0 of none
    streamOff,       \* r->stream_off
    failed,          \* r->failed
    failed_file,     \* the FAILED file
    cursor,          \* the replay's cursor of each queue
    answers,         \* [THREADS -> seq] what the repeating callers were told
    surprised        \* a repeating caller was told something else
traceVars == <<mode, happened, idle_then, idle_now, events, bin, streamOff, failed, failed_file, cursor, answers, surprised>>

\* What a thread asks for: a write, a read, a control transfer each way, a
\* firmware download (stored as its hash), a reopen; the stream only reads.
LinkCalls   == {"out", "in", "control_out", "control_in", "download", "reopen"}
CallsOf(t)  == IF t = "link" THEN LinkCalls ELSE {"stream"}
LengthOf(c) == IF c = "reopen" THEN 0 ELSE 1

\* What the inner transport may answer but for a stream read's timeout, a
\* failed read with a part of the data too.
Answers(c) ==
    [ok : BOOLEAN, len : IF c \in {"in", "stream"} THEN {0, 2} ELSE {LengthOf(c)}]

\* A failed read has no length any more, for the caller and for the event.
Told(c, a) == IF ~a.ok /\ c \in {"in", "stream"} THEN [a EXCEPT !.len = 0] ELSE a

\* rec_*: the event of a call.  data: the bytes are stored, hash: their SHA-256.
Event(t, c, a) ==
    LET len == a.len
    IN  [thread |-> t, call |-> c, ok |-> a.ok, len |-> len,
         data |-> len > 0 /\ c \notin {"download", "stream", "reopen"} /\ (c = "control_in" => a.ok),
         hash |-> c = "download",
         off  |-> IF c = "stream" THEN streamOff ELSE 0]

Torn == [thread |-> "none"]           \* a line of which only a part was written

TraceInit ==
    /\ mode = "recording" /\ happened = [t \in THREADS |-> <<>>] /\ idle_then = {} /\ idle_now = {}
    /\ events = <<>> /\ bin = <<>> /\ streamOff = 0 /\ failed = FALSE /\ failed_file = FALSE
    /\ cursor = [t \in THREADS |-> 0] /\ answers = [t \in THREADS |-> <<>>] /\ surprised = FALSE

Recorded  == <<happened, idle_then, events, bin, streamOff, failed, failed_file>>
Replaying == <<cursor, answers, surprised, idle_now>>
-----------------------------------------------------------------------------
(* Recording.                                                              *)

\* The first write error is final: nothing more is written, and a file is
\* left if that is still possible (the disk may be full).
Latched_Not == failed' = FALSE /\ failed_file' = failed_file
Latched == failed' = TRUE /\ failed_file' \in {failed_file, TRUE}

Written(t, c, a) ==
    /\ ~failed
    /\ LET bytes == IF c = "stream" THEN [k \in 1..a.len |-> Len(events) + 1] ELSE <<>>
       IN  /\ events' = Append(events, Event(t, c, a))
           /\ bin' = bin \o bytes
           /\ streamOff' = streamOff + Len(bytes)
    /\ UNCHANGED <<failed, failed_file>>

\* The bytes, the line or a part of one of them do not get written.
NotWritten(t, c, a) ==
    /\ ~failed /\ Latched
    /\ \/ c = "stream" /\ a.len > 0 /\ bin' \in {bin, Append(bin, 0)} /\ UNCHANGED <<events, streamOff>>
       \/ /\ events' \in {events, Append(events, Torn)}
          /\ LET bytes == IF c = "stream" THEN [k \in 1..a.len |-> 0] ELSE <<>>
             IN  bin' = bin \o bytes /\ streamOff' = streamOff + Len(bytes)

AfterFailure == failed /\ UNCHANGED <<events, bin, streamOff, failed, failed_file>>

\* Room for one more call, repeated timeouts between two other reads being one.
MayCall(t) ==
    Len(happened[t]) + (IF t = "stream" THEN Cardinality(idle_then) ELSE 0) < CallBound[t]

Records(t) ==
    /\ mode = "recording" /\ MayCall(t)
    /\ \E c \in CallsOf(t) : \E got \in Answers(c) :
           LET a == Told(c, got)
           IN  /\ happened' = [happened EXCEPT ![t] = Append(@, <<c, a>>)]
               /\ Written(t, c, a) \/ NotWritten(t, c, a) \/ AfterFailure
    /\ UNCHANGED <<mode, idle_then, Replaying>>

\* rec_stream: a read that times out is passed on and leaves no event.
Idles ==
    /\ mode = "recording" /\ MayCall("stream")
    /\ idle_then' = idle_then \union {Len(happened["stream"])}
    /\ UNCHANGED <<mode, happened, events, bin, streamOff, failed, failed_file, Replaying>>

\* The recorder is closed, or its process ends between two calls.
Ends == mode = "recording" /\ mode' = "closed" /\ UNCHANGED <<Recorded, Replaying>>
-----------------------------------------------------------------------------
(* Loading.                                                                *)

\* parse_event: what a line must be.
WellFormed(e) ==
    /\ e # Torn
    /\ CASE e.call \in {"out", "control_out", "download"} -> e.len > 0 => e.data \/ e.hash
         [] e.call = "in" -> ~e.hash /\ (e.ok /\ e.len > 0 => e.data) /\ (~e.ok => e.len = 0)
         [] e.call = "control_in" -> ~e.hash /\ (e.ok /\ e.len > 0 => e.data) /\ (~e.ok => ~e.data)
         [] e.call = "stream" -> ~e.data /\ (~e.ok => e.len = 0) /\ e.off + e.len <= Len(bin)
         [] e.call = "reopen" -> ~e.data /\ ~e.hash

Accepted == ~failed_file /\ \A k \in DOMAIN events : WellFormed(events[k])

Load ==
    /\ mode = "closed"
    /\ mode' = IF Accepted THEN "replaying" ELSE "refused"
    /\ UNCHANGED <<Recorded, Replaying>>
-----------------------------------------------------------------------------
(* Replaying.                                                              *)

\* The events one thread is answered from, in their order: the link's and the
\* stream's apart.
LinesOf(t) == {k \in DOMAIN events : events[k].thread = t}
Rank(t, k) == Cardinality({j \in LinesOf(t) : j <= k})
Queue(t)   == [n \in 1..Cardinality(LinesOf(t)) |-> events[CHOOSE k \in LinesOf(t) : Rank(t, k) = n]]

\* The stream's bytes are the ones its event points at.
BytesOf(e) == [k \in 1..e.len |-> bin[e.off + k]]
Intact(e)  == \A k, l \in DOMAIN BytesOf(e) : BytesOf(e)[k] = BytesOf(e)[l] /\ BytesOf(e)[k] # 0

Mismatch == [ok |-> FALSE, len |-> -1]
TimedOut == [ok |-> FALSE, len |-> -2]

Answer(t, c) ==
    IF cursor[t] >= Len(Queue(t)) THEN IF t = "stream" THEN TimedOut ELSE Mismatch
    ELSE LET e == Queue(t)[cursor[t] + 1]
         IN  IF e.call # c \/ (c = "stream" /\ e.ok /\ ~Intact(e)) THEN Mismatch
             ELSE [ok |-> e.ok, len |-> e.len]
Advances(t, c) == cursor[t] < Len(Queue(t)) /\ Queue(t)[cursor[t] + 1].call = c

Repeats(t) ==
    /\ mode = "replaying" /\ Len(answers[t]) < Len(happened[t])
    /\ LET c == happened[t][Len(answers[t]) + 1][1]
           a == Answer(t, c)
       IN  /\ a # TimedOut
           /\ cursor' = [cursor EXCEPT ![t] = IF Advances(t, c) THEN @ + 1 ELSE @]
           /\ IF Advances(t, c) /\ a # Mismatch
              THEN answers' = [answers EXCEPT ![t] = Append(@, <<c, a>>)] /\ UNCHANGED surprised
              ELSE surprised' = (surprised \/ ~failed) /\ UNCHANGED answers
    /\ UNCHANGED <<mode, Recorded, idle_now>>

\* rp_stream: behind its last event the stream reads as an idle device, as often
\* as the caller asks.
IdlesAgain ==
    /\ mode = "replaying" /\ Answer("stream", "stream") = TimedOut
    /\ idle_now' = idle_now \union {Len(answers["stream"])}
    /\ UNCHANGED <<mode, Recorded, cursor, answers, surprised>>

\* A caller that does something else on the link is told so and moves nothing.
Deviates ==
    /\ mode = "replaying"
    /\ \E c \in LinkCalls : Answer("link", c) = Mismatch /\ ~Advances("link", c)
    /\ UNCHANGED traceVars

TraceNext == \/ \E t \in THREADS : Records(t) \/ Repeats(t)
             \/ Idles \/ IdlesAgain \/ Ends \/ Load \/ Deviates

TraceSpec == TraceInit /\ [][TraceNext]_traceVars
-----------------------------------------------------------------------------
\* Callers that repeat their calls are answered what was answered then, in
\* whatever order the two threads come now, and are told of a mismatch or of
\* an end only where the recorder had failed.  The stream reads that timed out
\* then are excepted: they come back neither in their number nor in their
\* places, and the replayed reader is told a timeout only behind the last read
\* the trace holds.
ReplayIsTheRecording ==
    /\ \A t \in THREADS : IsPrefix(answers[t], happened[t])
    /\ ~surprised
    /\ \A n \in idle_now : n <= Len(happened["stream"]) /\ (~failed => n = Len(happened["stream"]))

\* Of each thread a trace that loads holds a prefix of what happened, all of it
\* when no write failed: an event is never missing between two others, and no
\* answer the recorder passes on makes a line the loader would refuse.
AcceptedIsPrefix ==
    LET kept(t) == [k \in DOMAIN Queue(t) |-> <<Queue(t)[k].call, [ok |-> Queue(t)[k].ok, len |-> Queue(t)[k].len]>>]
    IN  /\ mode = "replaying" => \A t \in THREADS : IsPrefix(kept(t), happened[t])
        /\ (mode \in {"replaying", "refused"} /\ ~failed) =>
               mode = "replaying" /\ \A t \in THREADS : kept(t) = happened[t]

\* A replay stands for the recorded scanner, however the two threads' calls
\* lie in the trace and wherever the recorder failed, but for when its stream
\* was idle.
ReplayIsFaithful == ReplayIsTheRecording /\ AcceptedIsPrefix

\* record.c:141, "replay ends in a timeout too": a replayed reader is told of an
\* idle scanner where the recorded one was.
IdleWhereItWas == idle_now \subseteq idle_then
=============================================================================
