--------------------------------- MODULE Link ---------------------------------
(***************************************************************************)
(* The packet link (core/src/link/link.c): one request and one reply at a  *)
(* time over EP 0x01 and EP 0x81, under the link's mutex, for any number   *)
(* of threads.  A reply names the packet type and the board, not the       *)
(* register asked for, so a reply that comes late fits a later request.    *)
(*                                                                         *)
(* The other end answers a packet it took at most once, in order, at any   *)
(* time, perhaps malformed.  A bulk-out that times out may have been taken.*)
(***************************************************************************)
EXTENDS Naturals, Sequences

CONSTANTS
  Thread, NoThread,
  Capped,     \* threads with a cap of their own (pk_link_set_thread_cap)
  Request,    \* requests the callers make: [type, addr]
  HOST,       \* the board a wedge ping goes to
  RETRIES,    \* further attempts of reads, polls and pings (2)
  DRAIN_MAX,  \* reads of one drain (8)
  PROMPT      \* a reply that is not there when a drain reads empty never comes

Type == {"read", "poll", "write", "command", "ping"}

ASSUME LinkAssumption ==
  /\ NoThread \notin Thread /\ Capped \subseteq Thread
  /\ \A r \in Request : r.type \in Type
  /\ RETRIES \in Nat
  /\ DRAIN_MAX \in Nat /\ DRAIN_MAX > 2
  /\ PROMPT \in BOOLEAN

VARIABLES
  holder,      \* who holds l->mu, inside transact
  cur,         \* its request
  step,        \* where its exchange is
  attempt, oneshot, reads,   \* locals: attempt, leave, and i of drain
  sent,        \* how often this call's packet has gone out: 0, 1 or (2) more
  need_drain,  \* l->need_drain
  wedged,      \* the guard's sticky flag
  leave,       \* l->leave_deadline_ms: "off", "on", or "spent" once it has passed
  owed,        \* replies on their way
  ep81,        \* replies waiting at EP 0x81
  taken        \* what the last accepted reply answered: "none" yet, its "own" request or a "stale" one

call  == <<holder, cur, step, attempt, oneshot, reads, sent>>
wire  == <<owed, ep81>>
lvars == <<call, need_drain, wedged, leave, wire, taken>>

Retried(r) == r.type \in {"read", "poll", "ping"}

(* The reply byte 0 a request is answered with.                            *)
ReplyType(r) == CASE r.type = "read" -> 1 [] r.type = "poll" -> 3 [] r.type \in {"write", "command", "ping"} -> 7

Ping == [type |-> "ping", addr |-> HOST]

LinkInit ==
  /\ holder = NoThread /\ cur = Ping /\ step = "idle"
  /\ attempt = 0 /\ oneshot = FALSE /\ reads = 0 /\ sent = 0
  /\ need_drain = FALSE /\ wedged = FALSE /\ leave = "off"
  /\ owed = <<>> /\ ep81 = <<>> /\ taken = "none"

-----------------------------------------------------------------------------
(* The wire.  A new packet makes every reply before it a late one.         *)
Stale(q) == [n \in DOMAIN q |-> [q[n] EXCEPT !.own = FALSE]]

Replies(r) == [type : {ReplyType(r)}, addr : {r.addr}, good : BOOLEAN, own : {TRUE}]

Answered(r, q) == {Stale(q)} \union {Append(Stale(q), p) : p \in Replies(r)}

Fits(r, p) == p.good /\ p.type = ReplyType(r) /\ p.addr = r.addr

Arrive ==
  /\ owed # <<>>
  /\ ep81' = Append(ep81, Head(owed)) /\ owed' = Tail(owed)
  /\ UNCHANGED <<call, need_drain, wedged, leave, taken>>

-----------------------------------------------------------------------------
(* transact: the sticky wedge and a spent leave budget send nothing.       *)
OneShot(t) == leave # "off" \/ t \in Capped

Attempt(l) == step' = l /\ UNCHANGED <<holder, cur, attempt, oneshot, reads>>

SentAgain == sent' = IF sent = 2 THEN 2 ELSE sent + 1

Begin(t, r) ==
  /\ holder = NoThread /\ ~wedged /\ leave # "spent"
  /\ holder' = t /\ cur' = r /\ oneshot' = OneShot(t)
  /\ attempt' = 0 /\ reads' = 0 /\ sent' = 0
  /\ step' = IF need_drain THEN "drain" ELSE "out"
  /\ UNCHANGED <<need_drain, wedged, leave, wire, taken>>

Return == holder' = NoThread /\ step' = "idle" /\ UNCHANGED <<cur, attempt, oneshot, reads>>

(* One read of a drain: it discards a reply, or ends the drain.            *)
DrainTakes ==
  /\ step = "drain" /\ ep81 # <<>> /\ reads < DRAIN_MAX
  /\ ep81' = Tail(ep81) /\ reads' = reads + 1
  /\ UNCHANGED <<holder, cur, step, attempt, oneshot, sent, need_drain, wedged, leave, owed, taken>>

DrainEnds == reads = DRAIN_MAX \/ ep81 = <<>>

DrainDone ==
  /\ step = "drain" /\ DrainEnds
  /\ Attempt("out")
  /\ need_drain' = FALSE
  /\ owed' = IF PROMPT /\ reads < DRAIN_MAX THEN <<>> ELSE owed
  /\ UNCHANGED <<sent, wedged, leave, ep81, taken>>

(* A failed attempt, with the status s.                                    *)
MayRetry(s) == s \in {"TIMEOUT", "PROTOCOL"} /\ Retried(cur) /\ attempt < RETRIES /\ ~oneshot

NextAttempt_Uncounted == attempt

NextAttempt == attempt + 1

Again(s) ==
  IF MayRetry(s)
  THEN step' = "drain" /\ attempt' = NextAttempt /\ reads' = 0 /\ UNCHANGED <<holder, cur, oneshot>>
  ELSE Return

NeedDrain_Kept == need_drain

NeedDrain == TRUE

Fails(s) == Again(s) /\ need_drain' = NeedDrain

(* xfer_ms: no transfer starts once the leave budget is spent.             *)
BudgetSpent ==
  /\ step \in {"out", "in"} /\ leave = "spent"
  /\ Fails("TIMEOUT")
  /\ UNCHANGED <<sent, wedged, leave, wire, taken>>

(* bulk_out of the packet.  A timeout asks for the wedge ping, except in   *)
(* leave mode and on a capped thread.                                      *)
PingsAfter == ~oneshot

Out ==
  /\ step = "out" /\ leave # "spent"
  /\ \/ /\ owed' \in Answered(cur, owed) /\ ep81' = Stale(ep81)
        /\ \/ Attempt("in") /\ UNCHANGED need_drain
           \/ PingsAfter /\ Attempt("ping_out") /\ need_drain' = NeedDrain
           \/ ~PingsAfter /\ Fails("TIMEOUT")
     \/ Fails("TRANSPORT") /\ UNCHANGED wire
  /\ SentAgain
  /\ UNCHANGED <<wedged, leave, taken>>

(* bulk_in of the reply, and its checks.                                   *)
In ==
  /\ step = "in" /\ leave # "spent"
  /\ \/ /\ ep81 # <<>> /\ ep81' = Tail(ep81)
        /\ IF Fits(cur, Head(ep81))
           THEN /\ taken' = IF Head(ep81).own THEN "own" ELSE "stale"
                /\ Return /\ UNCHANGED need_drain
           ELSE Fails("PROTOCOL") /\ UNCHANGED taken
     \/ ep81 = <<>> /\ Fails("TIMEOUT") /\ UNCHANGED <<ep81, taken>>
     \/ Fails("TRANSPORT") /\ UNCHANGED <<ep81, taken>>
  /\ UNCHANGED <<sent, wedged, leave, owed>>

(* firmware_wedged: the ping is one exchange, without a drain and without  *)
(* a retry; unanswered, it wedges the transport for good.                  *)
Wedges == wedged' = TRUE /\ Return /\ UNCHANGED need_drain

PingOut ==
  /\ step = "ping_out"
  /\ \/ /\ owed' \in Answered(Ping, owed) /\ ep81' = Stale(ep81)
        /\ \/ Attempt("ping_in") /\ UNCHANGED <<need_drain, wedged>>
           \/ Wedges
     \/ Wedges /\ UNCHANGED wire
  /\ UNCHANGED <<sent, leave, taken>>

PingIn ==
  /\ step = "ping_in"
  /\ \/ /\ ep81 # <<>> /\ ep81' = Tail(ep81)
        /\ IF Fits(Ping, Head(ep81)) THEN Fails("TIMEOUT") /\ UNCHANGED wedged ELSE Wedges
     \/ Wedges /\ UNCHANGED ep81
  /\ UNCHANGED <<sent, leave, owed, taken>>

(* pk_link_set_leave_mode takes the mutex; the deadline passes by itself.  *)
SetLeave(on) ==
  /\ holder = NoThread
  /\ leave' = IF on THEN "on" ELSE "off"
  /\ UNCHANGED <<call, need_drain, wedged, wire, taken>>

BudgetPasses ==
  /\ leave = "on" /\ leave' = "spent"
  /\ UNCHANGED <<call, need_drain, wedged, wire, taken>>

Exchange == DrainTakes \/ DrainDone \/ BudgetSpent \/ Out \/ In \/ PingOut \/ PingIn

LinkNext ==
  \/ \E t \in Thread, r \in Request : Begin(t, r)
  \/ Exchange \/ Arrive
  \/ \E on \in BOOLEAN : SetLeave(on)
  \/ BudgetPasses

LinkSpec == LinkInit /\ [][LinkNext]_lvars

(* Every transfer has a timeout, so the thread in an exchange goes on.     *)
LinkFairSpec == LinkSpec /\ WF_lvars(Exchange)

-----------------------------------------------------------------------------
Reply == [type : {1, 3, 7}, addr : {r.addr : r \in Request} \union {HOST}, good : BOOLEAN, own : BOOLEAN]

(* Types.                                                                  *)
LinkTypeOK ==
  /\ holder \in Thread \union {NoThread} /\ cur \in Request \union {Ping}
  /\ step \in {"idle", "drain", "out", "in", "ping_out", "ping_in"}
  /\ (step = "idle") = (holder = NoThread)
  /\ attempt \in 0..RETRIES /\ oneshot \in BOOLEAN /\ reads \in 0..DRAIN_MAX /\ sent \in 0..2
  /\ need_drain \in BOOLEAN /\ wedged \in BOOLEAN /\ leave \in {"off", "on", "spent"}
  /\ owed \in Seq(Reply) /\ ep81 \in Seq(Reply) /\ taken \in {"none", "own", "stale"}

(* link.h and link.c:180: the reply a call returns answers that very       *)
(* packet, never an earlier one of this call, of another or of a ping,     *)
(* however transfers failed before.                                        *)
AnswerIsOwn == taken # "stale"

(* link.h: writes and commands are never retried.  A motor start or a lamp *)
(* command goes out once, whatever is lost on the way.                     *)
WriteSentOnce == cur.type \in {"write", "command"} => sent <= 1

(* S-R29: while a session leaves, and on a capped thread, a request gets   *)
(* one attempt and no wedge ping, so the leave is bounded.  No exchange    *)
(* that began before the leave is still retrying during it.                *)
LeaveIsBounded ==
  holder # NoThread /\ (leave # "off" \/ holder \in Capped) => sent <= 1 /\ step \notin {"ping_out", "ping_in"}

(* A drained link starts a request with nothing left on the wire, so one   *)
(* lost reply does not misalign every exchange after it.                   *)
Aligned == step = "out" => owed = <<>> /\ ep81 = <<>>

(* What holds at every step of every exchange.                             *)
ExchangesAreSound == LinkTypeOK /\ AnswerIsOwn /\ WriteSentOnce /\ LeaveIsBounded /\ Aligned

(* Whoever holds the link gives it up: retries, drains and pings end.      *)
ExchangeEnds == holder # NoThread ~> holder = NoThread

=============================================================================
