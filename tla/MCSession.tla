------------------------------ MODULE MCSession ------------------------------
(***************************************************************************)
(* The threads of a process that works with a scanner: the session's, and  *)
(* the two of a scan's stream.  A session and a stream share no state that *)
(* either module has (Scan composes them), so a behaviour is one of        *)
(* either; `which` says whose.                                             *)
(***************************************************************************)
EXTENDS Session, Stream

VARIABLE which
MCVars == <<which, vars, svars>>

StreamRests == StreamInit /\ skip0 = 0 /\ resync

MCInit ==
  /\ Init
  /\ \/ which = "session" /\ StreamRests
     \/ which = "stream" /\ StreamInit

(* A stream that has stopped, or was never started, stays so.              *)
MCNext ==
  /\ UNCHANGED which
  /\ \/ which = "session" /\ Next /\ UNCHANGED svars
     \/ which = "stream" /\ StreamNext /\ UNCHANGED vars
     \/ which = "stream" /\ ctl \in {"off", "stopped"} /\ UNCHANGED <<vars, svars>>

(* The fairness of the two specifications.                                 *)
MCSpec ==
  /\ MCInit /\ [][MCNext]_MCVars
  /\ WF_vars(which = "session" /\ WorkerSteps)
  /\ WF_vars(which = "session" /\ (IdlePollEnd \/ IdleLeaves \/ IdleStops))
  /\ WF_vars(which = "session" /\ ((\E j \in Jobs : Granted(j)) \/ WaitEnd \/ CloseWaited \/ CloseLeaves \/ Destroy))
  /\ WF_svars(which = "stream" /\ Reader)
  /\ WF_svars(which = "stream" /\ Writer)
  /\ WF_svars(which = "stream" /\ Joins)
=============================================================================
