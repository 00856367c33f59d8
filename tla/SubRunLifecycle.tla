-------------------------- MODULE SubRunLifecycle --------------------------
(***************************************************************************)
(* What a subscriber of a parent stream may rely on for the delegated      *)
(* children of one coordinator turn: every child moves forward through     *)
(*                                                                         *)
(*      idle -> queued -> running -> completed | failed                    *)
(*                                                                         *)
(* a terminal report is final, no more children than the turn's limit are  *)
(* reported running, and nothing is reported once the handle has closed.   *)
(* DelegateWave is shown to implement this module.                         *)
(***************************************************************************)
EXTENDS Naturals, FiniteSets

CONSTANTS
  Child,          (* the children a plan turn may delegate to              *)
  MaxConcurrent   (* effective maxConcurrentChildren of the run            *)

VARIABLES
  turn,           (* the children this turn delegates to                   *)
  limit,          (* how many of them may run at once in this turn         *)
  status,         (* what the stream has reported about each child         *)
  open            (* the stream handle still publishes events              *)

vars == <<turn, limit, status, open>>

Terminal == {"completed", "failed"}

Running == {c \in Child : status[c] = "running"}

Init ==
  /\ turn \in SUBSET Child
  /\ limit \in 1..MaxConcurrent
  /\ status = [c \in Child |-> "idle"]
  /\ open = TRUE

Report(c, s) ==
  /\ open
  /\ status' = [status EXCEPT ![c] = s]
  /\ UNCHANGED <<turn, limit, open>>

\* A child has to wait for a concurrency slot.
Queue(c) ==
  /\ status[c] = "idle"
  /\ Report(c, "queued")

Start(c) ==
  /\ status[c] \in {"idle", "queued"}
  /\ Cardinality(Running) < limit
  /\ Report(c, "running")

Complete(c) ==
  /\ status[c] = "running"
  /\ Report(c, "completed")

\* A running child fails, or a child that never ran is abandoned.
Fail(c) ==
  /\ status[c] \notin Terminal
  /\ Report(c, "failed")

\* The handle closes: either every open child is reported failed in the same
\* step, or the handle goes silent and the open children stay as they are.
Close ==
  /\ open
  /\ open' = FALSE
  /\ UNCHANGED <<turn, limit>>
  /\ \/ UNCHANGED status
     \/ status' = [c \in Child |-> IF c \in turn /\ status[c] \notin Terminal
                                   THEN "failed" ELSE status[c]]

Next ==
  \/ \E c \in turn : Queue(c) \/ Start(c) \/ Complete(c) \/ Fail(c)
  \/ Close

Spec == Init /\ [][Next]_vars
=============================================================================
