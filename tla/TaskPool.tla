------------------------------ MODULE TaskPool ------------------------------
(***************************************************************************)
(* What a goroutine pool promises the callers of SubmitWithRetry, with     *)
(* nothing about channels, workers or counters.  A call hands over one     *)
(* task; the pool accepts or refuses it, an accepted task is taken by a    *)
(* worker once and ends, and a graceful close is announced only when no    *)
(* accepted task is left.  GoroutinePool is shown to implement this.       *)
(***************************************************************************)

CONSTANT Calls      \* one element per call of SubmitWithRetry

VARIABLES
  status,           \* status[c]: what has become of the task of call c
  open,             \* the task queue still takes tasks
  drained           \* Close has returned nil

vars == <<status, open, drained>>

Status == {"unsubmitted", "accepted", "running", "finished", "refused"}

TypeOK ==
  /\ status \in [Calls -> Status]
  /\ open \in BOOLEAN
  /\ drained \in BOOLEAN

Init ==
  /\ status = [c \in Calls |-> "unsubmitted"]
  /\ open = TRUE
  /\ drained = FALSE

Move(c, from, to) ==
  /\ status[c] = from
  /\ status' = [status EXCEPT ![c] = to]
  /\ open' = open /\ drained' = drained

\* The call returns nil: only an open pool takes a task.
Accept(c) == open /\ Move(c, "unsubmitted", "accepted")

\* The call returns an error or panics: its task never runs.
Refuse(c) == Move(c, "unsubmitted", "refused")

Start(c) == Move(c, "accepted", "running")

Finish(c) == Move(c, "running", "finished")

Shutdown ==
  /\ open
  /\ open' = FALSE
  /\ UNCHANGED <<status, drained>>

\* A graceful close: nothing that was accepted is still waiting or running.
Drain ==
  /\ ~open
  /\ ~drained
  /\ \A c \in Calls : status[c] \notin {"accepted", "running"}
  /\ drained' = TRUE
  /\ UNCHANGED <<status, open>>

Next ==
  \/ \E c \in Calls : Accept(c) \/ Refuse(c) \/ Start(c) \/ Finish(c)
  \/ Shutdown
  \/ Drain

Spec == Init /\ [][Next]_vars

=============================================================================
