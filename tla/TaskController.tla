--------------------------- MODULE TaskController ---------------------------
(***************************************************************************)
(* The task state machine of one profile: control_plane/task_controller.py *)
(* behind the role checks of control_plane/controller_service.py.          *)
(*                                                                         *)
(* The service answers one request at a time, so a request is one step:    *)
(* an operator here takes the table to the one after it.  A start of the   *)
(* service first ends, one transaction each, the executions it finds.      *)
(***************************************************************************)
EXTENDS Integers, FiniteSets

CONSTANTS
  Contract,      \* contracts, each by its hash
  TaskId,        \* [Contract -> the task_id it names]
  Key,           \* [Contract -> its project and idempotency key]
  None,          \* no row
  MaxIterations, \* max_iterations of a contract
  MaxTokens      \* budget.max_tokens of a contract

ASSUME ControllerAssumption ==
  /\ MaxIterations \in 1..5
  /\ MaxTokens \in Nat \ {0}

VARIABLES
  task,    \* the tasks table, by the contract of the row
  late,    \* contracts whose deadline has passed
  serving  \* the service is up

controller == <<task, late, serving>>

-----------------------------------------------------------------------------
(* States *)

Terminal ==
  {"REJECTED", "CANCELLED", "FAILED_PERMANENT", "FAILED_BUDGET",
   "FAILED_TIMEOUT", "FAILED_STAGNATION", "FAILED_GATE", "NEEDS_HUMAN",
   "SUPERSEDED", "COMPLETED"}

\* The targets TRANSITIONS has for each state that is not terminal.
Transitions ==
  [RECEIVED         |-> {"AUTHORIZED", "REJECTED"},
   AUTHORIZED       |-> {"NORMALIZED", "REJECTED"},
   NORMALIZED       |-> {"PLANNED", "REJECTED"},
   PLANNED          |-> {"QUEUED", "REJECTED"},
   QUEUED           |-> {"LEASED", "CANCELLED", "FAILED_BUDGET", "FAILED_TIMEOUT"},
   LEASED           |-> {"RUNNING", "QUEUED", "CANCELLED"},
   RUNNING          |-> {"EVIDENCE_PENDING", "CANCELLED", "FAILED_PERMANENT",
                         "FAILED_BUDGET", "FAILED_TIMEOUT", "FAILED_GATE"},
   EVIDENCE_PENDING |-> {"EVALUATING", "FAILED_GATE"},
   EVALUATING       |-> {"REWORK_REQUESTED", "PASSED", "FAILED_GATE", "NEEDS_HUMAN"},
   REWORK_REQUESTED |-> {"QUEUED", "FAILED_STAGNATION", "FAILED_BUDGET",
                         "FAILED_TIMEOUT"},
   PASSED           |-> {"HUMAN_APPROVAL_PENDING", "COMPLETED"},
   HUMAN_APPROVAL_PENDING |-> {"COMPLETED", "REJECTED", "NEEDS_HUMAN"}]

TaskState == DOMAIN Transitions \cup Terminal

BuilderTargets ==
  {"AUTHORIZED", "NORMALIZED", "PLANNED", "QUEUED", "LEASED", "RUNNING",
   "EVIDENCE_PENDING", "FAILED_PERMANENT", "FAILED_BUDGET", "FAILED_TIMEOUT",
   "FAILED_STAGNATION", "FAILED_GATE", "REJECTED"}

EvaluatorTargets ==
  {"EVALUATING", "REWORK_REQUESTED", "PASSED", "FAILED_GATE", "NEEDS_HUMAN"}

\* cost_usd is left out: the worker always reports 0, and a cost recorded by
\* hand exhausts the same budget as tokens do.
Row == [state : TaskState, version : Nat, attempts : 0..MaxIterations,
        tokens : Nat]

ASSUME NoRowAssumption == None \notin Row

Present(c) == task[c] # None

-----------------------------------------------------------------------------
(* Operations: the table after a request *)

Moved(row, state) == [row EXCEPT !.state = state, !.version = @ + 1]

\* Fault: only the task id is unique.
SameTask(c, d) == c # d /\ TaskId[c] = TaskId[d]

\* The two unique constraints of the table.
Clash(c, d) == c # d /\ (TaskId[c] = TaskId[d] \/ Key[c] = Key[d])

NewRow == [state |-> "RECEIVED", version |-> 0, attempts |-> 0, tokens |-> 0]

\* A submission is refused when its deadline has passed or another contract has
\* its task id or key.
Acceptable(c) ==
  /\ c \notin late
  /\ ~\E d \in Contract : Present(d) /\ Clash(c, d)

\* The row it is answered with: a duplicate gets the one it made.
Submitted(c) == IF Present(c) THEN task[c] ELSE NewRow

Permitted(c, version, target) ==
  /\ Present(c)
  /\ task[c].version = version
  /\ task[c].state \notin Terminal
  /\ target \in Transitions[task[c].state]

Exhausted(c) == task[c].tokens >= MaxTokens

OutOfAttempts(c, target) ==
  target = "LEASED" /\ task[c].attempts >= MaxIterations

\* The state a permitted transition really enters: an exhausted budget comes
\* before a deadline, and both before the limit on attempts.
Entered(c, target) ==
  IF Exhausted(c) THEN "FAILED_BUDGET"
  ELSE IF c \in late THEN "FAILED_TIMEOUT"
  ELSE IF OutOfAttempts(c, target) THEN "FAILED_STAGNATION"
  ELSE target

Transitioned(c, target) ==
  LET state == Entered(c, target)
      row   == Moved(task[c], state)
  IN [task EXCEPT ![c] =
       IF state = "LEASED" THEN [row EXCEPT !.attempts = @ + 1] ELSE row]

Charged(c, tokens) == [task EXCEPT ![c].tokens = @ + tokens]

\* Fault: a task that has ended is cancelled again.
CancellableAny(c) == Present(c)

Cancellable(c) == Present(c) /\ task[c].state \notin Terminal

-----------------------------------------------------------------------------
(* Requests that no worker script makes, and the service itself *)

\* Whoever holds the cancellation token.
Cancel(c) ==
  /\ serving /\ Cancellable(c)
  /\ task' = [task EXCEPT ![c] = Moved(@, "CANCELLED")]
  /\ UNCHANGED <<late, serving>>

\* A transition asked for by hand, with the version just read.
Request(c, targets) ==
  \E target \in targets :
    /\ serving /\ Present(c) /\ Permitted(c, task[c].version, target)
    /\ task' = Transitioned(c, target)
    /\ UNCHANGED <<late, serving>>

\* Usage recorded by hand, in any state and at any time.  The bound: past its
\* budget a task is exhausted whatever is added.
ChargeByHand(c) ==
  /\ serving /\ Present(c) /\ ~Exhausted(c)
  /\ \E tokens \in 1..MaxTokens : task' = Charged(c, tokens)
  /\ UNCHANGED <<late, serving>>

DeadlinePasses(c) ==
  /\ c \notin late
  /\ late' = late \cup {c}
  /\ UNCHANGED <<task, serving>>

Orphaned(c) == Present(c) /\ task[c].state \in {"LEASED", "RUNNING"}

\* recover_orphaned_executions: a lease is cancelled, an execution fails.
Recover(c) ==
  /\ ~serving /\ Orphaned(c)
  /\ task' = [task EXCEPT ![c] =
       Moved(@, IF @.state = "LEASED" THEN "CANCELLED" ELSE "FAILED_PERMANENT")]
  /\ UNCHANGED <<late, serving>>

\* The socket is bound when the recovery is through.
Serve ==
  /\ ~serving
  /\ \A c \in Contract : ~Orphaned(c)
  /\ serving' = TRUE
  /\ UNCHANGED <<task, late>>

Stop ==
  /\ serving
  /\ serving' = FALSE
  /\ UNCHANGED <<task, late>>

ControllerInit ==
  /\ task = [c \in Contract |-> None]
  /\ late = {}
  /\ serving = TRUE

ControllerTypeOK ==
  /\ task \in [Contract -> Row \cup {None}]
  /\ late \subseteq Contract
  /\ serving \in BOOLEAN

\* A task that has ended stays as it ended, whoever asks, and whatever the
\* start of the service recovers (TERMINAL).
EndsForGood ==
  [][\A c \in Contract : Present(c) /\ task[c].state \in Terminal =>
       /\ task'[c] # None
       /\ task'[c].state = task[c].state
       /\ task'[c].version = task[c].version]_controller
=============================================================================
