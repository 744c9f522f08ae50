-------------------------- MODULE WorkerRunProofs ---------------------------
(***************************************************************************)
(* What WorkerRun promises holds for any number of contracts and runs.     *)
(***************************************************************************)
EXTENDS WorkerRun, TLAPS

-----------------------------------------------------------------------------
(* What a step does to the tasks table *)

Submits(c) ==
  /\ task[c] = None /\ \A d \in Contract : ~(Present(d) /\ Clash(c, d))
  /\ task' = [task EXCEPT ![c] = NewRow]

Transits(c) ==
  \E target \in TaskState :
    /\ Permitted(c, task[c].version, target)
    /\ task' = Transitioned(c, target)

Ended(c) ==
  /\ Present(c) /\ task[c].state \notin Terminal
  /\ \E state \in {"CANCELLED", "FAILED_PERMANENT"} :
       task' = [task EXCEPT ![c] = Moved(@, state)]

\* Usage is added, by a supervisor or by hand.
Charges(c) == Present(c) /\ \E tokens \in Nat : task' = Charged(c, tokens)

TaskStep ==
  \/ UNCHANGED task
  \/ \E c \in Contract : Submits(c) \/ Transits(c) \/ Ended(c) \/ Charges(c)

\* A supervisor that records usage has a task to record it for.
ChargesRows == \A w \in Worker : run[w].phase = "wait" => Present(C(w))

LEMMA TargetStates ==
  ASSUME NEW c \in Contract, task \in [Contract -> Row \cup {None}],
         NEW version, NEW target, Permitted(c, version, target)
  PROVE  /\ target \in TaskState /\ task[c] \in Row
         /\ target \in Transitions[task[c].state]
         /\ Permitted(c, task[c].version, target)
<1>1. task[c] \in Row
  BY DEF Permitted, Present
<1>2. task[c].state \in DOMAIN Transitions
  BY <1>1 DEF Permitted, Row, TaskState
<1> QED
  BY <1>1, <1>2 DEF Permitted, Transitions, TaskState, Terminal

LEMMA StepsOfTasks ==
  ASSUME TypeOK, ChargesRows, Next
  PROVE  TaskStep
<1> USE DEF TaskStep
<1>0. /\ task \in [Contract -> Row \cup {None}]
      /\ \A w \in Worker : C(w) \in Contract /\ run[w].spent \in Nat
  BY DEF TypeOK, ControllerTypeOK, C, Run
<1>1. ASSUME NEW w \in Worker, Script(w) PROVE TaskStep
  <2>1. CASE Submit(w)
    <3>1. CASE task[C(w)] = None
      <4>1. Submits(C(w))
        BY <1>0, <2>1, <3>1 DEF Submit, Submitted, Present, Acceptable, Submits
      <4> QED
        BY <1>0, <4>1
    <3>2. CASE task[C(w)] # None
      <4>1. task' = [task EXCEPT ![C(w)] = task[C(w)]]
        BY <2>1, <3>2 DEF Submit, Submitted, Present
      <4> QED
        BY <1>0, <4>1
    <3> QED
      BY <3>1, <3>2
  <2>2. CASE Admit(w)
    <3>1. Permitted(C(w), seen[w], pc[w]) /\ task' = Transitioned(C(w), pc[w])
      BY <2>2 DEF Admit
    <3>2. Transits(C(w))
      BY <1>0, <3>1, TargetStates DEF Transits
    <3> QED
      BY <1>0, <3>2
  <2>3. CASE Finish(w)
    <3>1. CASE UNCHANGED task
      BY <3>1
    <3>2. ASSUME NEW target \in Ends(run[w]), Permitted(C(w), seen[w], target),
                 task' = Transitioned(C(w), target)
          PROVE  TaskStep
      <4>1. Transits(C(w))
        BY <1>0, <3>2, TargetStates DEF Transits
      <4> QED
        BY <1>0, <4>1
    <3> QED
      BY <2>3, <3>1, <3>2 DEF Finish
  <2>4. CASE Refused(w) \/ Start(w)
    BY <2>4 DEF Refused, Start, controller
  <2> QED
    BY <1>1, <2>1, <2>2, <2>3, <2>4 DEF Script
<1>2. ASSUME NEW w \in Worker, Die(w) \/ Group(w) \/ UnitEnds(w) PROVE TaskStep
  BY <1>2 DEF Die, Group, Fork, Spend, Exit, ChildExit, Overrun, Codex, UnitEnds, controller
<1>3. ASSUME NEW w \in Worker, Supervise(w) PROVE TaskStep
  <2>1. CASE Record(w)
    <3>1. Charges(C(w))
      BY <1>0, <2>1 DEF Record, Charges, ChargesRows
    <3> QED
      BY <1>0, <3>1
  <2> QED
    BY <1>3, <2>1 DEF Supervise, Poll, PollRaises, Leave, StopGroup, StopRaises,
                      RecordRaises, Supervisor
<1>4. CASE Callers
  <2>1. ASSUME NEW c \in Contract, Cancel(c) PROVE Ended(c)
    BY <2>1 DEF Cancel, Cancellable, Ended
  <2>2. ASSUME NEW c \in Contract, Request(c, ByHand) \/ Request(c, EvaluatorTargets)
        PROVE  Transits(c)
    <3>1. PICK target \in ByHand \cup EvaluatorTargets :
            Permitted(c, task[c].version, target) /\ task' = Transitioned(c, target)
      BY <2>2 DEF Request
    <3> QED
      BY <1>0, <3>1, TargetStates DEF Transits
  <2>3. ASSUME NEW c \in Contract, ChargeByHand(c) PROVE Charges(c)
    BY <2>3, ControllerAssumption DEF ChargeByHand, Charges
  <2> QED
    BY <1>4, <2>1, <2>2, <2>3 DEF Callers
<1>5. CASE Service
  <2>1. ASSUME NEW c \in Contract, Recover(c) PROVE Ended(c)
    BY <2>1 DEF Recover, Orphaned, Ended, Terminal
  <2> QED
    BY <1>0, <1>5, <2>1 DEF Service, DeadlinePasses, Serve, Stop
<1>6. CASE Reboot
  BY <1>6 DEF Reboot
<1> QED
  BY <1>1, <1>2, <1>3, <1>4, <1>5, <1>6 DEF Next

-----------------------------------------------------------------------------
(* What that means for a row *)

\* A row stays, its version and its tokens only grow, it does not return to
\* RECEIVED, and an end is final.
Grown(c) ==
  /\ task'[c] \in Row /\ task'[c] # None
  /\ task'[c].version >= task[c].version
  /\ task'[c].tokens >= task[c].tokens
  /\ task'[c].state = "RECEIVED" =>
       task[c].state = "RECEIVED" /\ task'[c].version = task[c].version
  /\ task'[c].state # "RECEIVED" =>
       task[c].state # "RECEIVED" \/ task'[c].version >= 1
  /\ task[c].state \in Terminal =>
       task'[c].state = task[c].state /\ task'[c].version = task[c].version

\* A row there was not.
Appeared(c) ==
  /\ task[c] = None /\ task'[c] = NewRow
  /\ \A d \in Contract : ~(Present(d) /\ Clash(c, d))
  /\ \A d \in Contract : d # c => task'[d] = task[d]

LEMMA MovedRow ==
  ASSUME NEW row \in Row, NEW state \in TaskState, row.state \notin Terminal,
         state # "RECEIVED"
  PROVE  /\ Moved(row, state) \in Row /\ Moved(row, state).state = state
         /\ Moved(row, state).version = row.version + 1
         /\ Moved(row, state).attempts = row.attempts
         /\ Moved(row, state).tokens = row.tokens
<1> DEFINE stated == [row EXCEPT !.state = state]
<1>1. /\ stated \in Row /\ stated.state = state /\ stated.version = row.version
      /\ stated.attempts = row.attempts /\ stated.tokens = row.tokens
  BY DEF Row
<1>2. Moved(row, state) = [stated EXCEPT !.version = @ + 1]
  BY DEF Moved
<1> HIDE DEF stated
<1> QED
  BY <1>1, <1>2 DEF Row

\* What a permitted transition makes of its row, and what it leaves alone.
LEMMA TransitionedRow ==
  ASSUME task \in [Contract -> Row \cup {None}], NEW c \in Contract,
         NEW target \in TaskState, Permitted(c, task[c].version, target)
  PROVE  /\ Transitioned(c, target) \in [Contract -> Row \cup {None}]
         /\ Transitioned(c, target)[c] \in Row
         /\ Transitioned(c, target)[c].state = Entered(c, target)
         /\ Transitioned(c, target)[c].version = task[c].version + 1
         /\ Transitioned(c, target)[c].tokens = task[c].tokens
         /\ Entered(c, target) \in {"FAILED_BUDGET", "FAILED_TIMEOUT",
                                    "FAILED_STAGNATION", target}
         /\ Entered(c, target) # "RECEIVED"
         /\ \A d \in Contract : d # c => Transitioned(c, target)[d] = task[d]
<1>1. /\ task[c] \in Row /\ task[c].state \notin Terminal
      /\ target \in Transitions[task[c].state]
  BY TargetStates DEF Permitted
<1>2. Entered(c, target) \in {"FAILED_BUDGET", "FAILED_TIMEOUT", "FAILED_STAGNATION", target}
  BY DEF Entered
<1>3. target # "RECEIVED"
  <2>1. task[c].state \in DOMAIN Transitions
    BY <1>1 DEF Row, TaskState
  <2> QED
    BY <1>1, <2>1 DEF Transitions
<1>4. Entered(c, target) \in TaskState \ {"RECEIVED"}
  BY <1>2, <1>3 DEF TaskState, Terminal
<1> DEFINE state == Entered(c, target)
           row   == Moved(task[c], state)
<1>5. /\ row \in Row /\ row.state = state /\ row.version = task[c].version + 1
      /\ row.attempts = task[c].attempts /\ row.tokens = task[c].tokens
  BY <1>1, <1>4, MovedRow
<1>6. CASE state # "LEASED"
  <2>1. Transitioned(c, target) = [task EXCEPT ![c] = row]
    BY <1>6 DEF Transitioned
  <2> QED
    BY <1>2, <1>4, <1>5, <2>1
<1>7. CASE state = "LEASED"
  <2>1. Transitioned(c, target) = [task EXCEPT ![c] = [row EXCEPT !.attempts = @ + 1]]
    BY <1>7 DEF Transitioned
  <2>2. task[c].attempts < MaxIterations
    <3>1. target = "LEASED" /\ ~OutOfAttempts(c, target)
      BY <1>7 DEF Entered
    <3> QED
      BY <1>1, <3>1, ControllerAssumption DEF OutOfAttempts, Row
  <2>3. [row EXCEPT !.attempts = @ + 1] \in Row
    <3> HIDE DEF row
    <3> QED
      BY <1>1, <1>5, <2>2, ControllerAssumption DEF Row
  <2>4. /\ [row EXCEPT !.attempts = @ + 1].state = state
        /\ [row EXCEPT !.attempts = @ + 1].version = row.version
        /\ [row EXCEPT !.attempts = @ + 1].tokens = row.tokens
    <3> HIDE DEF row
    <3> QED
      BY <1>5 DEF Row
  <2> HIDE DEF row
  <2> QED
    BY <1>2, <1>4, <1>5, <2>1, <2>3, <2>4
<1> QED
  BY <1>6, <1>7

\* A step that only changes the row c, which there is.
LEMMA OneRowGrows ==
  ASSUME task \in [Contract -> Row \cup {None}], NEW c \in Contract, Present(c),
         task' \in [Contract -> Row \cup {None}],
         \A d \in Contract : d # c => task'[d] = task[d],
         Grown(c)
  PROVE  /\ \A d \in Contract : Present(d) => Grown(d)
         /\ \A d \in Contract : task[d] = None => task'[d] = None
<1>1. ASSUME NEW d \in Contract, Present(d), task'[d] = task[d] PROVE Grown(d)
  <2>1. task[d] \in Row /\ task[d] # None
    BY <1>1 DEF Present
  <2>2. task[d].version >= task[d].version /\ task[d].tokens >= task[d].tokens
    BY <2>1 DEF Row
  <2> QED
    BY <1>1, <2>1, <2>2 DEF Grown
<1> QED
  BY <1>1 DEF Present

LEMMA NewRowIsRow == NewRow \in Row /\ NewRow.state = "RECEIVED" /\ NewRow.version = 0
BY ControllerAssumption DEF NewRow, Row, TaskState, Transitions

LEMMA RowsGrow ==
  ASSUME task \in [Contract -> Row \cup {None}], TaskStep
  PROVE  /\ task' \in [Contract -> Row \cup {None}]
         /\ \A c \in Contract : Present(c) => Grown(c)
         /\ \A c \in Contract : task[c] = None => task'[c] = None \/ Appeared(c)
<1>1. CASE UNCHANGED task
  <2>1. ASSUME NEW c \in Contract, Present(c) PROVE Grown(c)
    <3>1. task[c] \in Row /\ task[c] # None
      BY <2>1 DEF Present
    <3>2. task[c].version >= task[c].version /\ task[c].tokens >= task[c].tokens
      BY <3>1 DEF Row
    <3> QED
      BY <1>1, <3>1, <3>2 DEF Grown
  <2> QED
    BY <1>1, <2>1
<1>2. ASSUME NEW c \in Contract, Submits(c)
      PROVE  /\ task' \in [Contract -> Row \cup {None}] /\ Appeared(c)
             /\ \A d \in Contract : Present(d) => Grown(d)
             /\ \A d \in Contract : task[d] = None => task'[d] = None \/ Appeared(d)
  <2>1. /\ task' \in [Contract -> Row \cup {None}] /\ Appeared(c)
        /\ \A d \in Contract : d # c => task'[d] = task[d]
    BY <1>2, NewRowIsRow DEF Submits, Appeared
  <2>2. ASSUME NEW d \in Contract, Present(d) PROVE Grown(d)
    <3>1. task'[d] = task[d] /\ task[d] \in Row /\ task[d] # None
      BY <2>1, <2>2 DEF Present, Appeared
    <3>2. task[d].version >= task[d].version /\ task[d].tokens >= task[d].tokens
      BY <3>1 DEF Row
    <3> QED
      BY <3>1, <3>2 DEF Grown
  <2> QED
    BY <2>1, <2>2
<1>3. ASSUME NEW c \in Contract, Transits(c)
      PROVE  Present(c) /\ Grown(c) /\ task' \in [Contract -> Row \cup {None}]
             /\ \A d \in Contract : d # c => task'[d] = task[d]
  <2>1. PICK target \in TaskState : /\ Permitted(c, task[c].version, target)
                                    /\ task' = Transitioned(c, target)
    BY <1>3 DEF Transits
  <2>2. /\ task' \in [Contract -> Row \cup {None}] /\ task'[c] \in Row
        /\ task'[c].version = task[c].version + 1 /\ task'[c].tokens = task[c].tokens
        /\ task'[c].state # "RECEIVED"
        /\ \A d \in Contract : d # c => task'[d] = task[d]
    BY <2>1, TransitionedRow
  <2>3. Present(c) /\ task[c] \in Row /\ task[c].state \notin Terminal
    BY <2>1 DEF Permitted, Present
  <2>4. task[c].version \in Nat /\ task[c].tokens \in Nat
    BY <2>3 DEF Row
  <2> QED
    BY <2>2, <2>3, <2>4, NoRowAssumption DEF Grown
<1>4. ASSUME NEW c \in Contract, Ended(c)
      PROVE  Present(c) /\ Grown(c) /\ task' \in [Contract -> Row \cup {None}]
             /\ \A d \in Contract : d # c => task'[d] = task[d]
  <2>1. PICK state \in {"CANCELLED", "FAILED_PERMANENT"} :
          task' = [task EXCEPT ![c] = Moved(@, state)]
    BY <1>4 DEF Ended
  <2>2. Present(c) /\ task[c] \in Row /\ task[c].state \notin Terminal
    BY <1>4 DEF Ended, Present
  <2>3. state \in TaskState /\ state # "RECEIVED"
    BY DEF TaskState, Terminal
  <2>4. /\ Moved(task[c], state) \in Row
        /\ Moved(task[c], state).state = state
        /\ Moved(task[c], state).version = task[c].version + 1
        /\ Moved(task[c], state).tokens = task[c].tokens
    BY <2>2, <2>3, MovedRow
  <2>5. /\ task' \in [Contract -> Row \cup {None}]
        /\ task'[c] = Moved(task[c], state)
        /\ \A d \in Contract : d # c => task'[d] = task[d]
    BY <2>1, <2>4
  <2>6. task[c].version \in Nat /\ task[c].tokens \in Nat
    BY <2>2 DEF Row
  <2> QED
    BY <2>2, <2>3, <2>4, <2>5, <2>6, NoRowAssumption DEF Grown
<1>5. ASSUME NEW c \in Contract, Charges(c)
      PROVE  Present(c) /\ Grown(c) /\ task' \in [Contract -> Row \cup {None}]
             /\ \A d \in Contract : d # c => task'[d] = task[d]
  <2>1. task[c] \in Row /\ Present(c)
    BY <1>5 DEF Charges, Present
  <2>2. PICK tokens \in Nat : task' = Charged(c, tokens)
    BY <1>5 DEF Charges
  <2> DEFINE row == [task[c] EXCEPT !.tokens = @ + tokens]
  <2>3. /\ row \in Row /\ row.state = task[c].state
        /\ row.version = task[c].version /\ row.version >= task[c].version
        /\ row.tokens >= task[c].tokens
    BY <2>1 DEF Row
  <2>4. task' = [task EXCEPT ![c] = row]
    BY <2>2 DEF Charged
  <2> HIDE DEF row
  <2> QED
    BY <2>1, <2>3, <2>4, NoRowAssumption DEF Grown
<1> QED
  BY <1>1, <1>2, <1>3, <1>4, <1>5, OneRowGrows DEF TaskStep

-----------------------------------------------------------------------------
(* The invariant *)

\* A run that has moved its task on, or got as far as Codex.
Started(w) ==
  \/ pc[w] \in {"NORMALIZED", "PLANNED", "QUEUED", "LEASED", "RUNNING", "prepare", "wait"}
  \/ run[w].phase # "none"

\* A run that has begun has a task of its own, which it has moved on; Codex is
\* there only as long as its supervisor watches it, or died; what was spent is
\* recorded when the supervisor is done.
ScriptOK(w) ==
  /\ pc[w] = "AUTHORIZED" => seen[w] = 0 /\ Present(C(w))
  /\ Started(w) => Present(C(w)) /\ task[C(w)].version >= 1
  /\ pc[w] \in {"submit", "prepare"} \cup DOMAIN Admission => run[w].phase = "none"
  /\ run[w].phase \in {"none", "wait", "done"} => "codex" \notin run[w].group
  /\ run[w].phase = "done" => run[w].spent <= task[C(w)].tokens

\* The table obeys its unique constraints.
Unique == \A c, d \in Contract : Present(c) /\ Present(d) => ~Clash(c, d)

\* A version of 0 is the mark of a task nobody has moved yet.
Unmoved ==
  \A c \in Contract : Present(c) =>
    (task[c].state = "RECEIVED" <=> task[c].version = 0)

\* No two runs of one key have moved a task.
Alone == \A v, w \in Worker : v # w /\ Started(v) /\ Started(w) => Key[C(v)] # Key[C(w)]

RunInvariant ==
  /\ TypeOK /\ Unique /\ Unmoved /\ Alone
  /\ \A w \in Worker : ScriptOK(w)

LEMMA InitialRuns == Init => RunInvariant
<1> SUFFICES ASSUME Init PROVE RunInvariant
  OBVIOUS
<1>1. NoRun \in Run /\ NoRun.phase = "none" /\ NoRun.group = {}
  BY DEF NoRun, Run, Reason
<1>2. TypeOK
  BY <1>1 DEF Init, ControllerInit, TypeOK, ControllerTypeOK, Step
<1>3. Unique /\ Unmoved
  BY DEF Init, ControllerInit, Unique, Unmoved, Present
<1>4. \A w \in Worker : ~Started(w) /\ ScriptOK(w)
  BY <1>1 DEF Init, Started, ScriptOK
<1> QED
  BY <1>2, <1>3, <1>4 DEF RunInvariant, Alone

\* What a step keeps of one run.
Keeps(w) ==
  /\ pc'[w] \in Step /\ seen'[w] \in Nat /\ run'[w] \in Run
  /\ ScriptOK(w)'
  /\ Started(w)' => Started(w) \/ (Present(C(w)) /\ task[C(w)].version = 0)

\* What a step does to the tasks, as far as the runs see it.
Growth ==
  /\ task' \in [Contract -> Row \cup {None}]
  /\ \A c \in Contract : Present(c) => Grown(c)
  /\ given' = given

LEMMA RunShapes ==
  ASSUME TypeOK, NEW w \in Worker
  PROVE  /\ pc[w] \in Step /\ seen[w] \in Nat /\ run[w] \in Run /\ C(w) \in Contract
         /\ task[C(w)] \in Row \cup {None}
BY DEF TypeOK, ControllerTypeOK, C

\* The task of a run that has begun stays there.
LEMMA TaskOfRun ==
  ASSUME RunInvariant, Growth, NEW w \in Worker, Present(C(w))
  PROVE  /\ Present(C(w))' /\ C(w)' = C(w) /\ C(w) \in Contract
         /\ task[C(w)] \in Row /\ task'[C(w)] \in Row
         /\ task[C(w)].version \in Nat /\ task'[C(w)].version \in Nat
         /\ task[C(w)].tokens \in Nat /\ task'[C(w)].tokens \in Nat
         /\ task'[C(w)].version >= task[C(w)].version
         /\ task'[C(w)].tokens >= task[C(w)].tokens
<1>1. C(w)' = C(w) /\ C(w) \in Contract /\ task[C(w)] \in Row
  BY RunShapes DEF RunInvariant, Growth, C, Present
<1>2. Grown(C(w)) /\ Present(C(w))'
  BY <1>1 DEF Growth, Grown, Present
<1> QED
  BY <1>1, <1>2 DEF Grown, Row

\* The script stays where it is, or ends.
Rests(w) ==
  \/ pc'[w] = pc[w] /\ seen'[w] = seen[w]
  \/ pc'[w] = "end" /\ seen'[w] = 0

LEMMA RunKeeps ==
  ASSUME RunInvariant, Growth, NEW w \in Worker, Rests(w), run'[w] \in Run,
         run'[w].phase = "none" <=> run[w].phase = "none",
         run'[w].phase \in {"none", "wait", "done"} => "codex" \notin run'[w].group,
         run'[w].phase = "done" => run'[w].spent <= task'[C(w)].tokens
  PROVE  Keeps(w)
<1>1. /\ pc'[w] \in Step /\ seen'[w] \in Nat /\ C(w)' = C(w)
      /\ "end" \notin {"submit", "prepare"} \cup DOMAIN Admission
      /\ ScriptOK(w)
  BY RunShapes DEF RunInvariant, Step, Growth, C, Admission, Rests
<1>2. Started(w)' => Started(w)
  BY DEF Started, Rests
<1>3. Started(w)' => Present(C(w))' /\ task'[C(w)].version >= 1
  BY <1>1, <1>2, TaskOfRun DEF ScriptOK
<1>4. pc'[w] = "AUTHORIZED" => seen'[w] = 0 /\ Present(C(w))'
  BY <1>1, TaskOfRun DEF ScriptOK, Rests
<1>5. ScriptOK(w)'
  BY <1>1, <1>3, <1>4 DEF ScriptOK, Rests
<1> QED
  BY <1>1, <1>2, <1>5 DEF Keeps

\* A run that stays as it is.
LEMMA IdleKeeps ==
  ASSUME RunInvariant, Growth, NEW w \in Worker, Rests(w), run'[w] = run[w]
  PROVE  Keeps(w)
<1>1. run[w] \in Run /\ run[w].spent \in Nat /\ ScriptOK(w)
  BY RunShapes DEF RunInvariant, Run
<1>2. run[w].phase = "done" => run[w].spent <= task'[C(w)].tokens
  <2> SUFFICES ASSUME run[w].phase = "done" PROVE run[w].spent <= task'[C(w)].tokens
    OBVIOUS
  <2>1. Present(C(w)) /\ run[w].spent <= task[C(w)].tokens
    BY <1>1 DEF ScriptOK, Started
  <2> QED
    BY <1>1, <2>1, TaskOfRun
<1> QED
  BY <1>1, <1>2, RunKeeps DEF ScriptOK

\* A run killed with its unit.
LEMMA KilledRun ==
  ASSUME NEW r \in Run
  PROVE  /\ Killed(r) \in Run /\ Killed(r).group = {}
         /\ Killed(r).phase \in {"none", "raised"}
         /\ Killed(r).phase = "none" <=> r.phase = "none"
BY DEF Killed, NoRun, Run, Reason

LEMMA KilledKeeps ==
  ASSUME RunInvariant, Growth, NEW w \in Worker, Rests(w), run'[w] = Killed(run[w])
  PROVE  Keeps(w)
<1>1. run[w] \in Run
  BY RunShapes DEF RunInvariant
<1> QED
  BY <1>1, KilledRun, RunKeeps

LEMMA GroupKeeps ==
  ASSUME RunInvariant, Growth, NEW w \in Worker, Group(w)
  PROVE  Keeps(w)
<1>1. /\ run \in [Worker -> Run] /\ run[w] \in Run /\ ScriptOK(w)
      /\ run[w].spent \in Nat
  BY RunShapes DEF RunInvariant, TypeOK, Run
<1>2. pc'[w] = pc[w] /\ seen'[w] = seen[w]
  BY DEF Group, Fork, Spend, Exit, ChildExit, Overrun, Codex
<1>3. /\ run'[w] \in Run /\ run'[w].phase = run[w].phase
      /\ \/ "codex" \in run[w].group
         \/ run'[w].group \subseteq run[w].group /\ run'[w].spent = run[w].spent
  <2>1. CASE Fork(w)
    BY <1>1, <2>1 DEF Fork, Codex, Run
  <2>2. CASE Spend(w)
    BY <1>1, <2>2 DEF Spend, Codex, Run
  <2>3. CASE Exit(w)
    <3>1. PICK code \in ExitCode :
            run' = [run EXCEPT ![w] = [run[w] EXCEPT !.group = @ \ {"codex"}, !.code = code]]
      BY <2>3 DEF Exit, Codex
    <3>2. run'[w] = [run[w] EXCEPT !.group = @ \ {"codex"}, !.code = code]
      BY <1>1, <3>1
    <3>3. run[w].group \ {"codex"} \in SUBSET {"codex", "child"} /\ code \in ExitCode \cup {None}
      BY <1>1 DEF Run
    <3>4. run'[w] \in Run /\ run'[w].phase = run[w].phase
      BY <1>1, <3>2, <3>3 DEF Run
    <3> QED
      BY <2>3, <3>4 DEF Exit
  <2>4. CASE ChildExit(w)
    BY <1>1, <2>4 DEF ChildExit, Codex, Run
  <2>5. CASE Overrun(w)
    BY <1>1, <2>5 DEF Overrun, Codex, Run
  <2> QED
    BY <2>1, <2>2, <2>3, <2>4, <2>5 DEF Group
<1>4. run[w].phase = "done" => run[w].spent <= task'[C(w)].tokens
  BY <1>1, TaskOfRun DEF ScriptOK, Started
<1> QED
  BY <1>1, <1>2, <1>3, <1>4, RunKeeps DEF ScriptOK, Rests

LEMMA SupervisorKeeps ==
  ASSUME RunInvariant, Growth, NEW w \in Worker, Supervise(w)
  PROVE  Keeps(w)
<1>1. /\ run \in [Worker -> Run] /\ run[w] \in Run /\ ScriptOK(w)
      /\ run[w].spent \in Nat /\ run[w].code \in ExitCode \cup {None}
  BY RunShapes DEF RunInvariant, TypeOK, Run
<1>2. pc'[w] = pc[w] /\ seen'[w] = seen[w]
  BY DEF Supervise, Poll, PollRaises, Leave, StopGroup, StopRaises, Record, RecordRaises,
         Supervisor
<1>3. CASE Record(w)
  <2>1. /\ run[w].phase = "wait" /\ Present(C(w))
        /\ task' = Charged(C(w), run[w].spent)
    BY <1>1, <1>3 DEF Record, ScriptOK, Started
  <2>2. C(w) \in Contract /\ task[C(w)] \in Row /\ task[C(w)].tokens \in Nat
    BY <2>1, TaskOfRun
  <2>3. task'[C(w)].tokens = task[C(w)].tokens + run[w].spent
    <3>1. task' = [task EXCEPT ![C(w)] = [task[C(w)] EXCEPT !.tokens = @ + run[w].spent]]
      BY <2>1 DEF Charged
    <3>2. task'[C(w)] = [task[C(w)] EXCEPT !.tokens = @ + run[w].spent]
      BY <2>2, <3>1 DEF RunInvariant, TypeOK, ControllerTypeOK
    <3> QED
      BY <2>2, <3>2 DEF Row
  <2>4. /\ run'[w] \in Run /\ run'[w].phase \in {"done", "raised"}
        /\ run'[w].spent = run[w].spent /\ run'[w].group = run[w].group
    <3>1. PICK phase \in {"done", "raised"} : run' = [run EXCEPT ![w].phase = phase]
      BY <1>3 DEF Record
    <3>2. run'[w] = [run[w] EXCEPT !.phase = phase]
      BY <1>1, <3>1
    <3> QED
      BY <1>1, <3>2 DEF Run
  <2> QED
    BY <1>1, <1>2, <2>1, <2>2, <2>3, <2>4, RunKeeps DEF ScriptOK, Rests
<1>4. CASE ~Record(w)
  <2>1. /\ run'[w] \in Run /\ run[w].phase # "none"
        /\ run'[w].phase \in {"stop", "raised", "wait"}
        /\ run'[w].phase = "wait" => "codex" \notin run'[w].group
    <3>1. CASE Poll(w)
      <4>1. PICK reason \in Grounds(w) :
              run' = [run EXCEPT ![w] = [Over(run[w], "stop") EXCEPT !.reason = reason]]
        BY <3>1 DEF Poll, Supervisor
      <4>2. reason \in Reason /\ run[w].phase = "poll"
        BY <3>1 DEF Poll, Grounds, Reason
      <4> QED
        BY <1>1, <4>1, <4>2 DEF Run, Over
    <3>2. CASE PollRaises(w)
      <4>1. run'[w] = Over(run[w], "raised") /\ run[w].phase = "poll"
        BY <1>1, <3>2 DEF PollRaises, Supervisor
      <4> QED
        BY <1>1, <4>1 DEF Over, Run
    <3>3. CASE Leave(w)
      BY <1>1, <3>3 DEF Leave, Supervisor, Run, Over
    <3>4. CASE StopGroup(w)
      <4>1. PICK code \in ExitCode \cup {None} :
              run' = [run EXCEPT ![w] = [run[w] EXCEPT !.phase = "wait", !.group = {},
                                                       !.code = code]]
        BY <1>1, <3>4 DEF StopGroup, Supervisor
      <4>2. run[w].phase = "stop"
        BY <3>4 DEF StopGroup
      <4> QED
        BY <1>1, <4>1, <4>2 DEF Run
    <3>5. CASE StopRaises(w) \/ RecordRaises(w)
      BY <1>1, <3>5 DEF StopRaises, RecordRaises, Supervisor, Run
    <3> QED
      BY <1>4, <3>1, <3>2, <3>3, <3>4, <3>5 DEF Supervise
  <2> QED
    BY <1>2, <2>1, RunKeeps DEF Rests
<1> QED
  BY <1>3, <1>4

\* The transitions the script asks for, and the step after each.
LEMMA AdmissionSteps ==
  /\ DOMAIN Admission = {"AUTHORIZED", "NORMALIZED", "PLANNED", "QUEUED", "LEASED", "RUNNING"}
  /\ \A target \in DOMAIN Admission :
       /\ Admission[target] \in {"NORMALIZED", "PLANNED", "QUEUED", "LEASED", "RUNNING", "prepare"}
       /\ target \in TaskState
BY DEF Admission, TaskState, Transitions

LEMMA SubmitKeeps ==
  ASSUME RunInvariant, Growth, NEW w \in Worker, Submit(w)
  PROVE  Keeps(w)
<1>1. /\ ScriptOK(w) /\ pc[w] = "submit" /\ run[w].phase = "none" /\ ~Started(w)
      /\ C(w) \in Contract /\ C(w)' = C(w)
      /\ pc \in [Worker -> Step] /\ seen \in [Worker -> Nat] /\ run[w] \in Run
  BY RunShapes DEF Submit, RunInvariant, ScriptOK, Started, Growth, C, TypeOK
<1> DEFINE row == Submitted(C(w))
<1>2. row \in Row /\ (row.state = "RECEIVED" => row.version = 0)
  BY <1>1, RunShapes, NewRowIsRow DEF Submitted, Present, RunInvariant, Unmoved
<1> HIDE DEF row
<1>3. /\ task' = [task EXCEPT ![C(w)] = row] /\ run' = run
      /\ \/ pc'[w] = "end" /\ seen'[w] = 0
         \/ pc'[w] = "AUTHORIZED" /\ row.state = "RECEIVED" /\ seen'[w] = row.version
  BY <1>1 DEF Submit, Answer, End, Advance, row
<1>4. Present(C(w))'
  BY <1>1, <1>2, <1>3, NoRowAssumption DEF Present, RunInvariant, TypeOK, ControllerTypeOK
<1>5. seen'[w] \in Nat
  BY <1>1, <1>2, <1>3 DEF Row
<1>6. pc'[w] \in Step /\ ~Started(w)'
  BY <1>1, <1>3, AdmissionSteps DEF Started, Step
<1>7. ScriptOK(w)'
  BY <1>1, <1>2, <1>3, <1>4, <1>5, <1>6 DEF ScriptOK
<1> QED
  BY <1>1, <1>3, <1>5, <1>6, <1>7 DEF Keeps

LEMMA AdmitKeeps ==
  ASSUME RunInvariant, Growth, NEW w \in Worker, Admit(w)
  PROVE  Keeps(w)
<1>1. /\ ScriptOK(w) /\ pc[w] \in DOMAIN Admission /\ run[w].phase = "none"
      /\ pc \in [Worker -> Step] /\ seen \in [Worker -> Nat] /\ run[w] \in Run
      /\ run' = run
      /\ Permitted(C(w), seen[w], pc[w]) /\ task' = Transitioned(C(w), pc[w])
  BY RunShapes DEF Admit, RunInvariant, ScriptOK, TypeOK
<1>2. /\ Present(C(w)) /\ task[C(w)].version = seen[w]
      /\ Permitted(C(w), task[C(w)].version, pc[w])
  BY <1>1 DEF Permitted
<1>3. task'[C(w)].version = task[C(w)].version + 1
  BY <1>1, <1>2, TransitionedRow, TaskOfRun, AdmissionSteps
  DEF RunInvariant, TypeOK, ControllerTypeOK
<1>4. /\ Present(C(w))' /\ task'[C(w)].version >= 1 /\ C(w)' = C(w)
  BY <1>1, <1>2, <1>3, TaskOfRun
<1>5. /\ pc'[w] \in {"NORMALIZED", "PLANNED", "QUEUED", "LEASED", "RUNNING", "prepare", "end"}
      /\ seen'[w] \in Nat
  <2>1. PICK step \in {Admission[pc[w]], "end"}, version \in {0, seen[w] + 1} :
          Advance(w, step, version)
    BY <1>1 DEF Admit, Answer, End
  <2>2. version \in Nat
    BY <1>1
  <2>3. pc'[w] = step /\ seen'[w] \in {0, version}
    BY <1>1, <2>1 DEF Advance
  <2> QED
    BY <1>1, <2>1, <2>2, <2>3, AdmissionSteps
<1>6. pc'[w] \in Step /\ pc'[w] # "AUTHORIZED"
  BY <1>5, AdmissionSteps DEF Step
<1>7. Started(w) \/ task[C(w)].version = 0
  BY <1>1, <1>2, AdmissionSteps DEF Started, ScriptOK
<1>8. ScriptOK(w)'
  BY <1>1, <1>4, <1>6 DEF ScriptOK
<1> QED
  BY <1>1, <1>2, <1>5, <1>6, <1>7, <1>8 DEF Keeps

LEMMA StartKeeps ==
  ASSUME RunInvariant, Growth, NEW w \in Worker, Start(w)
  PROVE  Keeps(w)
<1>1. /\ ScriptOK(w) /\ pc[w] = "prepare" /\ Started(w)
      /\ pc \in [Worker -> Step] /\ seen \in [Worker -> Nat] /\ run \in [Worker -> Run]
      /\ run[w] \in Run
  BY RunShapes DEF Start, RunInvariant, Started, TypeOK
<1>2. /\ Present(C(w))' /\ C(w)' = C(w) /\ task'[C(w)].version >= 1
  BY <1>1, TaskOfRun DEF ScriptOK
<1>3. pc'[w] = "wait" /\ seen'[w] = seen[w]
  BY <1>1 DEF Start, Advance
<1>4. run'[w] = [run[w] EXCEPT !.phase = "poll", !.group = {"codex"}]
  BY <1>1 DEF Start
<1>5. run'[w] \in Run /\ run'[w].phase = "poll"
  <2>1. {"codex"} \in SUBSET {"codex", "child"}
    OBVIOUS
  <2> QED
    BY <1>1, <1>4, <2>1 DEF Run
<1>6. "wait" \in Step /\ "wait" \notin {"submit", "prepare"} \cup DOMAIN Admission
  BY AdmissionSteps DEF Step
<1>7. ScriptOK(w)'
  BY <1>2, <1>3, <1>5, <1>6, AdmissionSteps DEF ScriptOK
<1> QED
  BY <1>1, <1>3, <1>5, <1>6, <1>7 DEF Keeps

LEMMA ScriptKeeps ==
  ASSUME RunInvariant, Growth, NEW w \in Worker, Script(w) \/ Die(w)
  PROVE  Keeps(w)
<1>1. CASE Refused(w) \/ Finish(w) \/ Die(w)
  <2>1. Rests(w) /\ run'[w] = run[w]
    BY <1>1 DEF Refused, Finish, Die, End, Advance, Rests, RunInvariant, TypeOK
  <2> QED
    BY <2>1, IdleKeeps
<1> QED
  BY <1>1, SubmitKeeps, AdmitKeeps, StartKeeps DEF Script

-----------------------------------------------------------------------------
(* Every step keeps the invariant *)

LEMMA RunsKeep ==
  ASSUME RunInvariant, Growth, Next
  PROVE  \A w \in Worker : Keeps(w)
<1>0. /\ pc \in [Worker -> Step] /\ seen \in [Worker -> Nat] /\ run \in [Worker -> Run]
  BY DEF RunInvariant, TypeOK
<1>1. ASSUME NEW v \in Worker,
             Script(v) \/ Die(v) \/ Group(v) \/ Supervise(v) \/ UnitEnds(v),
             NEW w \in Worker
      PROVE  Keeps(w)
  <2>1. CASE v = w
    <3>1. CASE UnitEnds(w)
      <4>1. Rests(w) /\ run'[w] = Killed(run[w])
        BY <1>0, <3>1 DEF UnitEnds, Rests
      <4> QED
        BY <4>1, KilledKeeps
    <3> QED
      BY <1>1, <2>1, <3>1, ScriptKeeps, GroupKeeps, SupervisorKeeps
  <2>2. CASE v # w
    <3>1. pc'[w] = pc[w] /\ seen'[w] = seen[w] /\ run'[w] = run[w]
      <4>1. CASE Script(v)
        BY <1>0, <2>2, <4>1 DEF Script, Submit, Admit, Refused, Start, Finish, Answer, End, Advance
      <4>2. CASE Die(v) \/ Group(v) \/ UnitEnds(v)
        BY <1>0, <2>2, <4>2 DEF Die, End, Advance, Group, Fork, Spend, Exit, ChildExit, Overrun,
                                Codex, UnitEnds
      <4>3. CASE Supervise(v)
        BY <1>0, <2>2, <4>3 DEF Supervise, Poll, PollRaises, Leave, StopGroup, StopRaises,
                                Record, RecordRaises, Supervisor
      <4> QED
        BY <1>1, <4>1, <4>2, <4>3
    <3> QED
      BY <3>1, IdleKeeps DEF Rests
  <2> QED
    BY <2>1, <2>2
<1>2. ASSUME Callers \/ Service, NEW w \in Worker PROVE Keeps(w)
  <2>1. pc'[w] = pc[w] /\ seen'[w] = seen[w] /\ run'[w] = run[w]
    BY <1>2 DEF Callers, Service
  <2> QED
    BY <2>1, IdleKeeps DEF Rests
<1>3. ASSUME Reboot, NEW w \in Worker PROVE Keeps(w)
  <2>1. Rests(w) /\ run'[w] = Killed(run[w])
    BY <1>3 DEF Reboot, Rests
  <2> QED
    BY <2>1, KilledKeeps
<1> QED
  BY <1>1, <1>2, <1>3 DEF Next

\* What a step makes of the tasks.
LEMMA TasksKeep ==
  ASSUME RunInvariant, Next
  PROVE  /\ Growth
         /\ \A c \in Contract : task[c] = None => task'[c] = None \/ Appeared(c)
<1>1. task \in [Contract -> Row \cup {None}]
  BY DEF RunInvariant, TypeOK, ControllerTypeOK
<1>2. ChargesRows
  BY DEF ChargesRows, RunInvariant, ScriptOK, Started
<1>3. TaskStep
  BY <1>2, StepsOfTasks DEF RunInvariant
<1>4. given' = given
  BY DEF Next
<1> QED
  BY <1>1, <1>3, <1>4, RowsGrow DEF Growth

\* The variables of the runs stay functions.
LEMMA FunctionsStay ==
  ASSUME TypeOK, Next
  PROVE  /\ pc' = [w \in Worker |-> pc'[w]]
         /\ seen' = [w \in Worker |-> seen'[w]]
         /\ run' = [w \in Worker |-> run'[w]]
<1>0. /\ pc \in [Worker -> Step] /\ seen \in [Worker -> Nat] /\ run \in [Worker -> Run]
  BY DEF TypeOK
<1> DEFINE Fine == /\ pc' = [w \in Worker |-> pc'[w]]
                   /\ seen' = [w \in Worker |-> seen'[w]]
                   /\ run' = [w \in Worker |-> run'[w]]
<1>1. ASSUME NEW v \in Worker, Script(v) PROVE Fine
  BY <1>0, <1>1 DEF Script, Submit, Admit, Refused, Start, Finish, Answer, End, Advance
<1>2. ASSUME NEW v \in Worker, Die(v) \/ Group(v) \/ UnitEnds(v) PROVE Fine
  BY <1>0, <1>2 DEF Die, End, Advance, Group, Fork, Spend, Exit, ChildExit, Overrun, Codex, UnitEnds
<1>3. ASSUME NEW v \in Worker, Supervise(v) PROVE Fine
  BY <1>0, <1>3 DEF Supervise, Poll, PollRaises, Leave, StopGroup, StopRaises, Record,
                    RecordRaises, Supervisor
<1>4. CASE Callers \/ Service \/ Reboot
  BY <1>0, <1>4 DEF Callers, Service, Reboot
<1> QED
  BY <1>1, <1>2, <1>3, <1>4 DEF Next

\* No two runs begin in one step.
LEMMA OneStarts ==
  ASSUME TypeOK, Next, NEW v \in Worker, NEW w \in Worker, v # w
  PROVE  (Started(v)' => Started(v)) \/ (Started(w)' => Started(w))
<1>0. /\ pc \in [Worker -> Step] /\ seen \in [Worker -> Nat] /\ run \in [Worker -> Run]
  BY DEF TypeOK
<1> DEFINE Same(x) == pc'[x] = pc[x] /\ run'[x] = run[x]
<1>1. ASSUME NEW u \in Worker, NEW x \in Worker, u # x,
             Script(u) \/ Die(u) \/ Group(u) \/ Supervise(u) \/ UnitEnds(u)
      PROVE  Same(x)
  <2>1. CASE Script(u)
    BY <1>0, <1>1, <2>1 DEF Script, Submit, Admit, Refused, Start, Finish, Answer, End, Advance
  <2>2. CASE Die(u) \/ Group(u) \/ UnitEnds(u)
    BY <1>0, <1>1, <2>2 DEF Die, End, Advance, Group, Fork, Spend, Exit, ChildExit, Overrun,
                            Codex, UnitEnds
  <2>3. CASE Supervise(u)
    BY <1>0, <1>1, <2>3 DEF Supervise, Poll, PollRaises, Leave, StopGroup, StopRaises,
                            Record, RecordRaises, Supervisor
  <2> QED
    BY <1>1, <2>1, <2>2, <2>3
<1>2. CASE Callers \/ Service
  BY <1>2 DEF Callers, Service, Started
<1>3. CASE Reboot
  <2>1. pc'[v] = "end" /\ run'[v] = Killed(run[v]) /\ run[v] \in Run
    BY <1>0, <1>3 DEF Reboot
  <2>2. run'[v].phase # "none" => run[v].phase # "none"
    BY <2>1, KilledRun
  <2> QED
    BY <2>1, <2>2 DEF Started
<1>4. ASSUME NEW u \in Worker,
             Script(u) \/ Die(u) \/ Group(u) \/ Supervise(u) \/ UnitEnds(u)
      PROVE  Same(v) \/ Same(w)
  BY <1>1, <1>4
<1> QED
  BY <1>2, <1>3, <1>4 DEF Next, Started

LEMMA SystemStays ==
  ASSUME TypeOK, Next
  PROVE  late' \subseteq Contract /\ serving' \in BOOLEAN
<1>0. late \subseteq Contract /\ serving \in BOOLEAN
  BY DEF TypeOK, ControllerTypeOK
<1>1. ASSUME NEW w \in Worker, Script(w)
      PROVE  late' \subseteq Contract /\ serving' \in BOOLEAN
  BY <1>0, <1>1 DEF Script, Submit, Admit, Refused, Start, Finish, Answer, End, Advance, controller
<1>2. ASSUME NEW w \in Worker, Die(w) \/ Group(w) \/ Supervise(w) \/ UnitEnds(w)
      PROVE  late' \subseteq Contract /\ serving' \in BOOLEAN
  BY <1>0, <1>2 DEF Die, Group, Fork, Spend, Exit, ChildExit, Overrun, Codex, UnitEnds,
                    Supervise, Poll, PollRaises, Leave, StopGroup, StopRaises, Record,
                    RecordRaises, Supervisor, controller
<1>3. CASE Callers
  BY <1>0, <1>3 DEF Callers, Cancel, Request, ChargeByHand
<1>4. CASE Service \/ Reboot
  <2>1. \A w \in Worker : C(w) \in Contract
    BY DEF TypeOK, C
  <2> QED
    BY <1>0, <1>4, <2>1 DEF Service, Recover, DeadlinePasses, Serve, Stop, Reboot
<1> QED
  BY <1>1, <1>2, <1>3, <1>4 DEF Next

LEMMA StepKeeps ==
  ASSUME RunInvariant, Next
  PROVE  RunInvariant'
<1>1. /\ Growth
      /\ \A c \in Contract : task[c] = None => task'[c] = None \/ Appeared(c)
      /\ \A w \in Worker : Keeps(w)
  BY TasksKeep, RunsKeep
<1>2. TypeOK'
  <2>1. late' \subseteq Contract /\ serving' \in BOOLEAN
    BY SystemStays DEF RunInvariant
  <2>2. \A w \in Worker : pc'[w] \in Step /\ seen'[w] \in Nat /\ run'[w] \in Run
    BY <1>1 DEF Keeps
  <2>3. /\ pc' = [w \in Worker |-> pc'[w]]
        /\ seen' = [w \in Worker |-> seen'[w]]
        /\ run' = [w \in Worker |-> run'[w]]
    BY FunctionsStay DEF RunInvariant
  <2>4. /\ pc' \in [Worker -> Step] /\ seen' \in [Worker -> Nat] /\ run' \in [Worker -> Run]
    BY <2>2, <2>3
  <2>5. task' \in [Contract -> Row \cup {None}] /\ given' \in [Worker -> Contract]
    BY <1>1 DEF Growth, RunInvariant, TypeOK
  <2> QED
    BY <2>1, <2>4, <2>5 DEF TypeOK, ControllerTypeOK
<1>3. Unique'
  <2> SUFFICES ASSUME NEW c \in Contract, NEW d \in Contract, Present(c)', Present(d)'
               PROVE  ~Clash(c, d)
    BY DEF Unique, Clash
  <2>1. CASE Present(c) /\ Present(d)
    BY <2>1 DEF RunInvariant, Unique
  <2>2. CASE ~Present(c) \/ ~Present(d)
    <3>1. PICK e \in {c, d} : Appeared(e)
      BY <1>1, <2>2 DEF Present
    <3>2. \A f \in Contract : f # e => task'[f] = task[f] /\ ~(Present(f) /\ Clash(e, f))
      BY <3>1 DEF Appeared
    <3>3. CASE c = d
      BY <3>3 DEF Clash
    <3>4. CASE c # d
      <4>1. Clash(c, d) <=> Clash(d, c)
        BY DEF Clash
      <4> QED
        BY <3>2, <3>4, <4>1 DEF Present
    <3> QED
      BY <3>3, <3>4
  <2> QED
    BY <2>1, <2>2
<1>4. Unmoved'
  <2> SUFFICES ASSUME NEW c \in Contract, Present(c)'
               PROVE  task'[c].state = "RECEIVED" <=> task'[c].version = 0
    BY DEF Unmoved
  <2>1. CASE Present(c)
    <3>1. Grown(c) /\ (task[c].state = "RECEIVED" <=> task[c].version = 0)
      BY <1>1, <2>1 DEF Growth, RunInvariant, Unmoved
    <3>2. task[c].version \in Nat /\ task'[c].version \in Nat
      BY <2>1, <3>1 DEF Present, RunInvariant, TypeOK, ControllerTypeOK, Grown, Row
    <3> QED
      BY <3>1, <3>2 DEF Grown
  <2>2. CASE ~Present(c)
    BY <1>1, <2>2, NewRowIsRow DEF Present, Appeared
  <2> QED
    BY <2>1, <2>2
<1>5. Alone'
  <2> SUFFICES ASSUME NEW v \in Worker, NEW w \in Worker, v # w, Started(v)', Started(w)'
               PROVE  Key[C(v)] # Key[C(w)]
    BY <1>1 DEF Alone, Growth, C
  <2>1. /\ Started(v) \/ (Present(C(v)) /\ task[C(v)].version = 0)
        /\ Started(w) \/ (Present(C(w)) /\ task[C(w)].version = 0)
    BY <1>1 DEF Keeps
  <2>2. CASE Started(v) /\ Started(w)
    BY <2>2 DEF RunInvariant, Alone
  <2>3. ASSUME NEW x \in {v, w}, NEW y \in {v, w}, x # y, Started(x), ~Started(y),
               Present(C(y)), task[C(y)].version = 0
        PROVE  Key[C(x)] # Key[C(y)]
    <3>1. Present(C(x)) /\ task[C(x)].version >= 1 /\ task[C(x)] \in Row
      BY <2>3, RunShapes DEF RunInvariant, ScriptOK, Present
    <3>2. C(x) # C(y)
      BY <2>3, <3>1
    <3>3. C(x) \in Contract /\ C(y) \in Contract
      BY RunShapes DEF RunInvariant
    <3> QED
      BY <2>3, <3>1, <3>2, <3>3 DEF RunInvariant, Unique, Clash
  <2>4. Started(v) \/ Started(w)
    BY OneStarts DEF RunInvariant
  <2> QED
    BY <2>1, <2>2, <2>3, <2>4
<1> QED
  BY <1>1, <1>2, <1>3, <1>4, <1>5 DEF RunInvariant, Keeps

LEMMA RunsAlways == Spec => []RunInvariant
<1>1. Init => RunInvariant
  BY InitialRuns
<1>2. RunInvariant /\ [Next]_vars => RunInvariant'
  <2> SUFFICES ASSUME RunInvariant, UNCHANGED vars PROVE RunInvariant'
    BY StepKeeps
  <2>1. /\ task' = task /\ late' = late /\ serving' = serving /\ given' = given
        /\ pc' = pc /\ seen' = seen /\ run' = run
    BY DEF vars, controller
  <2> QED
    BY <2>1 DEF RunInvariant, TypeOK, ControllerTypeOK, Unique, Unmoved, Alone, ScriptOK,
                Started, Present, C
<1> QED
  BY <1>1, <1>2, PTL DEF Spec

\* Every variable keeps its shape; a row has never more attempts than its contract
\* allows (transition, MAX_ITERATIONS).
THEOREM WorkerTypes == Spec => []TypeOK
<1>1. RunInvariant => TypeOK
  BY DEF RunInvariant
<1> QED
  BY <1>1, RunsAlways, PTL

\* However often a contract is sent, one idempotency key is executed at most once
\* (submit and run-codex-worker.sh).
THEOREM KeyExecutesOnce == Spec => []ExecutesOnce
<1>1. RunInvariant => ExecutesOnce
  BY DEF RunInvariant, Alone, Started, ExecutesOnce
<1> QED
  BY <1>1, RunsAlways, PTL

\* A task that has ended stays as it ended (TERMINAL).
THEOREM EndIsFinal == Spec => EndsForGood
<1> DEFINE Final == \A c \in Contract : Present(c) /\ task[c].state \in Terminal =>
                      /\ task'[c] # None
                      /\ task'[c].state = task[c].state
                      /\ task'[c].version = task[c].version
<1>1. RunInvariant /\ [Next]_vars => [Final]_controller
  <2>1. ASSUME RunInvariant, Next PROVE Final
    BY <2>1, TasksKeep DEF Growth, Grown
  <2> QED
    BY <2>1 DEF vars
<1> QED
  BY <1>1, RunsAlways, PTL DEF Spec, EndsForGood

-----------------------------------------------------------------------------
(* Evidence *)

\* Of all steps a run's script takes, only its last enters EVIDENCE_PENDING.
LEMMA OnlyTheEndEnters ==
  ASSUME RunInvariant, Next, NEW w \in Worker, pc'[w] # pc[w], EntersEvidence(C(w))
  PROVE  Finish(w) /\ task' # task
<1>0. /\ pc \in [Worker -> Step] /\ task \in [Contract -> Row \cup {None}]
      /\ C(w) \in Contract
      /\ task' # task
  BY RunShapes DEF RunInvariant, TypeOK, ControllerTypeOK, EntersEvidence
<1>1. ASSUME NEW v \in Worker, Script(v), v # w PROVE FALSE
  BY <1>0, <1>1 DEF Script, Submit, Admit, Refused, Start, Finish, Answer, End, Advance
<1>2. ASSUME NEW v \in Worker, Die(v) \/ Group(v) \/ Supervise(v) \/ UnitEnds(v)
      PROVE  FALSE
  BY <1>0, <1>2 DEF Die, Group, Fork, Spend, Exit, ChildExit, Overrun, Codex, UnitEnds,
                    Supervise, Poll, PollRaises, Leave, StopGroup, StopRaises, Record,
                    RecordRaises, Supervisor, controller
<1>3. ASSUME Callers \/ Service \/ Reboot PROVE FALSE
  BY <1>0, <1>3 DEF Callers, Service, Reboot
<1>4. ASSUME Submit(w) PROVE FALSE
  <2>1. task' = [task EXCEPT ![C(w)] = task[C(w)]]
    BY <1>4 DEF Submit, Submitted, EntersEvidence
  <2> QED
    BY <1>0, <2>1
<1>5. ASSUME Admit(w) PROVE FALSE
  <2>1. /\ Permitted(C(w), task[C(w)].version, pc[w]) /\ task' = Transitioned(C(w), pc[w])
        /\ pc[w] \in DOMAIN Admission
    BY <1>5 DEF Admit, Permitted
  <2>2. task'[C(w)].state \in {"FAILED_BUDGET", "FAILED_TIMEOUT", "FAILED_STAGNATION", pc[w]}
    BY <1>0, <2>1, TransitionedRow, AdmissionSteps
  <2> QED
    BY <2>1, <2>2, AdmissionSteps DEF EntersEvidence
<1>6. ASSUME Refused(w) \/ Start(w) PROVE FALSE
  BY <1>0, <1>6 DEF Refused, Start, controller
<1> QED
  BY <1>0, <1>1, <1>2, <1>3, <1>4, <1>5, <1>6 DEF Next, Script

\* A transition that enters EVIDENCE_PENDING passed the limits.
LEMMA EvidenceWithinLimits ==
  ASSUME task \in [Contract -> Row \cup {None}], NEW c \in Contract, NEW target,
         Permitted(c, task[c].version, target), task' = Transitioned(c, target),
         EntersEvidence(c)
  PROVE  /\ target = "EVIDENCE_PENDING" /\ task[c].tokens < MaxTokens /\ c \notin late
<1>1. target \in TaskState /\ task[c] \in Row
  BY TargetStates
<1>2. Entered(c, target) = "EVIDENCE_PENDING"
  BY <1>1, TransitionedRow DEF EntersEvidence
<1>3. ~Exhausted(c) /\ c \notin late /\ target = "EVIDENCE_PENDING"
  BY <1>2 DEF Entered
<1> QED
  BY <1>1, <1>3, ControllerAssumption DEF Exhausted, Row

\* A run whose end may be evidence was ended by Codex, with success.
LEMMA EvidenceAfterSuccess ==
  ASSUME NEW r \in Run, r.phase \in {"done", "raised"}, "EVIDENCE_PENDING" \in Ends(r)
  PROVE  r.phase = "done" /\ r.reason = "exited" /\ r.code = 0
<1>1. Status(r) = 0 /\ r.reason \in Reason
  BY DEF Ends, Run
<1> QED
  BY <1>1 DEF Status, Reason

\* The script asks for evidence only of a run that Codex ended itself, with
\* success, before the deadline, and within a budget that all it spent was
\* charged to, whatever was asked for and recorded by hand before (supervise,
\* run-codex-worker.sh, transition, record_usage).
THEOREM EvidenceIsEarned == Spec => EvidenceEarned
<1> DEFINE Earned(w) ==
      /\ run[w].phase = "done" /\ run[w].reason = "exited" /\ run[w].code = 0
      /\ run[w].spent <= task[C(w)].tokens /\ task[C(w)].tokens < MaxTokens
      /\ C(w) \notin late
<1>1. ASSUME RunInvariant, Next, NEW w \in Worker, pc'[w] # pc[w], EntersEvidence(C(w))
      PROVE  Earned(w)
  <2>1. Finish(w) /\ task' # task
    BY <1>1, OnlyTheEndEnters
  <2>2. PICK target \in Ends(run[w]) :
          Permitted(C(w), seen[w], target) /\ task' = Transitioned(C(w), target)
    BY <2>1 DEF Finish
  <2>3. Permitted(C(w), task[C(w)].version, target)
    BY <2>2 DEF Permitted
  <2>4. /\ target = "EVIDENCE_PENDING" /\ task[C(w)].tokens < MaxTokens /\ C(w) \notin late
    BY <1>1, <2>2, <2>3, RunShapes, EvidenceWithinLimits
    DEF RunInvariant, TypeOK, ControllerTypeOK
  <2>5. run[w].phase = "done" /\ run[w].reason = "exited" /\ run[w].code = 0
    BY <1>1, <2>1, <2>2, <2>4, RunShapes, EvidenceAfterSuccess DEF Finish, RunInvariant
  <2>6. run[w].spent <= task[C(w)].tokens
    BY <1>1, <2>5 DEF RunInvariant, ScriptOK
  <2> QED
    BY <2>4, <2>5, <2>6
<1>2. RunInvariant /\ [Next]_vars =>
        [\A w \in Worker : pc'[w] # pc[w] /\ EntersEvidence(C(w)) => Earned(w)]_vars
  BY <1>1
<1> QED
  BY <1>2, RunsAlways, PTL DEF Spec, EvidenceEarned
=============================================================================
