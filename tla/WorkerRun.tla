----------------------------- MODULE WorkerRun ------------------------------
(***************************************************************************)
(* One execution of a contract: scripts/run-codex-worker.sh, the           *)
(* supervisor it runs Codex under (process_supervisor.py), and the task    *)
(* controller both ask.  A routed run is started by project_router.py in a *)
(* systemd unit of its own; any other run is started directly, with the    *)
(* contract on its standard input, and nothing looks after what it leaves. *)
(*                                                                         *)
(* The script, the supervisor, the process group of Codex, the controller  *)
(* service and its other callers are separate processes and interleave at  *)
(* every request.  Any of them may die; the service may die after it has   *)
(* committed a request and before it answers.                              *)
(***************************************************************************)
EXTENDS TaskController

CONSTANTS
  Worker,        \* runs of the worker script
  Routed,        \* those that project_router.py starts
  ExitCode,      \* the exit codes Codex may end with
  ByHand         \* the targets the builder identity asks for by hand

ASSUME WorkerAssumption ==
  /\ Routed \subseteq Worker
  /\ ExitCode \subseteq Nat
  /\ ByHand \subseteq BuilderTargets

VARIABLES
  given,  \* [Worker -> Contract], the contract a run is given
  pc,     \* [Worker -> step], where the script is
  seen,   \* [Worker -> Nat], task_version in the script, 0 once it has ended
  run     \* [Worker -> Run], its supervisor and the process group

vars == <<controller, given, pc, seen, run>>

-----------------------------------------------------------------------------
(* What a run is made of *)

\* The transitions the script asks for before it starts Codex, each with the
\* step after it.
Admission ==
  [AUTHORIZED |-> "NORMALIZED", NORMALIZED |-> "PLANNED", PLANNED |-> "QUEUED",
   QUEUED |-> "LEASED", LEASED |-> "RUNNING", RUNNING |-> "prepare"]

Step == {"submit", "prepare", "wait", "end"} \cup DOMAIN Admission

Reason == {"exited", "cancelled", "controller_state_changed", "timeout", "budget"}

\* phase: the supervisor does not run, polls, is about to stop the group,
\* waits for the leader, has recorded the usage, or has died, of an exception
\* or with its unit.  group: the live members of the process group, Codex
\* itself and what it started.  overtime: it polls, and timeout_seconds are over.
Run == [phase : {"none", "poll", "stop", "wait", "done", "raised"},
        reason : Reason, group : SUBSET {"codex", "child"},
        code : ExitCode \cup {None}, spent : Nat, overtime : BOOLEAN]

NoRun == [phase |-> "none", reason |-> "exited", group |-> {}, code |-> None,
          spent |-> 0, overtime |-> FALSE]

C(w) == given[w]

\* The script goes on to a step, with the version it knows.
Advance(w, step, version) ==
  /\ pc' = [pc EXCEPT ![w] = step]
  /\ seen' = [seen EXCEPT ![w] = IF step = "end" THEN 0 ELSE version]

End(w) == Advance(w, "end", 0)

\* The script gets its answer, or ends because the service died without one.
Answer(w, step, version) ==
  \/ Advance(w, step, version) /\ UNCHANGED serving
  \/ End(w) /\ serving' = FALSE

-----------------------------------------------------------------------------
(* The script: set -e ends it at the first command that fails *)

\* A duplicate of a task that has moved on is not executed.
Submit(w) ==
  /\ pc[w] = "submit"
  /\ serving /\ Acceptable(C(w))
  /\ LET row == Submitted(C(w)) IN
     /\ task' = [task EXCEPT ![C(w)] = row]
     /\ Answer(w, IF row.state = "RECEIVED" THEN "AUTHORIZED" ELSE "end", row.version)
  /\ UNCHANGED <<late, run>>

\* The script goes on only if the state is the one it asked for.
Admit(w) ==
  /\ pc[w] \in DOMAIN Admission
  /\ serving /\ Permitted(C(w), seen[w], pc[w])
  /\ task' = Transitioned(C(w), pc[w])
  /\ Answer(w, IF Entered(C(w), pc[w]) = pc[w] THEN Admission[pc[w]] ELSE "end",
            seen[w] + 1)
  /\ UNCHANGED <<late, run>>

Refused(w) ==
  /\ \/ pc[w] = "submit" /\ ~(serving /\ Acceptable(C(w)))
     \/ pc[w] \in DOMAIN Admission /\ ~(serving /\ Permitted(C(w), seen[w], pc[w]))
  /\ End(w)
  /\ UNCHANGED <<controller, run>>

\* The workspace is copied and the supervisor starts Codex.
Start(w) ==
  /\ pc[w] = "prepare"
  /\ Advance(w, "wait", seen[w])
  /\ run' = [run EXCEPT ![w] = [@ EXCEPT !.phase = "poll", !.group = {"codex"}]]
  /\ UNCHANGED controller

\* Killed, or a command of the script that is not a request failed.
Die(w) ==
  /\ pc[w] # "end"
  /\ End(w)
  /\ UNCHANGED <<controller, run>>

\* Fault: only a stop the controller asked for has a code of its own.
StatusOfChild(r) ==
  IF r.phase = "raised" THEN 77
  ELSE IF r.reason \in {"cancelled", "controller_state_changed"} THEN 130
  ELSE r.code

\* The exit code of the supervisor: what Codex ended with counts only when
\* nothing stopped it.
Status(r) ==
  IF r.phase = "raised" THEN 77
  ELSE CASE r.reason \in {"cancelled", "controller_state_changed"} -> 130
         [] r.reason = "timeout" -> 124
         [] r.reason = "budget" -> 78
         [] r.reason = "exited" -> r.code

\* The end the script asks for: of a run that went well, what the path check
\* and the artifact builder say decides.
Ends(r) ==
  CASE Status(r) = 130 -> {}
    [] Status(r) = 124 -> {"FAILED_TIMEOUT"}
    [] Status(r) = 78  -> {"FAILED_BUDGET"}
    [] Status(r) = 0   -> {"EVIDENCE_PENDING", "FAILED_GATE"}
    [] OTHER           -> {"FAILED_PERMANENT"}

Finish(w) ==
  /\ pc[w] = "wait" /\ run[w].phase \in {"done", "raised"}
  /\ End(w)
  /\ \/ \E target \in Ends(run[w]) :
          /\ serving /\ Permitted(C(w), seen[w], target)
          /\ task' = Transitioned(C(w), target)
     \/ /\ ~\E target \in Ends(run[w]) : serving /\ Permitted(C(w), seen[w], target)
        /\ UNCHANGED task
  /\ UNCHANGED <<late, serving, run>>

-----------------------------------------------------------------------------
(* Codex and what it starts *)

Codex(w, r) == run' = [run EXCEPT ![w] = r] /\ UNCHANGED <<controller, pc, seen>>

Fork(w) ==
  /\ "codex" \in run[w].group
  /\ Codex(w, [run[w] EXCEPT !.group = @ \cup {"child"}])

Spend(w) ==
  /\ "codex" \in run[w].group /\ run[w].spent < MaxTokens
  /\ Codex(w, [run[w] EXCEPT !.spent = @ + 1])

Exit(w) ==
  /\ "codex" \in run[w].group
  /\ \E code \in ExitCode :
       Codex(w, [run[w] EXCEPT !.group = @ \ {"codex"}, !.code = code])

ChildExit(w) ==
  /\ "child" \in run[w].group
  /\ Codex(w, [run[w] EXCEPT !.group = @ \ {"child"}])

\* timeout_seconds go by.
Overrun(w) ==
  /\ run[w].phase = "poll" /\ ~run[w].overtime
  /\ Codex(w, [run[w] EXCEPT !.overtime = TRUE])

-----------------------------------------------------------------------------
(* The supervisor *)

Supervisor(w, r) ==
  run' = [run EXCEPT ![w] = r] /\ UNCHANGED <<task, late, pc, seen>>

\* The polling is over, and with it the time that was kept for it.
Over(r, phase) == [r EXCEPT !.phase = phase, !.overtime = FALSE]

\* Fault: a run is never stopped for its time.
GroundsUntimed(w) ==
  CASE task[C(w)].state = "CANCELLED" -> {"cancelled"}
    [] task[C(w)].state \notin {"RUNNING", "CANCELLED"} -> {"controller_state_changed"}
    [] task[C(w)].state = "RUNNING" /\ run[w].spent >= MaxTokens -> {"budget"}
    [] OTHER -> {}

\* What a poll stops the group for, if anything: the first that applies.
Grounds(w) ==
  CASE task[C(w)].state = "CANCELLED" -> {"cancelled"}
    [] task[C(w)].state \notin {"RUNNING", "CANCELLED"} -> {"controller_state_changed"}
    [] task[C(w)].state = "RUNNING" /\ run[w].overtime -> {"timeout"}
    [] task[C(w)].state = "RUNNING" /\ ~run[w].overtime
       /\ run[w].spent >= MaxTokens -> {"budget"}
    [] OTHER -> {}

Poll(w) ==
  /\ run[w].phase = "poll" /\ "codex" \in run[w].group /\ serving
  /\ \E reason \in Grounds(w) :
       Supervisor(w, [Over(run[w], "stop") EXCEPT !.reason = reason])
  /\ UNCHANGED serving

\* No answer: the exception leaves supervise, and the group as it is.
PollRaises(w) ==
  /\ run[w].phase = "poll" /\ "codex" \in run[w].group /\ ~serving
  /\ Supervisor(w, Over(run[w], "raised"))
  /\ UNCHANGED serving

\* Codex has ended by itself; the rest of its group is not looked at.
Leave(w) ==
  /\ run[w].phase = "poll" /\ "codex" \notin run[w].group
  /\ Supervisor(w, Over(run[w], "wait"))
  /\ UNCHANGED serving

\* TERM, then KILL, to the whole group.  Codex may answer TERM with any code.
StopGroup(w) ==
  /\ run[w].phase = "stop"
  /\ \E code \in IF "codex" \in run[w].group THEN ExitCode ELSE {run[w].code} :
       Supervisor(w, [run[w] EXCEPT !.phase = "wait", !.group = {}, !.code = code])
  /\ UNCHANGED serving

\* A member is still there when the time for KILL is up.
StopRaises(w) ==
  /\ run[w].phase = "stop" /\ run[w].group # {}
  /\ Supervisor(w, [run[w] EXCEPT !.phase = "raised"])
  /\ UNCHANGED serving

\* The usage is recorded once, and once more by nobody if the answer is lost.
Record(w) ==
  /\ run[w].phase = "wait" /\ serving
  /\ task' = Charged(C(w), run[w].spent)
  /\ \/ UNCHANGED serving /\ run' = [run EXCEPT ![w].phase = "done"]
     \/ serving' = FALSE /\ run' = [run EXCEPT ![w].phase = "raised"]
  /\ UNCHANGED <<late, pc, seen>>

RecordRaises(w) ==
  /\ run[w].phase = "wait" /\ ~serving
  /\ Supervisor(w, [run[w] EXCEPT !.phase = "raised"])
  /\ UNCHANGED serving

Supervise(w) ==
  \/ Poll(w) \/ PollRaises(w) \/ Leave(w)
  \/ StopGroup(w) \/ StopRaises(w)
  \/ Record(w) \/ RecordRaises(w)

-----------------------------------------------------------------------------
(* The machine *)

\* All that is left of a run is that it took place.
Killed(r) == [NoRun EXCEPT !.phase = IF r.phase = "none" THEN "none" ELSE "raised"]

\* systemd ends what is left of the unit when the script of a routed run ended.
UnitEnds(w) ==
  /\ w \in Routed /\ pc[w] = "end" /\ run[w] # Killed(run[w])
  /\ run' = [run EXCEPT ![w] = Killed(@)]
  /\ UNCHANGED <<controller, pc, seen>>

Reboot ==
  /\ serving' = FALSE
  /\ pc' = [w \in Worker |-> "end"]
  /\ seen' = [w \in Worker |-> 0]
  /\ run' = [w \in Worker |-> Killed(run[w])]
  /\ UNCHANGED <<task, late>>

-----------------------------------------------------------------------------
(* The specification *)

Init ==
  /\ ControllerInit
  /\ given \in [Worker -> Contract]
  /\ pc = [w \in Worker |-> "submit"]
  /\ seen = [w \in Worker |-> 0]
  /\ run = [w \in Worker |-> NoRun]

Script(w) ==
  Submit(w) \/ Admit(w) \/ Refused(w) \/ Start(w) \/ Finish(w)

Group(w) == Fork(w) \/ Spend(w) \/ Exit(w) \/ ChildExit(w) \/ Overrun(w)

Callers ==
  /\ \E c \in Contract : \/ Cancel(c) \/ ChargeByHand(c)
                         \/ Request(c, ByHand) \/ Request(c, EvaluatorTargets)
  /\ UNCHANGED <<pc, seen, run>>

\* Of the contracts, those a run was given.
Service ==
  /\ (\E w \in Worker : Recover(C(w)) \/ DeadlinePasses(C(w))) \/ Serve \/ Stop
  /\ UNCHANGED <<pc, seen, run>>

Next ==
  /\ \/ \E w \in Worker :
          Script(w) \/ Die(w) \/ Group(w) \/ Supervise(w) \/ UnitEnds(w)
     \/ Callers \/ Service \/ Reboot
  /\ UNCHANGED given

\* The script and the supervisor are never stalled for ever, systemd ends a
\* unit whose script has ended, and time passes.
Fairness ==
  \A w \in Worker :
    /\ WF_vars(Script(w) /\ UNCHANGED given)
    /\ WF_vars(Supervise(w) /\ UNCHANGED given)
    /\ WF_vars(UnitEnds(w) /\ UNCHANGED given)
    /\ WF_vars(Overrun(w) /\ UNCHANGED given)

Spec == Init /\ [][Next]_vars /\ Fairness

-----------------------------------------------------------------------------
(* Properties *)

TypeOK ==
  /\ ControllerTypeOK
  /\ given \in [Worker -> Contract]
  /\ pc \in [Worker -> Step]
  /\ seen \in [Worker -> Nat]
  /\ run \in [Worker -> Run]

\* However often a contract is sent, and whatever fails, one idempotency key
\* is executed at most once (submit; "refusing duplicate execution",
\* run-codex-worker.sh).
ExecutesOnce ==
  \A v, w \in Worker : v # w /\ run[v].phase # "none" /\ run[w].phase # "none" =>
    Key[C(v)] # Key[C(w)]

EntersEvidence(c) ==
  /\ Present(c) /\ task[c].state # "EVIDENCE_PENDING"
  /\ task'[c].state = "EVIDENCE_PENDING"

\* The script of a run asks for evidence only when Codex ended the run itself,
\* with success, before the deadline, and when the row accounts for all the run
\* spent and is within its budget, whoever else recorded usage or asked for
\* transitions until then (supervise, process_supervisor.py).
EvidenceEarned ==
  [][\A w \in Worker :
       pc'[w] # pc[w] /\ EntersEvidence(C(w)) =>
         /\ run[w].phase = "done" /\ run[w].reason = "exited" /\ run[w].code = 0
         /\ run[w].spent <= task[C(w)].tokens /\ task[C(w)].tokens < MaxTokens
         /\ C(w) \notin late]_vars

\* Codex does not run for ever under a supervisor that still has its answers,
\* whoever started the run; and of a routed run no process stays for ever, for a
\* group its supervisor dies over, or does not look at, goes with the unit.
GroupsEnd ==
  \A w \in Worker :
    /\ "codex" \in run[w].group ~> "codex" \notin run[w].group \/ run[w].phase = "raised"
    /\ w \in Routed => (run[w].group # {} ~> run[w].group = {})
=============================================================================
