-------------------------- MODULE TestContainment ---------------------------
(***************************************************************************)
(* One required test of a candidate (control_plane/artifact_builder.py).   *)
(* The builder starts a supervisor, which makes itself the subreaper of    *)
(* everything below it and starts the test command; the command may fork,  *)
(* leave orphans behind, and write to the workspace.                       *)
(*                                                                         *)
(* Builder, supervisor and the processes of the test interleave at every   *)
(* system call.  The supervisor may be told to stop at any time, by the    *)
(* builder or by somebody else, and may be killed.                         *)
(***************************************************************************)
EXTENDS Naturals, FiniteSets

CONSTANTS
  Proc,       \* bound: the processes the test may make
  Command,    \* the first of them, the shell the command runs in
  ExitCode,   \* what the command may end with
  Success,    \* the exit code 0
  MaxFaults,  \* bound: a lost child, a signal refused, the supervisor killed
  None

ASSUME ContainmentAssumption ==
  /\ Command \in Proc
  /\ Success \in ExitCode
  /\ None \notin ExitCode \cup Proc \cup {"killed"}
  /\ {"supervisor", "init"} \cap Proc = {}
  /\ {"killed", "stopped", "refused", "uncontained"} \cap ExitCode = {}
  /\ MaxFaults \in Nat

VARIABLES
  proc,     \* [Proc -> [life, parent]], the process table
  ended,    \* how the command ended: its exit code, or killed
  clean,    \* the workspace is exactly the candidate
  sup,      \* the supervisor
  builder,  \* the builder
  faults

vars == <<proc, ended, clean, sup, builder, faults>>

-----------------------------------------------------------------------------
(* What there is *)

Life == {"unborn", "running", "stopped", "zombie", "gone"}

Parent == Proc \cup {"supervisor", "init", None}

\* The steps of the supervisor, in their order; "over" has left a status,
\* "killed" has not.
Phase == {"boot", "spawn", "poll", "look", "drain", "weigh", "sweep", "stop",
          "kill", "reap", "prove", "report", "over", "killed"}

\* stop: SIGTERM was caught; children: what it has seen of its children; todo:
\* those still to signal; drained: waitpid said ECHILD; code: the returncode of
\* the command; late: the deadline of the cleanup is over; failed: the cleanup
\* is not proved.
Supervisor ==
  [phase : Phase, stop : BOOLEAN, children : SUBSET Proc, todo : SUBSET Proc,
   drained : BOOLEAN, code : ExitCode \cup {"killed", None},
   leaked : BOOLEAN, late : BOOLEAN, failed : BOOLEAN]

\* uncontained: RequiredTestContainmentFailure; stopped: over the time or
\* output limit; refused: any other error.
Answer == ExitCode \cup {"killed", "stopped", "refused", "uncontained"}

Builder == [phase : {"read", "await", "check", "done"},
            answer : Answer \cup {None}, recorded : BOOLEAN]

TypeOK ==
  /\ proc \in [Proc -> [life : Life, parent : Parent]]
  /\ ended \in ExitCode \cup {"killed", None}
  /\ clean \in BOOLEAN
  /\ sup \in Supervisor
  /\ builder \in Builder
  /\ faults \in 0..MaxFaults

Alive == {p \in Proc : proc[p].life \in {"running", "stopped"}}

Running(p) == proc[p].life = "running"

\* Also those that are to be waited for.
Children == {p \in Proc : proc[p].parent = "supervisor" /\ proc[p].life \notin {"unborn", "gone"}}

Supervising == sup.phase \notin {"over", "killed"}

At(phase) == sup.phase = phase

-----------------------------------------------------------------------------
(* Processes *)

\* Fault: without PR_SET_CHILD_SUBREAPER orphans go to init.
InitAdopts == "init"

\* Who gets the orphans.
Adopter == IF Supervising THEN "supervisor" ELSE "init"

Adopted(p, heir) == [p EXCEPT !.parent = heir, !.life = IF heir = "init" /\ @ = "zombie"
                                                        THEN "gone" ELSE @]

\* The process table after p ended, or was killed: its children are orphans.
Ended(p) ==
  [q \in Proc |-> IF q = p
     THEN [proc[q] EXCEPT !.life = IF @ # "zombie" /\ proc[q].parent = "init"
                                   THEN "gone" ELSE "zombie"]
     ELSE IF proc[q].parent = p THEN Adopted(proc[q], Adopter) ELSE proc[q]]

\* The process table after the supervisor is gone.
Orphaned ==
  [q \in Proc |-> IF proc[q].parent = "supervisor" THEN Adopted(proc[q], "init") ELSE proc[q]]

\* A process that was waited for.
Waited(procs) ==
  [q \in Proc |-> IF q \in procs /\ proc[q].life = "zombie"
                  THEN [proc[q] EXCEPT !.life = "gone"] ELSE proc[q]]

Fork(p, q) ==
  /\ Running(p) /\ proc[q].life = "unborn" /\ q # Command
  /\ proc' = [proc EXCEPT ![q] = [life |-> "running", parent |-> p]]
  /\ UNCHANGED <<ended, clean, sup, builder, faults>>

Exit(p) ==
  /\ Running(p)
  /\ proc' = Ended(p)
  /\ IF p = Command THEN ended' \in ExitCode ELSE UNCHANGED ended
  /\ UNCHANGED <<clean, sup, builder, faults>>

\* A parent waits for its child.
Collect(p, q) ==
  /\ Running(p) /\ proc[q].parent = p /\ proc[q].life = "zombie"
  /\ proc' = Waited({q})
  /\ UNCHANGED <<ended, clean, sup, builder, faults>>

\* SIGCONT, of a process the supervisor has not stopped yet.
Continue(p, q) ==
  /\ Running(p) /\ proc[q].life = "stopped"
  /\ proc' = [proc EXCEPT ![q].life = "running"]
  /\ UNCHANGED <<ended, clean, sup, builder, faults>>

\* Writes to the workspace, or undoes what was written.
Touch(p) ==
  /\ Running(p)
  /\ clean' = ~clean
  /\ UNCHANGED <<proc, ended, sup, builder, faults>>

\* Fault: a waitpid that finds nothing to wait for has proved something.
NoneWaitable == TRUE

\* Fault: the cleanup ends at its deadline.
QuietOrLate == sup.late \/ \A p \in Children : proc[p].life = "zombie"

\* _reap_adopted_children comes to ECHILD: all that is left has ended.
Quiet == \A p \in Children : proc[p].life = "zombie"

-----------------------------------------------------------------------------
(* The supervisor: _required_test_supervisor *)

Supervise(next) == sup' = next

\* The kernel's list of children may leave some out if others end meanwhile.
Listed(S) ==
  /\ S \subseteq Children
  /\ S = Children \/ faults < MaxFaults
  /\ faults' = IF S = Children THEN faults ELSE faults + 1

\* The subreaper is set and the handlers are installed before the token is read.
Boot ==
  /\ At("boot")
  /\ Supervise([sup EXCEPT !.phase = "spawn"])
  /\ UNCHANGED <<proc, ended, clean, builder, faults>>

Spawn ==
  /\ At("spawn")
  /\ proc' = [proc EXCEPT ![Command] = [life |-> "running", parent |-> "supervisor"]]
  /\ Supervise([sup EXCEPT !.phase = "poll"])
  /\ UNCHANGED <<ended, clean, builder, faults>>

\* The command is polled until it ends, or until the supervisor is to stop.
Poll ==
  /\ At("poll")
  /\ \/ /\ sup.stop
        /\ Supervise([sup EXCEPT !.phase = "look"])
        /\ UNCHANGED proc
     \/ /\ ~sup.stop /\ proc[Command].life = "zombie"
        /\ Supervise([sup EXCEPT !.phase = "look", !.code = ended])
        /\ proc' = Waited({Command})
  /\ UNCHANGED <<ended, clean, builder, faults>>

\* The children are listed, all that ended are waited for, and the children
\* are listed again.
Look(S) ==
  /\ At("look") /\ Listed(S)
  /\ Supervise([sup EXCEPT !.phase = "drain", !.children = S])
  /\ UNCHANGED <<proc, ended, clean, builder>>

Drain ==
  /\ At("drain")
  /\ proc' = Waited(Children)
  /\ Supervise([sup EXCEPT !.phase = "weigh", !.drained = Quiet])
  /\ UNCHANGED <<ended, clean, builder, faults>>

\* Anything left is a leak, unless the supervisor was told to stop.
Weigh(S) ==
  /\ At("weigh") /\ Listed(S)
  /\ LET left == sup.children \cup S # {} \/ ~sup.drained IN
     Supervise([sup EXCEPT !.phase = IF sup.stop \/ left THEN "sweep" ELSE "prove",
                           !.leaked = ~sup.stop /\ left, !.children = {}])
  /\ UNCHANGED <<proc, ended, clean, builder>>

\* Nothing was left: waitpid is asked once more.
Prove ==
  /\ At("prove")
  /\ proc' = Waited(Children)
  /\ Supervise([sup EXCEPT !.phase = "report", !.failed = ~Quiet])
  /\ UNCHANGED <<ended, clean, builder, faults>>

-----------------------------------------------------------------------------
(* _terminate_supervised_descendants *)

\* A generation is stopped, listed again, and killed; the clock is read first.
Sweep(S) ==
  /\ At("sweep") /\ Listed(S)
  /\ \E late \in {sup.late, TRUE} :
       Supervise([sup EXCEPT !.phase = "stop", !.todo = S, !.late = late])
  /\ UNCHANGED <<proc, ended, clean, builder>>

\* Fault: what has ended is waited for between the two lists.
ResweepReaped(S) ==
  /\ At("stop") /\ sup.todo = {} /\ Listed(S)
  /\ Supervise([sup EXCEPT !.phase = "kill", !.todo = S])
  /\ proc' = Waited(Children)
  /\ UNCHANGED <<ended, clean, builder>>

Resweep(S) ==
  /\ At("stop") /\ sup.todo = {} /\ Listed(S)
  /\ Supervise([sup EXCEPT !.phase = "kill", !.todo = S])
  /\ UNCHANGED <<proc, ended, clean, builder>>

\* Each is signalled through a pidfd of its own; one that ended already is none
\* the worse for it.
Signal(p) ==
  /\ sup.phase \in {"stop", "kill"} /\ p \in sup.todo
  /\ Supervise([sup EXCEPT !.todo = @ \ {p}])
  /\ proc' = CASE p \notin Alive -> proc
               [] p \in Alive /\ At("stop") -> [proc EXCEPT ![p].life = "stopped"]
               [] p \in Alive /\ At("kill") -> Ended(p)
  /\ ended' = IF p = Command /\ p \in Alive /\ At("kill") THEN "killed" ELSE ended
  /\ UNCHANGED <<clean, builder, faults>>

\* The signal could not be sent; the cleanup goes on, and fails in the end.
SignalFails(p) ==
  /\ sup.phase \in {"stop", "kill"} /\ p \in sup.todo
  /\ faults < MaxFaults /\ faults' = faults + 1
  /\ Supervise([sup EXCEPT !.todo = @ \ {p}, !.failed = TRUE])
  /\ UNCHANGED <<proc, ended, clean, builder>>

\* What Popen.wait makes of the command: the status of a process somebody else
\* has waited for is lost, and counts as 0.
Returncode ==
  IF sup.code # None THEN sup.code
  ELSE CASE proc[Command].life = "zombie" -> ended
         [] proc[Command].life = "gone" -> Success
         [] proc[Command].life \notin {"zombie", "gone"} -> None

Wait ==
  /\ At("kill") /\ sup.todo = {}
  /\ Supervise([sup EXCEPT !.phase = "reap", !.code = Returncode])
  /\ proc' = Waited({Command})
  /\ UNCHANGED <<ended, clean, builder, faults>>

\* The cleanup goes on until all is quiet; its deadline only makes it fail.
Reap ==
  /\ At("reap")
  /\ proc' = Waited(Children)
  /\ Supervise(IF Quiet THEN [sup EXCEPT !.phase = "report", !.failed = @ \/ sup.late]
               ELSE [sup EXCEPT !.phase = "sweep"])
  /\ UNCHANGED <<ended, clean, builder, faults>>

\* The status is written, and the supervisor ends.
Report ==
  /\ At("report")
  /\ Supervise([sup EXCEPT !.phase = "over"])
  /\ proc' = Orphaned
  /\ UNCHANGED <<ended, clean, builder, faults>>

-----------------------------------------------------------------------------
(* Signals to the supervisor *)

\* SIGTERM: before its handlers are installed the supervisor dies of it.
Terminated ==
  IF At("boot") THEN [sup EXCEPT !.phase = "killed"]
  ELSE IF Supervising THEN [sup EXCEPT !.stop = TRUE] ELSE sup

\* Somebody else tells the supervisor to stop.
Interrupt ==
  /\ Supervising /\ ~sup.stop
  /\ Supervise(Terminated)
  /\ UNCHANGED <<proc, ended, clean, builder, faults>>

Killed ==
  /\ Supervising /\ faults < MaxFaults /\ faults' = faults + 1
  /\ Supervise([sup EXCEPT !.phase = "killed"])
  /\ proc' = Orphaned
  /\ UNCHANGED <<ended, clean, builder>>

-----------------------------------------------------------------------------
(* The builder: _run_bounded_test_command, produce_required_test_results *)

Answers(answer) == builder' = [builder EXCEPT !.phase = "check", !.answer = answer]

\* The supervisor left no status, or says that its cleanup failed.
Unproved == At("killed") \/ sup.failed

\* Time or output is over its limit.
Stop ==
  /\ builder.phase = "read"
  /\ builder' = [builder EXCEPT !.phase = "await"]
  /\ Supervise(Terminated)
  /\ UNCHANGED <<proc, ended, clean, faults>>

Stopped ==
  /\ builder.phase = "await" /\ ~Supervising
  /\ Answers(IF Unproved THEN "uncontained" ELSE "stopped")
  /\ UNCHANGED <<proc, ended, clean, sup, faults>>

\* The supervisor has not ended in the time its cleanup is given and a second.
GiveUp ==
  /\ builder.phase = "await" /\ Supervising
  /\ Answers("uncontained")
  /\ UNCHANGED <<proc, ended, clean, sup, faults>>

\* Fault: a supervisor that was told to stop is believed all the same.
UnlessLeaked == IF sup.leaked \/ sup.code = None THEN "refused" ELSE sup.code

\* What the status of a supervisor that ended by itself comes to.
Verdict == IF sup.stop \/ sup.leaked \/ sup.code = None THEN "refused" ELSE sup.code

\* The output is at its end, which it is when the supervisor and everything
\* below it has closed it.
Finish ==
  /\ builder.phase = "read" /\ ~Supervising
  /\ Answers(IF Unproved THEN "uncontained" ELSE Verdict)
  /\ UNCHANGED <<proc, ended, clean, sup, faults>>

\* The result is recorded if the workspace still is the candidate.
Check ==
  /\ builder.phase = "check"
  /\ builder' = [builder EXCEPT !.phase = "done",
                                !.recorded = builder.answer = Success /\ clean]
  /\ UNCHANGED <<proc, ended, clean, sup, faults>>

-----------------------------------------------------------------------------
(* The system *)

Init ==
  /\ proc = [p \in Proc |-> [life |-> "unborn", parent |-> None]]
  /\ ended = None
  /\ clean = TRUE
  /\ sup = [phase |-> "boot", stop |-> FALSE, children |-> {}, todo |-> {},
            drained |-> FALSE, code |-> None, leaked |-> FALSE, late |-> FALSE,
            failed |-> FALSE]
  /\ builder = [phase |-> "read", answer |-> None, recorded |-> FALSE]
  /\ faults = 0

TestSteps ==
  \E p \in Proc :
    \/ Exit(p) \/ Touch(p)
    \/ \E q \in Proc : Fork(p, q) \/ Collect(p, q) \/ Continue(p, q)

Clean == (\E S \in SUBSET Proc : Sweep(S) \/ Resweep(S)) \/ Wait \/ Reap

SupervisorSteps ==
  \/ Boot \/ Spawn \/ Poll \/ Drain \/ Prove \/ Clean \/ Report
  \/ \E S \in SUBSET Proc : Look(S) \/ Weigh(S)
  \/ \E p \in Proc : Signal(p)

BuilderSteps == Stopped \/ Finish \/ Check

Next ==
  \/ TestSteps
  \/ SupervisorSteps
  \/ \E p \in Proc : SignalFails(p)
  \/ Interrupt \/ Killed
  \/ Stop \/ GiveUp \/ BuilderSteps

\* The supervisor runs; nothing is assumed of when the test does anything.
Spec == Init /\ [][Next]_vars /\ WF_vars(SupervisorSteps)

-----------------------------------------------------------------------------
(* Properties *)

\* A process that is to be signalled has not been waited for, so that its pid is
\* still its own (_terminate_supervised_descendants).
TargetsAreOwn == Supervising => sup.todo \subseteq Children

\* Whatever the builder answers but a containment failure, nothing of the test
\* is alive any more (_terminate_supervised_descendants and its ECHILD proof).
Contained ==
  builder.answer \notin {None, "uncontained"} => Alive = {}

\* A supervisor that was not disturbed has the status the command ended with, and
\* only that is ever passed on, though a status that was lost to another wait
\* reads as success (_required_test_supervisor, _run_bounded_test_command).
Genuine ==
  /\ At("over") /\ ~sup.stop /\ ~sup.failed => sup.code = ended
  /\ builder.answer \in ExitCode \cup {"killed"} => builder.answer = ended

\* The workspace of a recorded result stays as it was checked
\* (produce_required_test_results).
CleanAsChecked == builder.recorded => clean

\* Once it was stopped nothing of the test lives on, however long the cleanup
\* takes and even if the builder has given up (_terminate_supervised_descendants).
Cleared ==
  sup.stop ~> (Alive = {} \/ At("killed"))
=============================================================================
