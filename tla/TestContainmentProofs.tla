----------------------- MODULE TestContainmentProofs ------------------------
(***************************************************************************)
(* What TestContainment promises holds for any number of processes, exit   *)
(* codes and faults.                                                       *)
(***************************************************************************)
EXTENDS TestContainment, TLAPS

-----------------------------------------------------------------------------
(* The inductive invariant *)

Table == [Proc -> [life : Life, parent : Parent]]

\* While the supervisor runs, whatever is alive is its child or the child of
\* something alive; nothing is left to init.
Held == \A p \in Alive : proc[p].parent \in Alive \cup {"supervisor"}

\* The parents of living processes do not go round in circles: every set of them
\* has a member with a parent outside of it.
Rooted == \A S \in SUBSET Alive : S # {} => \E p \in S : proc[p].parent \notin S

\* Nothing exists before the command is started.
Unstarted == sup.phase \in {"boot", "spawn"} => \A p \in Proc : proc[p].life = "unborn"

\* Only the two rounds of signals have anything left to signal.
TodoOfRounds ==
  /\ Supervising => sup.todo \subseteq Children
  /\ sup.phase \notin {"stop", "kill", "killed"} => sup.todo = {}

\* A cleanup that did not fail is complete when it is reported.
Emptied == sup.phase \in {"report", "over"} /\ ~sup.failed => Alive = {}

\* Without a stop, the command has been waited for by the supervisor itself.
Polled ==
  sup.phase \notin {"boot", "spawn", "poll", "killed"} /\ ~sup.stop =>
    sup.code = ended /\ sup.code # None /\ Command \notin Alive

\* How the command ended is known once it ended.
StatusKnown == proc[Command].life \in {"zombie", "gone"} => ended # None

\* What the builder may have answered, and recorded, at which point.
AnswerBacked ==
  /\ builder.phase \in {"read", "await"} => builder.answer = None /\ ~builder.recorded
  /\ builder.answer \notin {None, "uncontained"} => At("over") /\ ~sup.failed
  /\ builder.answer \in ExitCode \cup {"killed"} => ~sup.stop /\ builder.answer = sup.code
  /\ builder.recorded => builder.answer = Success /\ clean

ContainmentInvariant ==
  /\ TypeOK
  /\ Supervising => Held /\ Rooted
  /\ Unstarted /\ TodoOfRounds /\ Emptied /\ Polled /\ StatusKnown /\ AnswerBacked

-----------------------------------------------------------------------------
(* What the operators make of the process table *)

LEMMA Tables ==
  ASSUME proc \in Table, NEW p \in Proc, NEW S
  PROVE  Ended(p) \in Table /\ Orphaned \in Table /\ Waited(S) \in Table
<1> USE DEF Table, Life, Parent, Adopted
<1>1. Adopter \in {"supervisor", "init"}
  BY DEF Adopter
<1>2. Ended(p) \in Table
  BY <1>1 DEF Ended
<1>3. Orphaned \in Table
  BY DEF Orphaned
<1>4. Waited(S) \in Table
  BY DEF Waited
<1> QED
  BY <1>2, <1>3, <1>4

\* The end of a process, while there is a supervisor, touches its own life and
\* the parent of its children.
LEMMA EndedTable ==
  ASSUME proc \in Table, NEW p \in Proc, NEW q \in Proc, Supervising
  PROVE  /\ q # p => Ended(p)[q].life = proc[q].life
         /\ Ended(p)[p].life \in {"zombie", "gone"}
         /\ proc[p].parent = "supervisor" => Ended(p)[p].life = "zombie"
         /\ Ended(p)[q].parent = IF q # p /\ proc[q].parent = p THEN "supervisor"
                                 ELSE proc[q].parent
BY DEF Table, Ended, Adopter, Adopted

LEMMA WaitedTable ==
  ASSUME proc \in Table, NEW S, NEW q \in Proc
  PROVE  /\ Waited(S)[q].parent = proc[q].parent
         /\ Waited(S)[q].life = IF q \in S /\ proc[q].life = "zombie" THEN "gone"
                                ELSE proc[q].life
BY DEF Table, Waited

-----------------------------------------------------------------------------
(* What a step does to the processes of the test *)

\* Alive processes are stopped and continued.
Halts(p) ==
  /\ p \in Alive
  /\ \E life \in {"stopped", "running"} : proc' = [proc EXCEPT ![p].life = life]

\* Some are waited for; none of them is to be signalled.
Reaps == (\E S \in SUBSET Proc : proc' = Waited(S)) /\ (Supervising => sup.todo = {})

\* One waits for its own child.
Collects(q) == proc[q].parent \in Proc /\ proc' = Waited({q})

\* One ends; if it is the command, its status is known.
Ends(p) ==
  /\ p \in Alive /\ proc' = Ended(p)
  /\ p = Command => ended' \in ExitCode \cup {"killed"}

TableStep ==
  \/ proc' = proc
  \/ Spawn
  \/ \E p \in Proc : Ends(p) \/ Halts(p) \/ Collects(p) \/ \E q \in Proc : Fork(p, q)
  \/ Reaps
  \/ proc' = Orphaned /\ ~Supervising'

LEMMA StepsOfTable ==
  ASSUME ContainmentInvariant, Next
  PROVE  TableStep /\ (ended' = ended \/ Ends(Command))
<1> USE DEF TableStep
<1>0. TypeOK /\ TodoOfRounds
  BY DEF ContainmentInvariant
<1>1. CASE TestSteps
  <2>1. PICK p \in Proc :
          \/ Exit(p) \/ Touch(p)
          \/ \E q \in Proc : Fork(p, q) \/ Collect(p, q) \/ Continue(p, q)
    BY <1>1 DEF TestSteps
  <2>2. CASE Exit(p) \/ Touch(p)
    BY <2>2 DEF Exit, Touch, Ends, Alive, Running
  <2>3. ASSUME NEW q \in Proc, Fork(p, q) \/ Collect(p, q) \/ Continue(p, q)
        PROVE  TableStep /\ ended' = ended
    <3>1. ended' = ended
      BY <2>3 DEF Fork, Collect, Continue
    <3> QED
      BY <2>3, <3>1 DEF Collect, Collects, Continue, Halts, Alive
  <2> QED
    BY <2>1, <2>2, <2>3
<1>2. CASE Poll \/ Drain \/ Prove \/ Wait \/ Reap
  <2>1. sup.todo = {}
    BY <1>0, <1>2 DEF TodoOfRounds, Poll, Drain, Prove, Wait, Reap, At
  <2>2. Children \in SUBSET Proc /\ {Command} \in SUBSET Proc
    BY ContainmentAssumption DEF Children
  <2>3. /\ proc' = proc \/ proc' = Waited(Children) \/ proc' = Waited({Command})
        /\ ended' = ended
    BY <1>2 DEF Poll, Drain, Prove, Wait, Reap
  <2> QED
    BY <2>1, <2>2, <2>3 DEF Reaps
<1>3. CASE Report \/ Killed
  BY <1>0, <1>3 DEF Report, Killed, Supervise, Supervising, TypeOK, Supervisor
<1>4. ASSUME NEW p \in Proc, Signal(p) PROVE TableStep /\ (ended' = ended \/ Ends(Command))
  <2>1. \/ proc' = proc /\ ended' = ended
        \/ p \in Alive /\ proc' = [proc EXCEPT ![p].life = "stopped"] /\ ended' = ended
        \/ p \in Alive /\ proc' = Ended(p) /\ ended' = IF p = Command THEN "killed" ELSE ended
    BY <1>4 DEF Signal, At
  <2> QED
    BY <2>1 DEF Ends, Halts
<1>5. ASSUME NEW S \in SUBSET Proc, Sweep(S) \/ Resweep(S) \/ Look(S) \/ Weigh(S)
      PROVE  TableStep /\ ended' = ended
  BY <1>5 DEF Sweep, Resweep, Look, Weigh
<1>6. CASE \/ Boot \/ Interrupt \/ Stop \/ GiveUp \/ BuilderSteps
           \/ \E p \in Proc : SignalFails(p)
  BY <1>6 DEF Boot, Interrupt, Stop, GiveUp, BuilderSteps, Stopped, Finish, Check, SignalFails
<1>7. CASE Spawn
  BY <1>7 DEF Spawn
<1> QED
  BY <1>1, <1>2, <1>3, <1>4, <1>5, <1>6, <1>7 DEF Next, SupervisorSteps, Clean

\* Nothing comes to life but the command, and what something alive forks.
LEMMA NoneReborn ==
  ASSUME ContainmentInvariant, Next, NEW q \in Proc, q \in Alive', q \notin Alive
  PROVE  Spawn \/ (q # Command /\ \E p \in Alive : Fork(p, q))
<1>0. proc \in Table
  BY DEF ContainmentInvariant, TypeOK, Table
<1>1. proc'[q].life \in {"running", "stopped"} /\ proc[q].life \notin {"running", "stopped"}
  BY DEF Alive
<1>2. ASSUME NEW p \in Proc, Ends(p) PROVE FALSE
  <2>1. p \in Alive /\ q # p
    BY <1>2 DEF Ends
  <2> QED
    BY <1>0, <1>1, <1>2, <2>1 DEF Ends, Ended, Adopted, Table
<1>3. ASSUME NEW p \in Proc, Halts(p) PROVE FALSE
  BY <1>0, <1>1, <1>3 DEF Halts, Alive, Table
<1>4. ASSUME NEW p \in Proc, Collects(p) PROVE FALSE
  BY <1>0, <1>1, <1>4, WaitedTable DEF Collects
<1>5. ASSUME Reaps PROVE FALSE
  BY <1>0, <1>1, <1>5, WaitedTable DEF Reaps
<1>6. ASSUME proc' = Orphaned PROVE FALSE
  BY <1>0, <1>1, <1>6 DEF Orphaned, Adopted, Table
<1>7. ASSUME NEW p \in Proc, NEW r \in Proc, Fork(p, r)
      PROVE  q # Command /\ \E s \in Alive : Fork(s, q)
  BY <1>0, <1>1, <1>7 DEF Fork, Running, Alive, Table
<1> QED
  BY <1>1, <1>2, <1>3, <1>4, <1>5, <1>6, <1>7, StepsOfTable DEF TableStep

-----------------------------------------------------------------------------
(* Each part of the invariant is kept *)

LEMMA TypesKept ==
  ASSUME ContainmentInvariant, Next
  PROVE  TypeOK'
<1>0. TypeOK /\ proc \in Table
  BY DEF ContainmentInvariant, TypeOK, Table
<1>1. proc' \in Table
  <2> USE DEF Table, Life, Parent
  <2>1. CASE Spawn
    BY <1>0, <2>1, ContainmentAssumption DEF Spawn
  <2>2. ASSUME NEW p \in Proc, NEW q \in Proc, Fork(p, q) PROVE proc' \in Table
    BY <1>0, <2>2 DEF Fork
  <2>3. ASSUME NEW p \in Proc, Halts(p) PROVE proc' \in Table
    BY <1>0, <2>3 DEF Halts
  <2>4. ASSUME NEW p \in Proc, Ends(p) \/ Collects(p) PROVE proc' \in Table
    BY <1>0, <2>4, Tables DEF Ends, Collects
  <2>5. CASE Reaps \/ proc' = Orphaned
    BY <1>0, <2>5, Tables, ContainmentAssumption DEF Reaps
  <2> QED
    BY <1>0, <2>1, <2>2, <2>3, <2>4, <2>5, StepsOfTable DEF TableStep
<1>2. ended' \in ExitCode \cup {"killed", None} /\ clean' \in BOOLEAN /\ faults' \in 0..MaxFaults
  <2>1. ended' = ended \/ ended' \in ExitCode \cup {"killed"}
    BY DEF Next, TestSteps, SupervisorSteps, Clean, BuilderSteps, Exit, Touch, Fork, Collect,
           Continue, Boot, Spawn, Poll, Drain, Prove, Wait, Reap, Report, Signal, Sweep, Resweep,
           Look, Weigh, SignalFails, Interrupt, Killed, Stop, GiveUp, Stopped, Finish, Check
  <2>2. clean' = clean \/ clean' = ~clean
    BY DEF Next, TestSteps, SupervisorSteps, Clean, BuilderSteps, Exit, Touch, Fork, Collect,
           Continue, Boot, Spawn, Poll, Drain, Prove, Wait, Reap, Report, Signal, Sweep, Resweep,
           Look, Weigh, SignalFails, Interrupt, Killed, Stop, GiveUp, Stopped, Finish, Check
  <2>3. faults' = faults \/ (faults < MaxFaults /\ faults' = faults + 1)
    BY DEF Next, TestSteps, SupervisorSteps, Clean, BuilderSteps, Exit, Touch, Fork, Collect,
           Continue, Boot, Spawn, Poll, Drain, Prove, Wait, Reap, Report, Signal, Sweep, Resweep,
           Look, Weigh, SignalFails, Interrupt, Killed, Stop, GiveUp, Stopped, Finish, Check,
           Listed
  <2>4. faults' \in 0..MaxFaults
    BY <1>0, <2>3, ContainmentAssumption DEF TypeOK
  <2> QED
    BY <1>0, <2>1, <2>2, <2>4 DEF TypeOK
<1>3. sup' \in Supervisor
  <2> USE <1>0 DEF Supervisor, Supervise, Phase, TypeOK
  <2>1. CASE TestSteps \/ GiveUp \/ BuilderSteps
    BY <2>1 DEF TestSteps, GiveUp, BuilderSteps, Exit, Touch, Fork, Collect, Continue,
                Stopped, Finish, Check
  <2>2. CASE Boot \/ Spawn \/ Report \/ Killed
    BY <2>2 DEF Boot, Spawn, Report, Killed
  <2>9. CASE Poll
    BY <2>9 DEF Poll
  <2>3. CASE Drain \/ Prove \/ Reap
    <3>1. Quiet \in BOOLEAN
      BY DEF Quiet
    <3>2. CASE Drain
      BY <3>1, <3>2 DEF Drain
    <3>3. CASE Prove
      BY <3>1, <3>3 DEF Prove
    <3>4. CASE Reap
      BY <3>1, <3>4 DEF Reap
    <3> QED
      BY <2>3, <3>2, <3>3, <3>4
  <2>4. CASE Wait
    <3>1. Returncode \in ExitCode \cup {"killed", None}
      <4>1. Success \in ExitCode
        BY ContainmentAssumption
      <4>2. Returncode \in {sup.code, ended, Success, None}
        BY DEF Returncode
      <4> QED
        BY <4>1, <4>2
    <3> QED
      BY <2>4, <3>1 DEF Wait
  <2>5. ASSUME NEW p \in Proc, Signal(p) \/ SignalFails(p) PROVE sup' \in Supervisor
    <3>1. CASE Signal(p)
      BY <3>1 DEF Signal
    <3>2. CASE SignalFails(p)
      BY <3>2 DEF SignalFails
    <3> QED
      BY <2>5, <3>1, <3>2
  <2>6. ASSUME NEW S \in SUBSET Proc, Sweep(S) \/ Resweep(S) \/ Look(S) PROVE sup' \in Supervisor
    BY <2>6 DEF Sweep, Resweep, Look
  <2>7. ASSUME NEW S \in SUBSET Proc, Weigh(S) PROVE sup' \in Supervisor
    <3>1. PICK left \in BOOLEAN :
            sup' = [sup EXCEPT !.phase = IF sup.stop \/ left THEN "sweep" ELSE "prove",
                               !.leaked = ~sup.stop /\ left, !.children = {}]
      BY <2>7 DEF Weigh
    <3> QED
      BY <3>1
  <2>8. CASE Interrupt \/ Stop
    BY <2>8 DEF Interrupt, Stop, Terminated
  <2> QED
    BY <2>1, <2>2, <2>3, <2>4, <2>5, <2>6, <2>7, <2>8, <2>9 DEF Next, SupervisorSteps, Clean
<1>4. builder' \in Builder
  <2> USE <1>0 DEF Builder, TypeOK, Answer
  <2>1. CASE Stop \/ GiveUp
    BY <2>1 DEF Stop, GiveUp, Answers
  <2>2. CASE Stopped
    BY <2>2 DEF Stopped, Answers
  <2>3. CASE Finish
    <3>1. Verdict \in ExitCode \cup {"killed", "refused"}
      BY DEF Verdict, Supervisor
    <3> QED
      BY <2>3, <3>1 DEF Finish, Answers
  <2>4. CASE Check
    BY <2>4 DEF Check
  <2>5. CASE UNCHANGED builder
    BY <2>5
  <2> QED
    BY <2>1, <2>2, <2>3, <2>4, <2>5
    DEF Next, TestSteps, SupervisorSteps, Clean, BuilderSteps, Exit, Touch, Fork, Collect,
        Continue, Boot, Spawn, Poll, Drain, Prove, Wait, Reap, Report, Signal, Sweep, Resweep,
        Look, Weigh, SignalFails, Interrupt, Killed
<1> QED
  BY <1>1, <1>2, <1>3, <1>4 DEF TypeOK, Table

\* What a step does to the list of the supervisor and to its place.
LEMMA SupervisorMoves ==
  ASSUME ContainmentInvariant, Next
  PROVE  /\ Supervising' => Supervising
         /\ sup'.todo \subseteq sup.todo \/ (sup'.todo \subseteq Children /\ proc' = proc)
         /\ sup'.phase \notin {"stop", "kill", "killed"} => sup'.todo = {}
         /\ sup'.phase \in {"boot", "spawn"} =>
              /\ sup.phase \in {"boot", "spawn"}
              /\ proc' = proc \/ TestSteps
<1> USE DEF Supervise, Supervising, At
<1>0. /\ sup \in Supervisor
      /\ sup.phase \notin {"stop", "kill", "killed"} => sup.todo = {}
  BY DEF ContainmentInvariant, TypeOK, TodoOfRounds
<1>1. CASE TestSteps \/ GiveUp \/ BuilderSteps
  <2>1. sup' = sup
    BY <1>1 DEF TestSteps, GiveUp, BuilderSteps, Exit, Touch, Fork, Collect, Continue,
                Stopped, Finish, Check
  <2>2. proc' = proc \/ TestSteps
    BY <1>1 DEF GiveUp, BuilderSteps, Stopped, Finish, Check
  <2> QED
    BY <1>0, <2>1, <2>2
<1>2. CASE Boot \/ Spawn \/ Poll \/ Drain \/ Prove \/ Wait \/ Reap \/ Report \/ Killed
  BY <1>0, <1>2 DEF Boot, Spawn, Poll, Drain, Prove, Wait, Reap, Report, Killed, Supervisor
<1>3. ASSUME NEW S \in SUBSET Proc, Sweep(S) \/ Resweep(S) \/ Look(S) \/ Weigh(S)
      PROVE  /\ sup'.todo = sup.todo \/ (sup'.todo = S /\ S \subseteq Children)
             /\ sup'.phase \in {"stop", "kill", "drain", "sweep", "prove"}
             /\ sup'.phase \in {"drain", "sweep", "prove"} =>
                  sup.phase \in {"look", "weigh"} /\ sup'.todo = sup.todo
             /\ Supervising /\ proc' = proc
  BY <1>0, <1>3 DEF Sweep, Resweep, Look, Weigh, Supervisor, Listed
<1>4. CASE Interrupt \/ Stop
  BY <1>0, <1>4 DEF Interrupt, Stop, Terminated, Supervisor
<1>5. ASSUME NEW p \in Proc, Signal(p) \/ SignalFails(p)
      PROVE  /\ sup'.phase = sup.phase /\ sup.phase \in {"stop", "kill"}
             /\ sup'.todo \subseteq sup.todo
  BY <1>0, <1>5 DEF Signal, SignalFails, Supervisor
<1> QED
  BY <1>0, <1>1, <1>2, <1>3, <1>4, <1>5 DEF Next, SupervisorSteps, Clean

\* The families of the processes after a step that brings none to life.
LEMMA FamiliesShrink ==
  ASSUME Rooted, Alive' \subseteq Alive,
         \A q \in Alive' :
           \/ proc'[q].parent = "supervisor"
           \/ proc'[q].parent = proc[q].parent /\ proc[q].parent \in Alive'
  PROVE  Held' /\ Rooted'
<1>1. Held'
  BY DEF Held
<1>2. ASSUME NEW S \in SUBSET Alive', S # {}
      PROVE  \E p \in S : proc'[p].parent \notin S
  <2>1. PICK p \in S : proc[p].parent \notin S
    BY <1>2 DEF Rooted
  <2>2. "supervisor" \notin S
    BY ContainmentAssumption DEF Alive
  <2> QED
    BY <2>1, <2>2
<1> QED
  BY <1>1, <1>2 DEF Rooted

LEMMA FamiliesKept ==
  ASSUME ContainmentInvariant, Next, Supervising'
  PROVE  Held' /\ Rooted'
<1>0. proc \in Table /\ proc' \in Table /\ TypeOK
  BY TypesKept DEF ContainmentInvariant, TypeOK, Table
<1>1. Supervising
  BY SupervisorMoves
<1>2. Held /\ Rooted
  BY <1>1 DEF ContainmentInvariant
<1>3. CASE proc' = proc
  BY <1>2, <1>3, FamiliesShrink DEF Held, Alive
<1>4. ASSUME NEW p \in Proc, Ends(p) PROVE Held' /\ Rooted'
  <2>1. \A q \in Proc : q \in Alive' <=> q \in Alive /\ q # p
    BY <1>0, <1>1, <1>4, EndedTable DEF Ends, Alive
  <2>2. \A q \in Proc : q # p =>
          \/ proc'[q].parent = "supervisor"
          \/ proc'[q].parent = proc[q].parent /\ proc[q].parent # p
    BY <1>0, <1>1, <1>4, EndedTable DEF Ends
  <2> QED
    BY <1>2, <2>1, <2>2, FamiliesShrink DEF Held, Alive
<1>5. ASSUME NEW p \in Proc, Halts(p) PROVE Held' /\ Rooted'
  BY <1>0, <1>2, <1>5, FamiliesShrink DEF Halts, Alive, Table, Held
<1>6. ASSUME NEW S, proc' = Waited(S) PROVE Held' /\ Rooted'
  BY <1>0, <1>2, <1>6, WaitedTable, FamiliesShrink DEF Alive, Held
<1>7. CASE Spawn
  <2>1. /\ \A q \in Proc : q \in Alive' <=> q = Command
        /\ proc'[Command].parent = "supervisor"
    BY <1>0, <1>7, ContainmentAssumption
    DEF Spawn, ContainmentInvariant, Unstarted, At, Alive, Table
  <2> QED
    BY <2>1, ContainmentAssumption DEF Held, Rooted, Alive
<1>8. ASSUME NEW p \in Proc, NEW q \in Proc, Fork(p, q) PROVE Held' /\ Rooted'
  <2>1. /\ p \in Alive /\ q \notin Alive
        /\ \A r \in Proc : r \in Alive' <=> r \in Alive \/ r = q
        /\ \A r \in Proc : r # q => proc'[r].parent = proc[r].parent
        /\ proc'[q].parent = p
    BY <1>0, <1>8 DEF Fork, Running, Alive, Table
  <2>2. Held'
    BY <1>2, <2>1 DEF Held, Alive
  <2>3. ASSUME NEW S \in SUBSET Alive', S # {}
        PROVE  \E r \in S : proc'[r].parent \notin S
    <3>1. CASE S = {q}
      BY <2>1, <3>1
    <3>2. CASE S # {q}
      <4>1. S \ {q} \in SUBSET Alive /\ S \ {q} # {}
        BY <2>1, <2>3, <3>2 DEF Alive
      <4>2. PICK r \in S \ {q} : proc[r].parent \notin S \ {q}
        BY <1>2, <4>1 DEF Rooted
      <4>3. proc[r].parent # q
        BY <1>2, <2>1, <4>1, ContainmentAssumption DEF Held
      <4> QED
        BY <2>1, <4>1, <4>2, <4>3 DEF Alive
    <3> QED
      BY <3>1, <3>2
  <2> QED
    BY <2>2, <2>3 DEF Rooted
<1> QED
  BY <1>3, <1>4, <1>5, <1>6, <1>7, <1>8, StepsOfTable DEF TableStep, Reaps, Collects

\* What is to be signalled stays unwaited for.
LEMMA TodoKept ==
  ASSUME ContainmentInvariant, Next
  PROVE  TodoOfRounds' /\ Unstarted'
<1>0. proc \in Table /\ proc' \in Table /\ TypeOK /\ TodoOfRounds /\ Unstarted
  BY TypesKept DEF ContainmentInvariant, TypeOK, Table
<1>1. Supervising' => Supervising
  BY SupervisorMoves
<1>2. sup'.todo \subseteq sup.todo \/ (sup'.todo \subseteq Children /\ proc' = proc)
  BY SupervisorMoves
<1>3. ASSUME Supervising', NEW q \in sup.todo PROVE q \in Children'
  <2>1. q \in Children /\ q \in Proc /\ Supervising
    BY <1>0, <1>1, <1>3 DEF TodoOfRounds, Children
  <2>2. /\ proc[q].parent = "supervisor" /\ proc[q].life \notin {"unborn", "gone"}
        /\ "supervisor" \notin Proc
    BY <2>1, ContainmentAssumption DEF Children
  <2>3. proc'[q].parent = "supervisor" /\ proc'[q].life \notin {"unborn", "gone"}
    <3>1. ASSUME NEW p \in Proc, Ends(p)
          PROVE  proc'[q].parent = "supervisor" /\ proc'[q].life \notin {"unborn", "gone"}
      BY <1>0, <2>1, <2>2, <3>1, EndedTable DEF Ends
    <3>2. ASSUME NEW p \in Proc, Halts(p)
          PROVE  proc'[q].parent = "supervisor" /\ proc'[q].life \notin {"unborn", "gone"}
      BY <1>0, <2>1, <2>2, <3>2 DEF Halts, Table
    <3>3. ASSUME NEW p \in Proc, Collects(p)
          PROVE  proc'[q].parent = "supervisor" /\ proc'[q].life \notin {"unborn", "gone"}
      <4>1. p # q
        BY <2>2, <3>3 DEF Collects
      <4> QED
        BY <1>0, <2>1, <2>2, <3>3, <4>1, WaitedTable DEF Collects
    <3>4. ASSUME NEW p \in Proc, NEW r \in Proc, Fork(p, r)
          PROVE  proc'[q].parent = "supervisor" /\ proc'[q].life \notin {"unborn", "gone"}
      BY <1>0, <2>1, <2>2, <3>4 DEF Fork, Table
    <3>5. ~Reaps
      BY <1>3, <2>1 DEF Reaps
    <3>6. ~Spawn
      BY <1>0, <2>1, <2>2 DEF Spawn, Unstarted, At
    <3> QED
      BY <1>3, <2>2, <3>1, <3>2, <3>3, <3>4, <3>5, <3>6, StepsOfTable DEF TableStep
  <2> QED
    BY <2>1, <2>3 DEF Children
<1>4. Supervising' => sup'.todo \subseteq Children'
  BY <1>2, <1>3 DEF Children
<1>5. sup'.phase \notin {"stop", "kill", "killed"} => sup'.todo = {}
  BY SupervisorMoves
<1>6. Unstarted'
  <2> SUFFICES ASSUME sup'.phase \in {"boot", "spawn"}, NEW q \in Proc
               PROVE  proc'[q].life = "unborn"
    BY DEF Unstarted
  <2>1. sup.phase \in {"boot", "spawn"} /\ (proc' = proc \/ TestSteps)
    BY SupervisorMoves
  <2>2. \A p \in Proc : proc[p].life = "unborn"
    BY <1>0, <2>1 DEF Unstarted
  <2>3. proc' = proc
    BY <2>1, <2>2 DEF TestSteps, Exit, Touch, Fork, Collect, Continue, Running
  <2> QED
    BY <2>2, <2>3
<1> QED
  BY <1>4, <1>5, <1>6 DEF TodoOfRounds

\* If every child has ended, so has everything.
LEMMA QuietIsEmpty ==
  ASSUME Held, Rooted, Quiet
  PROVE  Alive = {}
<1> SUFFICES ASSUME Alive # {} PROVE FALSE
  OBVIOUS
<1>1. PICK p \in Alive : proc[p].parent \notin Alive
  BY DEF Rooted
<1>2. p \in Children
  BY <1>1 DEF Held, Alive, Children
<1> QED
  BY <1>1, <1>2 DEF Quiet, Alive

LEMMA EmptiedKept ==
  ASSUME ContainmentInvariant, Next
  PROVE  Emptied'
<1> SUFFICES ASSUME sup'.phase \in {"report", "over"}, ~sup'.failed PROVE Alive' = {}
  BY DEF Emptied
<1>0. sup \in Supervisor
  BY DEF ContainmentInvariant, TypeOK
<1>1. /\ \/ sup.phase \in {"report", "over"} /\ ~sup.failed
         \/ sup.phase \in {"prove", "reap"} /\ Quiet
      /\ ~Spawn
  <2> USE <1>0 DEF Supervise, Supervisor, At
  <2>1. CASE TestSteps \/ GiveUp \/ BuilderSteps \/ Interrupt \/ Stop
    BY <2>1 DEF TestSteps, GiveUp, BuilderSteps, Exit, Touch, Fork, Collect, Continue,
                Stopped, Finish, Check, Interrupt, Stop, Terminated, Spawn
  <2>2. CASE Boot \/ Spawn \/ Poll \/ Drain \/ Wait \/ Killed
    BY <2>2 DEF Boot, Spawn, Poll, Drain, Wait, Killed
  <2>5. CASE Prove \/ Reap \/ Report
    <3>1. ~Spawn
      BY <2>5 DEF Prove, Reap, Report, Spawn
    <3> QED
      BY <2>5, <3>1 DEF Prove, Reap, Report
  <2>3. ASSUME NEW p \in Proc, SignalFails(p) \/ Signal(p) PROVE FALSE
    BY <2>3 DEF Signal, SignalFails
  <2>4. ASSUME NEW S \in SUBSET Proc, Sweep(S) \/ Resweep(S) \/ Look(S) \/ Weigh(S) PROVE FALSE
    BY <2>4 DEF Sweep, Resweep, Look, Weigh
  <2> QED
    BY <2>1, <2>2, <2>3, <2>4, <2>5 DEF Next, SupervisorSteps, Clean
<1>2. Alive = {}
  BY <1>1, QuietIsEmpty DEF ContainmentInvariant, Emptied, Supervising
<1> QED
  BY <1>1, <1>2, NoneReborn DEF Alive

\* The status of the command is written once, when it ends.
LEMMA StatusSteps ==
  ASSUME ContainmentInvariant, Next
  PROVE  /\ ended' = ended \/ (Command \in Alive /\ ended' # None)
         /\ Command \in Alive /\ Command \notin Alive' => ended' # None
<1>0. /\ proc \in Table /\ Command \in Proc
      /\ None \notin ExitCode \cup {"killed"}
  BY ContainmentAssumption DEF ContainmentInvariant, TypeOK, Table
<1>1. ASSUME NEW p \in Proc, Ends(p), p # Command
      PROVE  Command \in Alive => Command \in Alive'
  BY <1>0, <1>1 DEF Ends, Alive, Table, Ended, Adopted
<1>2. ASSUME NEW p \in Proc, Halts(p)
      PROVE  Command \in Alive => Command \in Alive'
  BY <1>0, <1>2 DEF Halts, Alive, Table
<1>3. ASSUME NEW S, proc' = Waited(S)
      PROVE  Command \in Alive => Command \in Alive'
  BY <1>0, <1>3, WaitedTable DEF Alive
<1>4. ASSUME NEW p \in Proc, NEW q \in Proc, Fork(p, q)
      PROVE  Command \in Alive => Command \in Alive'
  BY <1>0, <1>4 DEF Fork, Alive, Table
<1>5. CASE proc' = Orphaned
  BY <1>0, <1>5, StepsOfTable DEF Orphaned, Adopted, Alive, Table, Ends
<1>6. CASE Spawn \/ proc' = proc
  BY <1>0, <1>6, StepsOfTable DEF Spawn, Alive, Table, Ends
<1> QED
  BY <1>0, <1>1, <1>2, <1>3, <1>4, <1>5, <1>6, StepsOfTable
  DEF TableStep, Ends, Reaps, Collects

LEMMA StatusKept ==
  ASSUME ContainmentInvariant, Next
  PROVE  StatusKnown' /\ Polled'
<1>0. /\ proc \in Table /\ proc' \in Table /\ Command \in Proc /\ sup \in Supervisor
      /\ Polled /\ StatusKnown /\ Unstarted
  BY TypesKept, ContainmentAssumption DEF ContainmentInvariant, TypeOK, Table
<1>1. StatusKnown'
  <2> SUFFICES ASSUME proc'[Command].life \in {"zombie", "gone"} PROVE ended' # None
    BY DEF StatusKnown
  <2>1. CASE Command \in Alive
    BY <1>0, <2>1, StatusSteps DEF Alive
  <2>2. CASE proc[Command].life \in {"zombie", "gone"}
    BY <2>2, <1>0, StatusSteps DEF StatusKnown
  <2>3. CASE proc[Command].life = "unborn"
    <3>1. ASSUME NEW p \in Proc, Ends(p) PROVE FALSE
      BY <1>0, <2>3, <3>1 DEF Ends, Ended, Adopted, Alive, Table
    <3>2. ASSUME NEW p \in Proc, Halts(p) PROVE FALSE
      BY <1>0, <2>3, <3>2 DEF Halts, Alive, Table
    <3>3. ASSUME NEW S, proc' = Waited(S) PROVE FALSE
      BY <1>0, <2>3, <3>3, WaitedTable
    <3>4. ASSUME NEW p \in Proc, NEW q \in Proc, Fork(p, q) PROVE FALSE
      BY <1>0, <2>3, <3>4 DEF Fork, Table
    <3>5. CASE proc' = Orphaned
      BY <1>0, <2>3, <3>5 DEF Orphaned, Adopted, Table
    <3>6. CASE Spawn \/ proc' = proc
      BY <1>0, <2>3, <3>6 DEF Spawn, Table
    <3> QED
      BY <3>1, <3>2, <3>3, <3>4, <3>5, <3>6, StepsOfTable DEF TableStep, Reaps, Collects
  <2> QED
    BY <1>0, <2>1, <2>2, <2>3 DEF Table, Life, Alive
<1>2. Polled'
  <2> SUFFICES ASSUME sup'.phase \notin {"boot", "spawn", "poll", "killed"}, ~sup'.stop
               PROVE  sup'.code = ended' /\ sup'.code # None /\ Command \notin Alive'
    BY DEF Polled
  <2>1. ~sup.stop /\ ~Spawn
    <3> USE <1>0 DEF Supervise, Supervisor, At
    <3>1. CASE TestSteps \/ GiveUp \/ BuilderSteps \/ Interrupt \/ Stop
      BY <3>1 DEF TestSteps, GiveUp, BuilderSteps, Exit, Touch, Fork, Collect, Continue,
                  Stopped, Finish, Check, Interrupt, Stop, Terminated, Spawn
    <3>2. CASE Boot \/ Spawn \/ Poll \/ Drain \/ Prove \/ Wait \/ Reap \/ Report \/ Killed
      BY <3>2 DEF Boot, Spawn, Poll, Drain, Prove, Wait, Reap, Report, Killed
    <3>3. ASSUME NEW p \in Proc, SignalFails(p) \/ Signal(p) PROVE ~sup.stop /\ ~Spawn
      BY <3>3 DEF Signal, SignalFails, Spawn
    <3>4. ASSUME NEW S \in SUBSET Proc, Sweep(S) \/ Resweep(S) \/ Look(S) \/ Weigh(S)
          PROVE  ~sup.stop /\ ~Spawn
      BY <3>4 DEF Sweep, Resweep, Look, Weigh, Spawn
    <3> QED
      BY <3>1, <3>2, <3>3, <3>4 DEF Next, SupervisorSteps, Clean
  <2>2. \/ sup.phase \notin {"boot", "spawn", "poll", "killed"} /\ (sup'.code = sup.code \/ Wait)
        \/ proc[Command].life = "zombie" /\ sup'.code = ended /\ Poll
    <3> USE <1>0 DEF Supervise, Supervisor, At
    <3>1. CASE TestSteps \/ GiveUp \/ BuilderSteps \/ Interrupt \/ Stop
      BY <3>1 DEF TestSteps, GiveUp, BuilderSteps, Exit, Touch, Fork, Collect, Continue,
                  Stopped, Finish, Check, Interrupt, Stop, Terminated
    <3>2. CASE Boot \/ Spawn \/ Drain \/ Prove \/ Wait \/ Reap \/ Report \/ Killed
      BY <3>2 DEF Boot, Spawn, Drain, Prove, Wait, Reap, Report, Killed
    <3>3. CASE Poll
      BY <2>1, <3>3 DEF Poll
    <3>4. ASSUME NEW p \in Proc, SignalFails(p) \/ Signal(p)
          PROVE  sup.phase \notin {"boot", "spawn", "poll", "killed"} /\ sup'.code = sup.code
      BY <3>4 DEF Signal, SignalFails
    <3>5. ASSUME NEW S \in SUBSET Proc, Sweep(S) \/ Resweep(S) \/ Look(S) \/ Weigh(S)
          PROVE  sup.phase \notin {"boot", "spawn", "poll", "killed"} /\ sup'.code = sup.code
      BY <3>5 DEF Sweep, Resweep, Look, Weigh
    <3> QED
      BY <3>1, <3>2, <3>3, <3>4, <3>5 DEF Next, SupervisorSteps, Clean
  <2>3. CASE sup.phase \notin {"boot", "spawn", "poll", "killed"} /\ (sup'.code = sup.code \/ Wait)
    <3>1. sup.code = ended /\ sup.code # None /\ Command \notin Alive
      BY <1>0, <2>1, <2>3 DEF Polled
    <3>2. sup'.code = sup.code
      BY <1>0, <2>3, <3>1 DEF Wait, Returncode, Supervise, Supervisor
    <3> QED
      BY <1>0, <2>1, <3>1, <3>2, StatusSteps, NoneReborn
  <2>4. CASE proc[Command].life = "zombie" /\ sup'.code = ended
    BY <1>0, <2>1, <2>4, StatusSteps, NoneReborn DEF StatusKnown, Alive
  <2> QED
    BY <2>2, <2>3, <2>4
<1> QED
  BY <1>1, <1>2

LEMMA AnswersKept ==
  ASSUME ContainmentInvariant, Next
  PROVE  AnswerBacked'
<1>0. /\ sup \in Supervisor /\ builder \in Builder /\ AnswerBacked /\ Emptied /\ clean \in BOOLEAN
      /\ Success \in ExitCode /\ None \notin ExitCode \cup {"killed"}
      /\ {"killed", "stopped", "refused", "uncontained"} \cap ExitCode = {}
  BY ContainmentAssumption DEF ContainmentInvariant, TypeOK
<1>1. CASE Stop
  BY <1>0, <1>1 DEF Stop, AnswerBacked, Builder
<1>2. CASE GiveUp
  BY <1>0, <1>2 DEF GiveUp, Answers, AnswerBacked, Builder
<1>3. CASE Stopped
  BY <1>0, <1>3 DEF Stopped, Answers, AnswerBacked, Builder, Unproved, Supervising, At
<1>4. CASE Finish
  BY <1>0, <1>4 DEF Finish, Answers, AnswerBacked, Builder, Unproved, Supervising, At, Verdict
<1>5. CASE Check
  BY <1>0, <1>5 DEF Check, AnswerBacked, Builder, At
<1>6. CASE UNCHANGED builder
  <2>1. CASE builder.answer \in {None, "uncontained"}
    BY <1>0, <1>6, <2>1 DEF AnswerBacked
  <2>2. CASE builder.answer \notin {None, "uncontained"}
    <3>1. At("over") /\ ~sup.failed /\ Alive = {}
      BY <1>0, <2>2 DEF AnswerBacked, Emptied, At
    <3>2. sup' = sup
      <4>1. ~Stop
        BY <1>0, <2>2 DEF Stop, AnswerBacked
      <4> QED
        BY <1>0, <1>6, <3>1, <4>1
        DEF Next, TestSteps, SupervisorSteps, Clean, BuilderSteps, Exit, Touch, Fork, Collect,
            Continue, Boot, Spawn, Poll, Drain, Prove, Wait, Reap, Report, Signal, Sweep, Resweep,
            Look, Weigh, SignalFails, Interrupt, Killed, GiveUp, Stopped, Finish, Check,
            At, Supervising
    <3>3. clean' = clean
      <4>1. \A p \in Proc : ~Touch(p)
        BY <3>1 DEF Touch, Running, Alive
      <4> QED
        BY <4>1
        DEF Next, TestSteps, SupervisorSteps, Clean, BuilderSteps, Exit, Fork, Collect,
            Continue, Boot, Spawn, Poll, Drain, Prove, Wait, Reap, Report, Signal, Sweep, Resweep,
            Look, Weigh, SignalFails, Interrupt, Killed, Stop, GiveUp, Stopped, Finish, Check
    <3> QED
      BY <1>0, <1>6, <3>2, <3>3 DEF AnswerBacked, At
  <2> QED
    BY <2>1, <2>2
<1> QED
  BY <1>1, <1>2, <1>3, <1>4, <1>5, <1>6
  DEF Next, TestSteps, SupervisorSteps, Clean, BuilderSteps, Exit, Touch, Fork, Collect,
      Continue, Boot, Spawn, Poll, Drain, Prove, Wait, Reap, Report, Signal, Sweep, Resweep,
      Look, Weigh, SignalFails, Interrupt, Killed

-----------------------------------------------------------------------------
(* The theorems *)

LEMMA ContainmentStarts == Init => ContainmentInvariant
<1> SUFFICES ASSUME Init PROVE ContainmentInvariant
  OBVIOUS
<1>1. TypeOK
  BY ContainmentAssumption
  DEF Init, TypeOK, Life, Parent, Supervisor, Phase, Builder
<1>2. Alive = {} /\ Children = {}
  BY DEF Init, Alive, Children
<1>3. /\ Held /\ Rooted /\ Unstarted /\ TodoOfRounds /\ Emptied /\ Polled /\ StatusKnown
  BY <1>2, ContainmentAssumption
  DEF Init, Held, Rooted, Unstarted, TodoOfRounds, Emptied, Polled, StatusKnown
<1>4. AnswerBacked
  BY ContainmentAssumption DEF Init, AnswerBacked
<1> QED
  BY <1>1, <1>3, <1>4 DEF ContainmentInvariant

LEMMA ContainmentKept == ContainmentInvariant /\ [Next]_vars => ContainmentInvariant'
<1> SUFFICES ASSUME ContainmentInvariant, [Next]_vars PROVE ContainmentInvariant'
  OBVIOUS
<1>1. CASE Next
  BY <1>1, TypesKept, FamiliesKept, TodoKept, EmptiedKept, StatusKept, AnswersKept
  DEF ContainmentInvariant
<1>2. CASE UNCHANGED vars
  BY <1>2 DEF vars, ContainmentInvariant, TypeOK, Supervising, Held, Rooted, Unstarted, TodoOfRounds,
              Emptied, Polled, StatusKnown, AnswerBacked, Alive, Children, At
<1> QED
  BY <1>1, <1>2

LEMMA ContainmentAlways == Spec => []ContainmentInvariant
BY ContainmentStarts, ContainmentKept, PTL DEF Spec

\* A process the supervisor is going to signal is still its own to wait for, so
\* that no signal meets a pid of somebody else (_terminate_supervised_descendants).
THEOREM TargetsAreAlwaysOwn == Spec => []TargetsAreOwn
<1>1. ContainmentInvariant => TargetsAreOwn
  BY DEF ContainmentInvariant, TodoOfRounds, TargetsAreOwn
<1> QED
  BY <1>1, ContainmentAlways, PTL

\* Whatever the builder answers but a containment failure, nothing the test
\* started is alive, however many processes it made (_run_bounded_test_command).
THEOREM AlwaysContained == Spec => []Contained
<1>1. ContainmentInvariant => Contained
  BY DEF ContainmentInvariant, AnswerBacked, Emptied, Contained, At
<1> QED
  BY <1>1, ContainmentAlways, PTL

\* The status that is passed on is the one the command ended with
\* (_required_test_supervisor, _run_bounded_test_command).
THEOREM AlwaysGenuine == Spec => []Genuine
<1>1. ContainmentInvariant => Genuine
  <2> SUFFICES ASSUME ContainmentInvariant PROVE Genuine
    OBVIOUS
  <2>1. At("over") /\ ~sup.stop => sup.code = ended
    BY DEF ContainmentInvariant, Polled, At
  <2>2. builder.answer \in ExitCode \cup {"killed"} =>
          At("over") /\ ~sup.stop /\ builder.answer = sup.code
    BY ContainmentAssumption DEF ContainmentInvariant, AnswerBacked
  <2> QED
    BY <2>1, <2>2 DEF Genuine
<1> QED
  BY <1>1, ContainmentAlways, PTL

\* The workspace of a recorded result stays as it was checked, because nothing is
\* left that could write to it (produce_required_test_results).
THEOREM AlwaysCleanAsChecked == Spec => []CleanAsChecked
<1>1. ContainmentInvariant => CleanAsChecked
  BY DEF ContainmentInvariant, AnswerBacked, CleanAsChecked
<1> QED
  BY <1>1, ContainmentAlways, PTL

=============================================================================
