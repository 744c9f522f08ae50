---------------------------- MODULE BuzzIngress -----------------------------
(***************************************************************************)
(* control_plane/buzz_native_adapter.py and buzz_router.py: signed events  *)
(* are delivered any number of times, in any order, to several adapters.   *)
(* An adapter verifies an event against its clock, takes SQLite's write    *)
(* lock, looks for an earlier answer, and otherwise routes the command and *)
(* stores its answer with everything it changed, in one transaction.       *)
(*                                                                         *)
(* Answers can be lost and adapters can die at any step; the graph goes on *)
(* beside them, publications freeze it and move its baseline, and the gate *)
(* on its integrity can close at any time.  The project is one of the four *)
(* routes.  MaxClock bounds the clock, MaxFaults the failures.             *)
(***************************************************************************)
EXTENDS Naturals, FiniteSets, Sequences, GraphState

CONSTANTS
  Adapter, Event, Node, Goal, Thread, Sender, Objective, SHA,
  Body,        \* [Event -> Message]: what the sender signed
  GoalOf,      \* [Node -> Goal]
  First,       \* nodes that depend on no other
  May,         \* [Sender -> SUBSET Command]: the identity map
  ServicePlans, \* the goals the graph service is asked to create
  MaxAge, MaxSkew, MaxClock, MaxFaults,
  None

Command == {"goal", "evidence", "approve", "reject", "cancel", "resume"}

\* routed: the root channel is configured; valid: the payload parses.
Message == [sender : Sender, thread : Thread, command : Command, goal : Goal,
            objective : Objective, accepted : SHA, node : Node,
            at : Nat, routed : BOOLEAN, valid : BOOLEAN]

ASSUME BuzzAssumption ==
  /\ Body \in [Event -> Message]
  /\ GoalOf \in [Node -> Goal]
  /\ First \subseteq Node
  /\ May \in [Sender -> SUBSET Command]
  /\ ServicePlans \subseteq [goal : Goal, objective : Objective, accepted : SHA]
  /\ {MaxAge, MaxSkew, MaxClock, MaxFaults} \subseteq Nat

VARIABLES
  db,          \* the committed database
  call,        \* [Adapter -> Handling]
  publishing,  \* a publication of the project is pending
  intact,      \* the integrity gate is open
  clock,
  replies,     \* what senders were told, committed answers only
  faults

vars == <<db, call, publishing, intact, clock, replies, faults>>

-----------------------------------------------------------------------------

Binding == [sender : Sender, goal : Goal]

\* A goal and its idempotency key: the objective, and the baseline it was
\* planned on.
GoalRow == [objective : Objective, named : SHA]

\* A committed answer, with the node state it shows.
Response == [ok : BOOLEAN, shows : NodeState \cup {None}]

AuditRow == [event : Event, outcome : {"ALLOW", "DENY"}]

\* baseline: the accepted commit that the publication head and every goal of
\* the project have in common, once there is a goal.
Database == [node : [Node -> NodeState], goal : [Goal -> GoalRow \cup {None}],
             baseline : SHA \cup {None}, thread : [Thread -> Binding \cup {None}],
             audit : Seq(AuditRow), response : [Event -> Response \cup {None}]]

\* verified: outside the lock; begun, routed, persisted: inside a transaction
\* whose uncommitted contents are work.
Handling == [phase : {"idle", "verified", "begun", "routed", "persisted", "committed"},
             event : Event \cup {None}, work : Database \cup {None},
             answer : Response \cup {None}]

\* An absent row is none of the things that could be there.
ASSUME BuzzNoneAssumption ==
  None \notin Event /\ None \notin Binding /\ None \notin Response /\ None \notin Database

Idle == [phase |-> "idle", event |-> None, work |-> None, answer |-> None]

InTransaction == {"begun", "routed", "persisted"}

Free == \A a \in Adapter : call[a].phase \notin InTransaction

Becomes(a, handling) == call' = [call EXCEPT ![a] = handling]

Denied == [ok |-> FALSE, shows |-> None]

-----------------------------------------------------------------------------
(* BuzzRouter.handle_locked, inside the caller's transaction *)

Fresh(e) == Body[e].at + MaxAge >= clock /\ Body[e].at <= clock + MaxSkew

\* The sender may give the command, and its thread is nobody else's.
Entitled(d, e) ==
  LET m == Body[e] IN
  /\ m.command \in May[m.sender]
  /\ d.thread[m.thread] # None => d.thread[m.thread].sender = m.sender

\* A node of the goal its thread is bound to.
Addressed(d, e) ==
  LET m == Body[e] IN
  /\ d.thread[m.thread] # None
  /\ d.node[m.node] # Absent
  /\ d.thread[m.thread].goal = GoalOf[m.node]

Target(c) == IF c \in {"approve", "resume"} THEN "READY" ELSE "CANCELLED"

\* The row a goal command asks for.
Asked(m) == [objective |-> m.objective, named |-> m.accepted]

\* The goals it could be a replay of, by their id or by their key.
Matches(d, m) == {g \in Goal : d.goal[g] # None /\ (g = m.goal \/ d.goal[g] = Asked(m))}

\* plan_goal: a new goal names the project's baseline; one that is there already
\* is the very goal, still on the baseline it was planned on.
Plannable(d, m) ==
  \/ Matches(d, m) = {} /\ d.baseline \in {None, m.accepted}
  \/ Matches(d, m) = {m.goal} /\ d.goal[m.goal] = Asked(m) /\ d.baseline = m.accepted

\* UNIQUE(sender_pubkey, goal_id): the insert raises.
Conflicts(d, m) ==
  \E t \in Thread \ {m.thread} : d.thread[t] = [sender |-> m.sender, goal |-> m.goal]

\* A goal command that raises whenever it is tried.
Unplannable(d, e) ==
  LET m == Body[e] IN m.command = "goal" /\ (~Plannable(d, m) \/ Conflicts(d, m))

\* The command is refused before it changes anything.
Refused(d, e) ==
  LET m == Body[e] IN
  \/ ~Entitled(d, e)
  \/ m.command = "goal" /\ d.thread[m.thread] # None
  \/ m.command # "goal" /\ ~Addressed(d, e)
  \/ /\ m.command \in {"approve", "resume"} /\ d.node[m.node] # "NEEDS_HUMAN"
     /\ ~publishing
  \/ /\ m.command \in {"reject", "cancel"} /\ Target(m.command) \notin Successors(d.node[m.node])
     /\ ~publishing

\* A pending publication freezes what would change the graph: a goal that is
\* there already is only compared.
Frozen(d, e) ==
  LET m == Body[e] IN
  publishing /\ IF m.command = "goal" THEN Matches(d, m) = {} ELSE m.command # "evidence"

\* Raised inside the transaction: everything is rolled back, and the event
\* stays unanswered.
Raises(d, e) == ~Refused(d, e) /\ (Frozen(d, e) \/ Unplannable(d, e))

\* The goal with its whole chain of nodes; nothing, when they are there.
Planned(d, m) ==
  [d EXCEPT
     !.node = [n \in Node |->
                 IF GoalOf[n] = m.goal /\ d.node[n] = Absent
                 THEN IF n \in First THEN "READY" ELSE "BLOCKED"
                 ELSE d.node[n]],
     !.goal[m.goal] = Asked(m),
     !.baseline = m.accepted]

Dispatched(d, e) ==
  LET m == Body[e] IN
  CASE m.command = "goal" ->
         [Planned(d, m) EXCEPT !.thread[m.thread] = [sender |-> m.sender, goal |-> m.goal]]
    [] m.command = "evidence" -> d
    [] OTHER -> [d EXCEPT !.node[m.node] = Target(m.command)]

Audited(d, e, outcome) ==
  [d EXCEPT !.audit = Append(@, [event |-> e, outcome |-> outcome])]

\* An unmapped channel or a bad payload is answered without asking the router.
Handled(d, e) ==
  IF ~Body[e].routed \/ ~Body[e].valid THEN [db |-> d, answer |-> Denied]
  ELSE IF Refused(d, e) THEN [db |-> Audited(d, e, "DENY"), answer |-> Denied]
  ELSE LET after == Dispatched(d, e) IN
       [db |-> Audited(after, e, "ALLOW"),
        answer |-> [ok |-> TRUE,
                    shows |-> IF Body[e].command = "goal" THEN None
                              ELSE after.node[Body[e].node]]]

-----------------------------------------------------------------------------
(* BuzzNativeAdapter.handle_event *)

\* The clock is read before the lock is taken.  A stale event changes nothing.
Verify(a, e) ==
  /\ call[a] = Idle /\ Fresh(e)
  /\ Becomes(a, [Idle EXCEPT !.phase = "verified", !.event = e])
  /\ UNCHANGED <<db, publishing, intact, clock, replies, faults>>

\* BEGIN IMMEDIATE, behind the integrity gate.
Begin(a) ==
  /\ call[a].phase = "verified" /\ Free
  /\ intact
  /\ Becomes(a, [call[a] EXCEPT !.phase = "begun", !.work = db])
  /\ UNCHANGED <<db, publishing, intact, clock, replies, faults>>

Known(a) == call[a].work.response[call[a].event] # None

\* Fault: a replay is answered from the graph as it is now.
CurrentAnswer(a) ==
  LET e == call[a].event  stored == call[a].work.response[e] IN
  IF stored.shows = None THEN stored
  ELSE [stored EXCEPT !.shows = call[a].work.node[Body[e].node]]

StoredAnswer(a) == call[a].work.response[call[a].event]

Replay(a) ==
  /\ call[a].phase = "begun" /\ Known(a)
  /\ Becomes(a, [call[a] EXCEPT !.phase = "committed", !.work = None,
                                !.answer = StoredAnswer(a)])
  /\ UNCHANGED <<db, publishing, intact, clock, replies, faults>>

Route(a) ==
  /\ call[a].phase = "begun" /\ ~Known(a)
  /\ intact
  /\ LET e == call[a].event  d == call[a].work IN
     /\ Body[e].routed /\ Body[e].valid => ~Raises(d, e)
     /\ Becomes(a, [call[a] EXCEPT !.phase = "routed", !.work = Handled(d, e).db,
                                   !.answer = Handled(d, e).answer])
  /\ UNCHANGED <<db, publishing, intact, clock, replies, faults>>

\* The answer is stored, and the gate asked once more.
Persist(a) ==
  /\ call[a].phase = "routed" /\ call[a].event # None
  /\ intact
  /\ Becomes(a, [call[a] EXCEPT !.phase = "persisted",
                                !.work.response[call[a].event] = call[a].answer])
  /\ UNCHANGED <<db, publishing, intact, clock, replies, faults>>

\* Fault: the router commits what it did.
AsRouted(a) == call[a].phase \in {"routed", "persisted"} /\ call[a].event # None

\* One commit, once the answer is there.
Committable(a) == call[a].phase = "persisted"

Commit(a) ==
  /\ Committable(a)
  /\ db' = call[a].work
  /\ Becomes(a, [call[a] EXCEPT !.phase = "committed", !.work = None])
  /\ UNCHANGED <<publishing, intact, clock, replies, faults>>

Reply(a) ==
  /\ call[a].phase = "committed"
  /\ replies' = replies \cup {[event |-> call[a].event, answer |-> call[a].answer]}
  /\ Becomes(a, Idle)
  /\ UNCHANGED <<db, publishing, intact, clock, faults>>

\* Fault: the transaction is left open.
LeftOpen(a) == [Idle EXCEPT !.phase = "routed"]

\* A failure before the commit ends the transaction.
Closed(a) == Idle

\* Fault: what was done so far is kept.
KeptAnyway(a) == IF call[a].phase = "routed" THEN call[a].work ELSE db

RolledBack(a) == db

Abandon(a) ==
  /\ db' = RolledBack(a)
  /\ Becomes(a, Closed(a))
  /\ UNCHANGED <<publishing, intact, clock, replies>>

\* The command raises, or the gate is closed.
FailClosed(a) ==
  /\ \/ /\ call[a].phase = "begun" /\ ~Known(a)
        /\ Body[call[a].event].routed /\ Body[call[a].event].valid
        /\ Raises(call[a].work, call[a].event)
     \/ call[a].phase \in InTransaction \cup {"verified"} /\ call[a].event # None /\ ~intact
  /\ Abandon(a)
  /\ UNCHANGED faults

-----------------------------------------------------------------------------
(* What goes on beside the adapters, and what goes wrong *)

Elsewhere(n, s) ==
  /\ Free /\ s \in Successors(db.node[n]) /\ db.node[n] # "NEEDS_HUMAN"
  /\ db' = [db EXCEPT !.node[n] = s]
  /\ UNCHANGED <<call, publishing, intact, clock, replies, faults>>

\* create_goal of the graph service: plan_goal in a transaction of its own.
CreateGoal(m) ==
  /\ Free /\ ~publishing
  /\ Matches(db, m) = {} /\ Plannable(db, m)
  /\ db' = Planned(db, m)
  /\ UNCHANGED <<call, publishing, intact, clock, replies, faults>>

Tick ==
  /\ clock < MaxClock /\ clock' = clock + 1
  /\ UNCHANGED <<db, call, publishing, intact, replies, faults>>

Faulty == faults < MaxFaults /\ faults' = faults + 1

\* An error inside the transaction, or a lock that was not to be had.
Fail(a) ==
  /\ Faulty
  /\ call[a].phase \in InTransaction \cup {"verified"}
  /\ Abandon(a)

\* The adapter dies, or its answer is lost.
Crash(a) ==
  /\ Faulty
  /\ call[a] # Idle
  /\ Becomes(a, Idle)
  /\ UNCHANGED <<db, publishing, intact, clock, replies>>

BeginPublication ==
  /\ Faulty /\ Free /\ db.baseline # None
  /\ ~publishing /\ publishing' = TRUE
  /\ UNCHANGED <<db, call, intact, clock, replies>>

\* A promotion or a rollback is completed: the head and the goals move with it.
EndPublication(sha) ==
  /\ Free /\ publishing /\ publishing' = FALSE
  /\ db' = [db EXCEPT !.baseline = sha]
  /\ UNCHANGED <<call, intact, clock, replies, faults>>

Corrupt ==
  /\ Faulty /\ intact /\ intact' = FALSE
  /\ UNCHANGED <<db, call, publishing, clock, replies>>

Repair ==
  /\ ~intact /\ intact' = TRUE
  /\ UNCHANGED <<db, call, publishing, clock, replies, faults>>

-----------------------------------------------------------------------------

Init ==
  /\ db = [node |-> [n \in Node |-> Absent], goal |-> [g \in Goal |-> None],
           baseline |-> None, thread |-> [t \in Thread |-> None],
           audit |-> <<>>, response |-> [e \in Event |-> None]]
  /\ call = [a \in Adapter |-> Idle]
  /\ publishing = FALSE /\ intact = TRUE
  /\ clock = 0 /\ replies = {} /\ faults = 0

HandleEvent(a) ==
  \/ Begin(a) \/ Replay(a) \/ Route(a) \/ Persist(a) \/ Commit(a) \/ Reply(a)
  \/ FailClosed(a)

Next ==
  \/ \E a \in Adapter :
       \/ \E e \in Event : Verify(a, e)
       \/ HandleEvent(a) \/ Fail(a) \/ Crash(a)
  \/ \E n \in Node, s \in NodeState : Elsewhere(n, s)
  \/ \E m \in ServicePlans : CreateGoal(m)
  \/ \E sha \in SHA : EndPublication(sha)
  \/ Tick \/ BeginPublication \/ Corrupt \/ Repair

\* A call that was begun goes on; SQLite's busy handler gets the lock in the
\* end; and a sender that has no answer sends the event again.
Fairness ==
  \A a \in Adapter :
    /\ SF_vars(Begin(a))
    /\ WF_vars(Replay(a) \/ Route(a) \/ Persist(a) \/ Commit(a) \/ Reply(a) \/ FailClosed(a))
    /\ \A e \in Event : SF_vars(Verify(a, e) /\ db.response[e] = None)

Spec == Init /\ [][Next]_vars /\ Fairness

-----------------------------------------------------------------------------

TypeOK ==
  /\ db.node \in [Node -> NodeState]
  /\ db.goal \in [Goal -> GoalRow \cup {None}] /\ db.baseline \in SHA \cup {None}
  /\ db.thread \in [Thread -> Binding \cup {None}]
  /\ db.audit \in Seq(AuditRow)
  /\ db.response \in [Event -> Response \cup {None}]
  /\ \A a \in Adapter :
       /\ call[a].event \in Event \cup {None}
       /\ call[a].answer \in Response \cup {None}
       /\ call[a].phase \in InTransaction <=> call[a].work # None
  /\ replies \subseteq [event : Event, answer : Response]
  /\ clock \in 0..MaxClock /\ faults \in 0..MaxFaults

\* An event is answered once, whole, and for good (buzz_native_adapter.py,
\* handle_event; buzz_router.py, handle_locked).
Ledger == INSTANCE BuzzLedger WITH
  answered <- db.response, row <- db.node, bound <- db.thread, trail <- db.audit

ExactlyOnce == Ledger!Spec

\* However often an event is delivered, and whatever the graph has become
\* since, its sender is told the same (_replay_locked).
SameAnswer ==
  \A r \in replies : r.answer = db.response[r.event]

\* A node leaves its human gate only with the answer to an event that had none,
\* signed by the sender its thread is bound to: a replay opens no second gate.
GateNeedsEvent ==
  [][\A n \in Node :
       db.node[n] = "NEEDS_HUMAN" /\ db'.node[n] = "READY" =>
         \E e \in Event :
           /\ db.response[e] = None /\ db'.response[e] # None /\ db'.response[e].ok
           /\ Body[e].node = n /\ Body[e].command \in {"approve", "resume"}
           /\ db.thread[Body[e].thread] = [sender |-> Body[e].sender, goal |-> GoalOf[n]]]_vars

\* An event that stays fresh is answered in the end, whatever failed before,
\* unless its goal can no longer be planned: it names a commit that is not the
\* baseline (_create_goal_locked), is not the goal known by its id or key
\* (plan_goal), or is bound to another thread of its sender (buzz_threads).
Answered ==
  <>[](intact /\ ~publishing) =>
    \A e \in Event :
      <>[]Fresh(e) => <>(db.response[e] # None) \/ <>[]Unplannable(db, e)
=============================================================================
