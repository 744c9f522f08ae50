-------------------------- MODULE BuzzIngressProofs --------------------------
(***************************************************************************)
(* What BuzzIngress promises holds for any number of adapters, events,     *)
(* nodes and threads, and for every identity map.                          *)
(***************************************************************************)
EXTENDS BuzzIngress, TLAPS, SequenceTheorems

-----------------------------------------------------------------------------
(* The inductive invariant *)

Shapes == db \in Database /\ call \in [Adapter -> Handling]

\* SQLite's write lock: there is one transaction at a time.
OneTransaction ==
  \A a, b \in Adapter :
    call[a].phase \in InTransaction /\ call[b].phase \in InTransaction => a = b

\* What an answer goes with: the command done and audited, for a sender who may
\* give it, or nothing but the audit of a refusal.
Effect(before, after, e, answer) ==
  /\ answer.ok =>
       /\ Entitled(before, e)
       /\ IF Body[e].command = "goal" THEN before.thread[Body[e].thread] = None
          ELSE Addressed(before, e)
       /\ after = Audited(Dispatched(before, e), e, "ALLOW")
  /\ ~answer.ok => after = before \/ after = Audited(before, e, "DENY")

\* What a transaction holds is what its command makes of the committed database,
\* which nobody changed since the transaction was begun; an answer leaves the
\* adapter once it is committed.
Fits(c) ==
  /\ c.phase # "idle" => c.event \in Event
  /\ c.phase \in InTransaction => c.work \in Database
  /\ c.phase = "begun" => c.work = db
  /\ c.phase \in {"routed", "persisted"} => db.response[c.event] = None /\ c.answer \in Response
  /\ c.phase = "routed" => Effect(db, c.work, c.event, c.answer)
  /\ c.phase = "persisted" =>
       /\ c.work.response = [db.response EXCEPT ![c.event] = c.answer]
       /\ Effect(db, [c.work EXCEPT !.response = db.response], c.event, c.answer)
  /\ c.phase = "committed" => c.answer \in Response /\ c.answer = db.response[c.event]

Told ==
  \A r \in replies : r.event \in Event /\ r.answer \in Response /\ r.answer = db.response[r.event]

IngressInvariant ==
  /\ Shapes /\ OneTransaction
  /\ \A a \in Adapter : Fits(call[a])
  /\ Told

-----------------------------------------------------------------------------
(* What a command makes of a database *)

LEMMA Bodies ==
  ASSUME NEW e \in Event
  PROVE  /\ Body[e] \in Message /\ Body[e].sender \in Sender /\ Body[e].thread \in Thread
         /\ Body[e].command \in Command /\ Body[e].node \in Node
         /\ Body[e].goal \in Goal /\ Body[e].objective \in Objective /\ Body[e].accepted \in SHA
BY BuzzAssumption DEF Message

\* A plan inserts its goal and the nodes that are not there.
LEMMA PlannedShape ==
  ASSUME NEW d \in Database, NEW m, m.goal \in Goal, m.objective \in Objective, m.accepted \in SHA
  PROVE  /\ Planned(d, m) \in Database
         /\ Planned(d, m).thread = d.thread
         /\ Planned(d, m).audit = d.audit /\ Planned(d, m).response = d.response
         /\ \A n \in Node : d.node[n] # Absent => Planned(d, m).node[n] = d.node[n]
<1> DEFINE nodes == [n \in Node |->
              IF GoalOf[n] = m.goal /\ d.node[n] = Absent
              THEN IF n \in First THEN "READY" ELSE "BLOCKED"
              ELSE d.node[n]]
           goals == [d.goal EXCEPT ![m.goal] = Asked(m)]
<1>1. nodes \in [Node -> NodeState]
  BY DEF Database, NodeState, KnownNodeStates, InitialNodeStates
<1>2. Asked(m) \in GoalRow
  BY DEF Asked, GoalRow
<1>3. goals \in [Goal -> GoalRow \cup {None}]
  BY <1>2 DEF Database
<1>4. Planned(d, m) = [d EXCEPT !.node = nodes, !.goal = goals, !.baseline = m.accepted]
  BY DEF Planned, Database
<1>5. \A n \in Node : d.node[n] # Absent => nodes[n] = d.node[n]
  OBVIOUS
<1> HIDE DEF nodes, goals
<1>6. /\ Planned(d, m) \in Database /\ Planned(d, m).node = nodes
      /\ Planned(d, m).thread = d.thread
      /\ Planned(d, m).audit = d.audit /\ Planned(d, m).response = d.response
  BY <1>1, <1>3, <1>4 DEF Database
<1> QED
  BY <1>5, <1>6

\* A goal command plans it and binds its free thread.
LEMMA GoalDispatched ==
  ASSUME NEW d \in Database, NEW e \in Event, Body[e].command = "goal"
  PROVE  /\ Dispatched(d, e) \in Database
         /\ Dispatched(d, e).node = Planned(d, Body[e]).node
         /\ Dispatched(d, e).thread =
              [d.thread EXCEPT ![Body[e].thread] = [sender |-> Body[e].sender, goal |-> Body[e].goal]]
         /\ Dispatched(d, e).audit = d.audit /\ Dispatched(d, e).response = d.response
<1> DEFINE p == Planned(d, Body[e])
           bound == [d.thread EXCEPT ![Body[e].thread] = [sender |-> Body[e].sender, goal |-> Body[e].goal]]
<1>1. /\ p \in Database /\ p.thread = d.thread
      /\ p.audit = d.audit /\ p.response = d.response
  BY Bodies, PlannedShape
<1>2. [sender |-> Body[e].sender, goal |-> Body[e].goal] \in Binding
  BY Bodies DEF Binding
<1>3. Dispatched(d, e) = [p EXCEPT !.thread[Body[e].thread] = [sender |-> Body[e].sender, goal |-> Body[e].goal]]
  BY DEF Dispatched
<1>4. d.thread \in [Thread -> Binding \cup {None}] /\ Body[e].thread \in Thread
  BY Bodies DEF Database
<1>5. bound \in [Thread -> Binding \cup {None}]
  BY <1>2, <1>4
<1> HIDE DEF p
<1>6. Dispatched(d, e) = [p EXCEPT !.thread = bound]
  BY <1>1, <1>3 DEF Database
<1> HIDE DEF bound
<1>7. /\ Dispatched(d, e) \in Database /\ Dispatched(d, e).node = p.node
      /\ Dispatched(d, e).thread = bound
      /\ Dispatched(d, e).audit = p.audit /\ Dispatched(d, e).response = p.response
  BY <1>1, <1>5, <1>6 DEF Database
<1> QED
  BY <1>1, <1>7 DEF bound, p

LEMMA EvidenceDispatched ==
  ASSUME NEW d, NEW e, Body[e].command = "evidence"
  PROVE  Dispatched(d, e) = d
BY DEF Dispatched

\* Any other command moves its own node.
LEMMA NodeDispatched ==
  ASSUME NEW d \in Database, NEW e \in Event, Body[e].command \notin {"goal", "evidence"}
  PROVE  /\ Dispatched(d, e) \in Database
         /\ Dispatched(d, e).node = [d.node EXCEPT ![Body[e].node] = Target(Body[e].command)]
         /\ Dispatched(d, e).thread = d.thread
         /\ Dispatched(d, e).audit = d.audit /\ Dispatched(d, e).response = d.response
<1>1. Target(Body[e].command) \in NodeState
  BY DEF Target, NodeState, KnownNodeStates, InitialNodeStates, Terminal
<1> DEFINE moved == [d.node EXCEPT ![Body[e].node] = Target(Body[e].command)]
<1>2. Dispatched(d, e) = [d EXCEPT !.node = moved]
  BY DEF Dispatched, Database
<1>3. d.node \in [Node -> NodeState] /\ moved \in [Node -> NodeState]
  BY <1>1, Bodies DEF Database
<1> HIDE DEF moved
<1>4. /\ Dispatched(d, e) \in Database /\ Dispatched(d, e).node = moved
      /\ Dispatched(d, e).thread = d.thread
      /\ Dispatched(d, e).audit = d.audit /\ Dispatched(d, e).response = d.response
  BY <1>2, <1>3 DEF Database
<1> QED
  BY <1>4 DEF moved

LEMMA DispatchedShape ==
  ASSUME NEW d \in Database, NEW e \in Event
  PROVE  /\ Dispatched(d, e) \in Database /\ Dispatched(d, e).response = d.response
         /\ Dispatched(d, e).audit = d.audit
BY GoalDispatched, EvidenceDispatched, NodeDispatched

LEMMA AuditedShape ==
  ASSUME NEW d \in Database, NEW e \in Event, NEW outcome \in {"ALLOW", "DENY"}
  PROVE  /\ Audited(d, e, outcome) \in Database
         /\ Audited(d, e, outcome).node = d.node /\ Audited(d, e, outcome).thread = d.thread
         /\ Audited(d, e, outcome).response = d.response
         /\ Audited(d, e, outcome).audit = Append(d.audit, [event |-> e, outcome |-> outcome])
<1>1. Append(d.audit, [event |-> e, outcome |-> outcome]) \in Seq(AuditRow)
  BY AppendProperties DEF Database, AuditRow
<1> QED
  BY <1>1 DEF Audited, Database

LEMMA HandledShape ==
  ASSUME NEW d \in Database, NEW e \in Event
  PROVE  /\ Handled(d, e).db \in Database /\ Handled(d, e).answer \in Response
         /\ Handled(d, e).db.response = d.response
         /\ ~Handled(d, e).answer.ok => /\ Handled(d, e).db.node = d.node
                                         /\ Handled(d, e).db.thread = d.thread
         /\ Handled(d, e).answer.ok =>
              /\ Body[e].routed /\ Body[e].valid /\ ~Refused(d, e)
              /\ Handled(d, e).db = Audited(Dispatched(d, e), e, "ALLOW")
         /\ \/ Handled(d, e).db.audit = d.audit /\ ~Handled(d, e).answer.ok
            \/ \E outcome \in {"ALLOW", "DENY"} :
                 Handled(d, e).db.audit = Append(d.audit, [event |-> e, outcome |-> outcome])
<1>1. CASE ~Body[e].routed \/ ~Body[e].valid
  <2>1. Handled(d, e) = [db |-> d, answer |-> Denied]
    BY <1>1 DEF Handled
  <2> QED
    BY <2>1 DEF Denied, Response
<1>2. CASE ~(~Body[e].routed \/ ~Body[e].valid) /\ Refused(d, e)
  <2>1. Handled(d, e) = [db |-> Audited(d, e, "DENY"), answer |-> Denied]
    BY <1>2 DEF Handled
  <2> QED
    BY <2>1, AuditedShape DEF Denied, Response
<1>3. CASE ~(~Body[e].routed \/ ~Body[e].valid) /\ ~Refused(d, e)
  <2> DEFINE after == Dispatched(d, e)
             shown == IF Body[e].command = "goal" THEN None ELSE after.node[Body[e].node]
  <2>1. after \in Database /\ after.response = d.response /\ after.audit = d.audit
    BY DispatchedShape
  <2>2. Handled(d, e) = [db |-> Audited(after, e, "ALLOW"), answer |-> [ok |-> TRUE, shows |-> shown]]
    BY <1>3 DEF Handled
  <2>3. shown \in NodeState \cup {None}
    BY <2>1, Bodies DEF Database
  <2>4. /\ Audited(after, e, "ALLOW") \in Database
        /\ Audited(after, e, "ALLOW").response = d.response
        /\ Audited(after, e, "ALLOW").audit = Append(d.audit, [event |-> e, outcome |-> "ALLOW"])
    <3> HIDE DEF after
    <3>1. /\ Audited(after, e, "ALLOW") \in Database
          /\ Audited(after, e, "ALLOW").response = after.response
          /\ Audited(after, e, "ALLOW").audit = Append(after.audit, [event |-> e, outcome |-> "ALLOW"])
      BY <2>1, AuditedShape
    <3> QED
      BY <2>1, <3>1
  <2> HIDE DEF after, shown
  <2>5. Handled(d, e).answer \in Response /\ Handled(d, e).answer.ok
    BY <2>2, <2>3 DEF Response
  <2>6. Handled(d, e).db = Audited(after, e, "ALLOW")
    BY <2>2
  <2> QED
    BY <1>3, <2>4, <2>5, <2>6 DEF after
<1> QED
  BY <1>1, <1>2, <1>3

LEMMA HandledEffect ==
  ASSUME NEW d \in Database, NEW e \in Event
  PROVE  Effect(d, Handled(d, e).db, e, Handled(d, e).answer)
<1>1. CASE Handled(d, e).answer.ok
  BY <1>1, HandledShape DEF Effect, Refused
<1>2. CASE ~Handled(d, e).answer.ok
  <2>1. Handled(d, e).db \in {d, Audited(d, e, "DENY")}
    BY <1>2 DEF Handled
  <2> QED
    BY <1>2, <2>1 DEF Effect
<1> QED
  BY <1>1, <1>2

\* What the effect of an answer is for each kind of command.
LEMMA EffectDenied ==
  ASSUME NEW d \in Database, NEW w, NEW e \in Event, NEW answer, Effect(d, w, e, answer), ~answer.ok
  PROVE  /\ w \in Database
         /\ w.node = d.node /\ w.thread = d.thread /\ w.response = d.response
         /\ w.audit = d.audit \/ w.audit = Append(d.audit, [event |-> e, outcome |-> "DENY"])
<1>1. w = d \/ w = Audited(d, e, "DENY")
  BY DEF Effect
<1>2. /\ Audited(d, e, "DENY") \in Database
      /\ Audited(d, e, "DENY").node = d.node /\ Audited(d, e, "DENY").thread = d.thread
      /\ Audited(d, e, "DENY").response = d.response
      /\ Audited(d, e, "DENY").audit = Append(d.audit, [event |-> e, outcome |-> "DENY"])
  BY AuditedShape
<1> QED
  BY <1>1, <1>2

LEMMA EffectAllowed ==
  ASSUME NEW d \in Database, NEW w, NEW e \in Event, NEW answer, Effect(d, w, e, answer), answer.ok
  PROVE  /\ w = Audited(Dispatched(d, e), e, "ALLOW") /\ Entitled(d, e)
         /\ w \in Database /\ w.response = d.response
         /\ w.node = Dispatched(d, e).node /\ w.thread = Dispatched(d, e).thread
<1> DEFINE x == Dispatched(d, e)
<1>1. x \in Database /\ x.response = d.response
  BY DispatchedShape
<1>2. w = Audited(x, e, "ALLOW") /\ Entitled(d, e)
  BY DEF Effect
<1> HIDE DEF x
<1>3. w \in Database /\ w.node = x.node /\ w.thread = x.thread /\ w.response = x.response
  BY <1>1, <1>2, AuditedShape
<1> QED
  BY <1>1, <1>2, <1>3 DEF x

LEMMA AllowedAudited ==
  ASSUME NEW d \in Database, NEW w, NEW e \in Event, NEW answer, Effect(d, w, e, answer), answer.ok
  PROVE  w.audit = Append(d.audit, [event |-> e, outcome |-> "ALLOW"])
<1> DEFINE x == Dispatched(d, e)
<1>1. x \in Database /\ x.audit = d.audit
  BY DispatchedShape
<1>2. w = Audited(x, e, "ALLOW")
  BY DEF Effect
<1> HIDE DEF x
<1>3. Audited(x, e, "ALLOW").audit = Append(x.audit, [event |-> e, outcome |-> "ALLOW"])
  BY <1>1 DEF Audited, Database
<1> QED
  BY <1>1, <1>2, <1>3

LEMMA EffectOfGoal ==
  ASSUME NEW d \in Database, NEW w, NEW e \in Event, NEW answer, Effect(d, w, e, answer), answer.ok,
         Body[e].command = "goal"
  PROVE  /\ d.thread[Body[e].thread] = None
         /\ \A n \in Node : d.node[n] # Absent => w.node[n] = d.node[n]
         /\ w.thread = [d.thread EXCEPT ![Body[e].thread] =
                          [sender |-> Body[e].sender, goal |-> Body[e].goal]]
<1>1. d.thread[Body[e].thread] = None
  BY DEF Effect
<1>2. w.node = Dispatched(d, e).node /\ w.thread = Dispatched(d, e).thread
  BY EffectAllowed
<1> DEFINE planned == Planned(d, Body[e]).node
<1>3. /\ Dispatched(d, e).node = planned
      /\ Dispatched(d, e).thread =
           [d.thread EXCEPT ![Body[e].thread] = [sender |-> Body[e].sender, goal |-> Body[e].goal]]
  BY GoalDispatched
<1>4. \A n \in Node : d.node[n] # Absent => planned[n] = d.node[n]
  BY Bodies, PlannedShape
<1> HIDE DEF planned
<1> QED
  BY <1>1, <1>2, <1>3, <1>4

LEMMA EffectOfEvidence ==
  ASSUME NEW d \in Database, NEW w, NEW e \in Event, NEW answer, Effect(d, w, e, answer), answer.ok,
         Body[e].command = "evidence"
  PROVE  w.node = d.node /\ w.thread = d.thread
<1>1. w.node = Dispatched(d, e).node /\ w.thread = Dispatched(d, e).thread
  BY EffectAllowed
<1>2. Dispatched(d, e) = d
  BY EvidenceDispatched
<1> QED
  BY <1>1, <1>2

LEMMA EffectOfNode ==
  ASSUME NEW d \in Database, NEW w, NEW e \in Event, NEW answer, Effect(d, w, e, answer), answer.ok,
         Body[e].command \notin {"goal", "evidence"}
  PROVE  /\ Addressed(d, e) /\ Entitled(d, e)
         /\ w.node = [d.node EXCEPT ![Body[e].node] = Target(Body[e].command)]
         /\ w.thread = d.thread
<1>1. Addressed(d, e)
  BY DEF Effect
<1>2. /\ w \in Database /\ Entitled(d, e)
      /\ w.node = Dispatched(d, e).node /\ w.thread = Dispatched(d, e).thread
  BY EffectAllowed
<1>3. /\ Dispatched(d, e).node = [d.node EXCEPT ![Body[e].node] = Target(Body[e].command)]
      /\ Dispatched(d, e).thread = d.thread
  BY NodeDispatched
<1> QED
  BY <1>1, <1>2, <1>3

-----------------------------------------------------------------------------
(* The invariant is kept *)

\* One call goes on, and the database stays.
LEMMA OneCallMoves ==
  ASSUME IngressInvariant, NEW a \in Adapter, NEW h \in Handling, Becomes(a, h),
         db' = db, Told', Fits(h),
         h.phase \in InTransaction => call[a].phase \in InTransaction \/ Free
  PROVE  IngressInvariant'
<1>0. call \in [Adapter -> Handling] /\ db \in Database /\ OneTransaction
  BY DEF IngressInvariant, Shapes
<1>1. call' \in [Adapter -> Handling] /\ \A b \in Adapter : call'[b] = IF b = a THEN h ELSE call[b]
  BY <1>0 DEF Becomes
<1>2. Shapes'
  BY <1>0, <1>1 DEF Shapes
<1>3. OneTransaction'
  BY <1>0, <1>1 DEF OneTransaction, Free
<1>4. ASSUME NEW b \in Adapter PROVE Fits(call[b])'
  BY <1>1 DEF IngressInvariant, Fits
<1> QED
  BY <1>2, <1>3, <1>4 DEF IngressInvariant

LEMMA CallsMove ==
  ASSUME IngressInvariant, NEW a \in Adapter,
         \/ \E e \in Event : Verify(a, e)
         \/ Begin(a) \/ Replay(a) \/ Route(a) \/ Persist(a) \/ Reply(a)
         \/ FailClosed(a) \/ Fail(a) \/ Crash(a)
  PROVE  IngressInvariant'
<1>0. /\ call[a] \in Handling /\ db \in Database /\ Fits(call[a]) /\ Told
      /\ None \notin Response /\ None \notin Database /\ None \notin Event
  BY BuzzNoneAssumption DEF IngressInvariant, Shapes
<1>1. Idle \in Handling /\ Fits(Idle)
  BY DEF Idle, Handling, Fits, InTransaction
<1>2. ASSUME NEW e \in Event, Verify(a, e) PROVE IngressInvariant'
  <2>1. Told' /\ db' = db /\ Becomes(a, [Idle EXCEPT !.phase = "verified", !.event = e])
    BY <1>0, <1>2 DEF Verify, Told
  <2>2. [Idle EXCEPT !.phase = "verified", !.event = e] \in Handling
    BY DEF Idle, Handling
  <2>3. Fits([Idle EXCEPT !.phase = "verified", !.event = e])
    BY DEF Idle, Fits, InTransaction
  <2> QED
    BY <2>1, <2>2, <2>3, OneCallMoves DEF Idle, InTransaction
<1>3. CASE Begin(a)
  <2> DEFINE h == [call[a] EXCEPT !.phase = "begun", !.work = db]
  <2>1. Told' /\ db' = db /\ Becomes(a, h) /\ Free /\ call[a].phase = "verified"
    BY <1>0, <1>3 DEF Begin, Told
  <2>2. h \in Handling /\ Fits(h)
    BY <1>0, <2>1 DEF Handling, Fits, InTransaction
  <2> HIDE DEF h
  <2> QED
    BY <2>1, <2>2, OneCallMoves
<1>4. CASE Replay(a)
  <2> DEFINE h == [call[a] EXCEPT !.phase = "committed", !.work = None, !.answer = StoredAnswer(a)]
  <2>1. Told' /\ db' = db /\ Becomes(a, h) /\ call[a].phase = "begun" /\ Known(a)
    BY <1>0, <1>4 DEF Replay, Told
  <2>2. call[a].event \in Event /\ call[a].work = db
    BY <1>0, <2>1 DEF Fits
  <2>3. StoredAnswer(a) = db.response[call[a].event] /\ StoredAnswer(a) \in Response
    BY <1>0, <2>1, <2>2 DEF StoredAnswer, Known, Database
  <2>4. h \in Handling /\ h.phase = "committed" /\ h.event = call[a].event /\ h.answer = StoredAnswer(a)
    BY <1>0, <2>3 DEF Handling
  <2> HIDE DEF h
  <2>5. Fits(h)
    BY <2>2, <2>3, <2>4 DEF Fits, InTransaction
  <2> QED
    BY <2>1, <2>4, <2>5, OneCallMoves DEF InTransaction
<1>5. CASE Route(a)
  <2> DEFINE done == Handled(call[a].work, call[a].event)
             h == [call[a] EXCEPT !.phase = "routed", !.work = done.db, !.answer = done.answer]
  <2>1. Told' /\ db' = db /\ Becomes(a, h) /\ call[a].phase = "begun" /\ ~Known(a)
    BY <1>0, <1>5 DEF Route, Told
  <2>2. call[a].event \in Event /\ call[a].work = db
    BY <1>0, <2>1 DEF Fits
  <2>3. done.db \in Database /\ done.answer \in Response /\ Effect(db, done.db, call[a].event, done.answer)
    BY <1>0, <2>2, HandledShape, HandledEffect
  <2>4. db.response[call[a].event] = None
    BY <2>1, <2>2 DEF Known
  <2> HIDE DEF done
  <2>5. /\ h \in Handling /\ h.phase = "routed" /\ h.event = call[a].event
        /\ h.work = done.db /\ h.answer = done.answer
    BY <1>0, <2>3 DEF Handling
  <2> HIDE DEF h
  <2>6. Fits(h)
    BY <2>2, <2>3, <2>4, <2>5 DEF Fits, InTransaction
  <2> QED
    BY <2>1, <2>5, <2>6, OneCallMoves DEF InTransaction
<1>6. CASE Persist(a)
  <2> DEFINE e1 == call[a].event
             w == [call[a].work EXCEPT !.response[e1] = call[a].answer]
             h == [call[a] EXCEPT !.phase = "persisted", !.work = w]
  <2>1. /\ Told' /\ db' = db /\ call[a].phase = "routed"
        /\ Becomes(a, [call[a] EXCEPT !.phase = "persisted", !.work.response[call[a].event] = call[a].answer])
    BY <1>0, <1>6 DEF Persist, Told
  <2>2. /\ e1 \in Event /\ call[a].work \in Database /\ db.response[e1] = None
        /\ call[a].answer \in Response /\ Effect(db, call[a].work, e1, call[a].answer)
    BY <1>0, <2>1 DEF Fits, InTransaction
  <2>3. call[a].work.response = db.response
    <3>1. CASE call[a].answer.ok
      BY <1>0, <2>2, <3>1, EffectAllowed
    <3>2. CASE ~call[a].answer.ok
      BY <1>0, <2>2, <3>2, EffectDenied
    <3> QED
      BY <3>1, <3>2
  <2>4. /\ w \in Database /\ w.response = [db.response EXCEPT ![e1] = call[a].answer]
        /\ [w EXCEPT !.response = db.response] = call[a].work
    <3>1. w = [call[a].work EXCEPT !.response = [db.response EXCEPT ![e1] = call[a].answer]]
      BY <2>3
    <3>2. [db.response EXCEPT ![e1] = call[a].answer] \in [Event -> Response \cup {None}]
      BY <1>0, <2>2 DEF Database
    <3> HIDE DEF w
    <3>3. w \in Database /\ w.response = [db.response EXCEPT ![e1] = call[a].answer]
      BY <2>2, <3>1, <3>2 DEF Database
    <3>4. [w EXCEPT !.response = db.response] = [call[a].work EXCEPT !.response = db.response]
      BY <2>2, <3>1 DEF Database
    <3>5. [call[a].work EXCEPT !.response = db.response] = call[a].work
      BY <2>2, <2>3 DEF Database
    <3> QED
      BY <3>3, <3>4, <3>5
  <2>5. [call[a] EXCEPT !.phase = "persisted", !.work.response[call[a].event] = call[a].answer] = h
    BY <1>0 DEF Handling
  <2> HIDE DEF w
  <2>6. /\ h \in Handling /\ h.phase = "persisted" /\ h.event = e1 /\ h.work = w
        /\ h.answer = call[a].answer
    BY <1>0, <2>4 DEF Handling
  <2>7. Becomes(a, h)
    BY <2>1, <2>5
  <2> HIDE DEF h, e1
  <2>8. Fits(h)
    BY <2>2, <2>4, <2>6 DEF Fits, InTransaction
  <2> QED
    BY <2>1, <2>6, <2>7, <2>8, OneCallMoves DEF InTransaction
<1>7. CASE Reply(a)
  <2>1. /\ db' = db /\ Becomes(a, Idle) /\ call[a].phase = "committed"
        /\ replies' = replies \cup {[event |-> call[a].event, answer |-> call[a].answer]}
    BY <1>7 DEF Reply
  <2>2. Told'
    BY <1>0, <2>1 DEF Told, Fits
  <2> QED
    BY <1>1, <2>1, <2>2, OneCallMoves DEF Idle, InTransaction
<1>8. CASE FailClosed(a) \/ Fail(a) \/ Crash(a)
  <2>1. db' = db /\ Becomes(a, Idle) /\ replies' = replies
    BY <1>8 DEF FailClosed, Fail, Crash, Abandon, Closed, RolledBack
  <2>2. Told'
    BY <1>0, <2>1 DEF Told
  <2> QED
    BY <1>1, <2>1, <2>2, OneCallMoves DEF Idle, InTransaction
<1> QED
  BY <1>2, <1>3, <1>4, <1>5, <1>6, <1>7, <1>8

\* The one transaction is committed: what the others hold was no answer to the
\* same event.
LEMMA CommitKeeps ==
  ASSUME IngressInvariant, NEW a \in Adapter, Commit(a)
  PROVE  IngressInvariant'
<1> DEFINE e == call[a].event
           h == [call[a] EXCEPT !.phase = "committed", !.work = None]
<1>0. /\ call \in [Adapter -> Handling] /\ call[a] \in Handling /\ db \in Database /\ Fits(call[a])
      /\ Told /\ OneTransaction /\ None \notin Response
  BY BuzzNoneAssumption DEF IngressInvariant, Shapes
<1>1. /\ call[a].phase = "persisted" /\ db' = call[a].work /\ replies' = replies
      /\ call' = [call EXCEPT ![a] = h]
  BY DEF Commit, Committable, Becomes
<1>2. /\ e \in Event /\ db' \in Database /\ db.response[e] = None /\ call[a].answer \in Response
      /\ db'.response = [db.response EXCEPT ![e] = call[a].answer]
  BY <1>0, <1>1 DEF Fits, InTransaction
<1>3. /\ db'.response[e] = call[a].answer
      /\ \A d \in Event : db.response[d] \in Response => db'.response[d] = db.response[d]
  BY <1>0, <1>2 DEF Database
<1>4. h \in Handling /\ h.phase = "committed" /\ h.event = e /\ h.answer = call[a].answer
  BY <1>0 DEF Handling
<1> HIDE DEF h, e
<1>5. call' \in [Adapter -> Handling] /\ \A b \in Adapter : call'[b] = IF b = a THEN h ELSE call[b]
  BY <1>0, <1>1, <1>4
<1>6. Shapes'
  BY <1>2, <1>5 DEF Shapes
<1>7. OneTransaction'
  BY <1>0, <1>4, <1>5 DEF OneTransaction, InTransaction
<1>8. ASSUME NEW b \in Adapter PROVE Fits(call[b])'
  <2>1. CASE b = a
    BY <1>2, <1>3, <1>4, <1>5, <2>1 DEF Fits, InTransaction
  <2>2. CASE b # a
    <3>1. call[b].phase \notin InTransaction
      BY <1>0, <1>1, <2>2 DEF OneTransaction, InTransaction
    <3>2. Fits(call[b]) /\ call'[b] = call[b]
      BY <1>5, <2>2 DEF IngressInvariant
    <3> QED
      BY <1>3, <3>1, <3>2 DEF Fits, InTransaction
  <2> QED
    BY <2>1, <2>2
<1>9. Told'
  BY <1>0, <1>1, <1>3 DEF Told
<1> QED
  BY <1>6, <1>7, <1>8, <1>9 DEF IngressInvariant

\* What else goes on changes neither an answer nor a thread nor the audit, and
\* opens no human gate.
Aside ==
  \/ \E n \in Node, s \in NodeState : Elsewhere(n, s)
  \/ \E m \in ServicePlans : CreateGoal(m)
  \/ \E sha \in SHA : EndPublication(sha)

LEMMA AsideMoves ==
  ASSUME db \in Database, Aside
  PROVE  /\ Free /\ call' = call /\ replies' = replies
         /\ db' \in Database /\ db'.response = db.response
         /\ db'.thread = db.thread /\ db'.audit = db.audit
         /\ \A n \in Node : db.node[n] = "NEEDS_HUMAN" => db'.node[n] # "READY"
<1>1. ASSUME NEW n \in Node, NEW s \in NodeState, Elsewhere(n, s)
      PROVE  /\ Free /\ call' = call /\ replies' = replies
             /\ db' \in Database /\ db'.response = db.response
             /\ db'.thread = db.thread /\ db'.audit = db.audit
             /\ \A k \in Node : db.node[k] = "NEEDS_HUMAN" => db'.node[k] # "READY"
  <2>1. Free /\ call' = call /\ replies' = replies /\ db' = [db EXCEPT !.node[n] = s] /\ db.node[n] # "NEEDS_HUMAN"
    BY <1>1 DEF Elsewhere
  <2> QED
    BY <2>1 DEF Database
<1>2. ASSUME NEW m \in ServicePlans, CreateGoal(m)
      PROVE  /\ Free /\ call' = call /\ replies' = replies
             /\ db' \in Database /\ db'.response = db.response
             /\ db'.thread = db.thread /\ db'.audit = db.audit
             /\ \A k \in Node : db.node[k] = "NEEDS_HUMAN" => db'.node[k] # "READY"
  <2>1. Free /\ call' = call /\ replies' = replies /\ db' = Planned(db, m)
    BY <1>2 DEF CreateGoal
  <2>2. m.goal \in Goal /\ m.objective \in Objective /\ m.accepted \in SHA
    BY BuzzAssumption
  <2> QED
    BY <2>1, <2>2, PlannedShape DEF Absent
<1>3. ASSUME NEW sha \in SHA, EndPublication(sha)
      PROVE  /\ Free /\ call' = call /\ replies' = replies
             /\ db' \in Database /\ db'.response = db.response
             /\ db'.thread = db.thread /\ db'.audit = db.audit
             /\ \A k \in Node : db.node[k] = "NEEDS_HUMAN" => db'.node[k] # "READY"
  <2>1. Free /\ call' = call /\ replies' = replies /\ db' = [db EXCEPT !.baseline = sha]
    BY <1>3 DEF EndPublication
  <2> QED
    BY <2>1 DEF Database
<1> QED
  BY <1>1, <1>2, <1>3 DEF Aside

LEMMA OthersKeep ==
  ASSUME IngressInvariant, Aside \/ Tick \/ BeginPublication \/ Corrupt \/ Repair
  PROVE  IngressInvariant'
<1>1. CASE Aside
  <2>1. Free /\ call' = call /\ replies' = replies /\ db' \in Database /\ db'.response = db.response
    BY <1>1, AsideMoves DEF IngressInvariant, Shapes
  <2>2. ASSUME NEW a \in Adapter PROVE Fits(call[a])'
    <3>1. call[a].phase \notin InTransaction /\ Fits(call[a])
      BY <2>1 DEF Free, IngressInvariant
    <3> QED
      BY <2>1, <3>1 DEF Fits, InTransaction
  <2>3. Shapes' /\ OneTransaction' /\ Told'
    BY <2>1 DEF IngressInvariant, Shapes, OneTransaction, Told
  <2> QED
    BY <2>2, <2>3 DEF IngressInvariant
<1>2. CASE Tick \/ BeginPublication \/ Corrupt \/ Repair
  <2>1. db' = db /\ call' = call /\ replies' = replies
    BY <1>2 DEF Tick, BeginPublication, Corrupt, Repair
  <2> QED
    BY <2>1 DEF IngressInvariant, Shapes, OneTransaction, Fits, Told
<1> QED
  BY <1>1, <1>2

LEMMA IngressStarts == Init => IngressInvariant
<1> SUFFICES ASSUME Init PROVE IngressInvariant
  OBVIOUS
<1>1. Idle \in Handling
  BY DEF Idle, Handling
<1>2. db \in Database
  BY DEF Init, Database, NodeState
<1> QED
  BY <1>1, <1>2
  DEF Init, IngressInvariant, Shapes, OneTransaction, Fits, Told, Idle, InTransaction

LEMMA IngressKept == IngressInvariant /\ [Next]_vars => IngressInvariant'
<1> SUFFICES ASSUME IngressInvariant, [Next]_vars PROVE IngressInvariant'
  OBVIOUS
<1>1. CASE Next
  BY <1>1, CallsMove, CommitKeeps, OthersKeep DEF Next, HandleEvent, Aside
<1>2. CASE UNCHANGED vars
  BY <1>2 DEF vars, IngressInvariant, Shapes, OneTransaction, Fits, Told
<1> QED
  BY <1>1, <1>2

LEMMA IngressAlways == Spec => []IngressInvariant
BY IngressStarts, IngressKept, PTL DEF Spec

-----------------------------------------------------------------------------
(* What a step does to the database *)

LEMMA StepsOfDatabase ==
  ASSUME Next
  PROVE  \/ db' = db
         \/ Aside
         \/ \E a \in Adapter : Commit(a)
<1>1. ASSUME NEW a \in Adapter, HandleEvent(a), ~Commit(a) PROVE db' = db
  BY <1>1 DEF HandleEvent, Begin, Replay, Route, Persist, Reply, FailClosed, Abandon, RolledBack
<1>2. ASSUME NEW a \in Adapter, \/ \E e \in Event : Verify(a, e)
                               \/ Fail(a) \/ Crash(a)
      PROVE  db' = db
  BY <1>2 DEF Verify, Fail, Crash, Abandon, RolledBack
<1>3. CASE Tick \/ BeginPublication \/ Corrupt \/ Repair
  BY <1>3 DEF Tick, BeginPublication, Corrupt, Repair
<1> QED
  BY <1>1, <1>2, <1>3 DEF Next, Aside

\* A commit answers one event, with the effect of its answer.
Answers(e, answer, w) ==
  /\ db.response[e] = None /\ db'.response = [db.response EXCEPT ![e] = answer]
  /\ Effect(db, w, e, answer)
  /\ db'.node = w.node /\ db'.thread = w.thread /\ db'.audit = w.audit

LEMMA CommitAnswers ==
  ASSUME IngressInvariant, NEW a \in Adapter, Commit(a)
  PROVE  \E e \in Event, answer \in Response : \E w : Answers(e, answer, w)
<1> DEFINE e == call[a].event
           w == [call[a].work EXCEPT !.response = db.response]
<1>0. call[a] \in Handling /\ db \in Database /\ Fits(call[a])
  BY DEF IngressInvariant, Shapes
<1>1. call[a].phase = "persisted" /\ db' = call[a].work
  BY DEF Commit, Committable
<1>2. /\ e \in Event /\ db' \in Database /\ db.response[e] = None /\ call[a].answer \in Response
      /\ db'.response = [db.response EXCEPT ![e] = call[a].answer]
      /\ Effect(db, w, e, call[a].answer)
  BY <1>0, <1>1 DEF Fits, InTransaction
<1>3. w \in Database /\ w.node = db'.node /\ w.thread = db'.thread /\ w.audit = db'.audit
  BY <1>0, <1>1, <1>2 DEF Database
<1> HIDE DEF e, w
<1> QED
  BY <1>2, <1>3 DEF Answers

LEMMA AppendIsPrefixed ==
  ASSUME NEW S, NEW seq \in Seq(S), NEW x \in S
  PROVE  Len(Append(seq, x)) = Len(seq) + 1 /\ SubSeq(Append(seq, x), 1, Len(seq)) = seq
<1>1. Len(Append(seq, x)) = Len(seq) + 1 /\ Append(seq, x) = seq \o <<x>> /\ Len(seq) \in Nat
  BY AppendProperties, AppendIsConcat
<1>2. CASE Len(seq) = 0
  <2>1. seq = <<>>
    BY <1>2
  <2>2. SubSeq(Append(seq, x), 1, Len(seq)) = <<>>
    BY <1>2, SubSeqEmpty
  <2> QED
    BY <1>1, <2>1, <2>2
<1>3. CASE Len(seq) > 0
  <2>1. /\ <<x>> \in Seq(S) /\ 1 \in 1..Len(seq) /\ Len(seq) \in 1..Len(seq)
    BY <1>1, <1>3
  <2>2. SubSeq(seq \o <<x>>, 1, Len(seq)) = SubSeq(seq, 1, Len(seq))
    BY <2>1, SubSeqOfConcat1
  <2> QED
    BY <1>1, <2>2, SubSeqFull
<1> QED
  BY <1>1, <1>2, <1>3

\* The commit of an answer is the one step the ledger allows an event.
LEMMA AnswersOnce ==
  ASSUME db \in Database, NEW e \in Event, NEW answer \in Response, NEW w, Answers(e, answer, w)
  PROVE  Ledger!Answer(e)
<1>0. /\ None \notin Response /\ None \notin Binding
      /\ db.response \in [Event -> Response \cup {None}] /\ db.audit \in Seq(AuditRow)
      /\ db.thread \in [Thread -> Binding \cup {None}] /\ db.node \in [Node -> NodeState]
      /\ Body[e].thread \in Thread /\ Body[e].node \in Node
      /\ [sender |-> Body[e].sender, goal |-> Body[e].goal] \in Binding
  BY BuzzNoneAssumption, Bodies DEF Database, Binding
<1>a. /\ Effect(db, w, e, answer) /\ db \in Database
      /\ db'.node = w.node /\ db'.thread = w.thread /\ db'.audit = w.audit
  BY DEF Answers
<1>1. /\ db.response[e] = None /\ db'.response[e] = answer /\ db'.response[e] # None
      /\ \A d \in Event \ {e} : db'.response[d] = db.response[d]
  BY <1>0 DEF Answers
<1>2. /\ Len(db'.audit) \in {Len(db.audit), Len(db.audit) + 1}
      /\ SubSeq(db'.audit, 1, Len(db.audit)) = db.audit
      /\ answer.ok => Len(db'.audit) = Len(db.audit) + 1
  <2>1. CASE db'.audit = db.audit /\ ~answer.ok
    BY <1>0, <2>1, SubSeqFull
  <2>2. ASSUME NEW outcome \in {"ALLOW", "DENY"}, db'.audit = Append(db.audit, [event |-> e, outcome |-> outcome])
        PROVE  Len(db'.audit) = Len(db.audit) + 1 /\ SubSeq(db'.audit, 1, Len(db.audit)) = db.audit
    <3>1. [event |-> e, outcome |-> outcome] \in AuditRow
      BY DEF AuditRow
    <3> QED
      BY <1>0, <2>2, <3>1, AppendIsPrefixed
  <2>3. CASE answer.ok
    <3>1. db'.audit = Append(db.audit, [event |-> e, outcome |-> "ALLOW"])
      BY <1>a, <2>3, AllowedAudited
    <3> QED
      BY <2>2, <3>1
  <2>4. CASE ~answer.ok
    <3>1. db'.audit = db.audit \/ db'.audit = Append(db.audit, [event |-> e, outcome |-> "DENY"])
      BY <1>a, <2>4, EffectDenied
    <3> QED
      BY <2>1, <2>2, <2>4, <3>1
  <2> QED
    BY <2>3, <2>4
<1>3. ~answer.ok => db'.node = db.node /\ db'.thread = db.thread
  BY <1>a, EffectDenied
<1>4. ASSUME answer.ok
      PROVE  /\ Ledger!Kept(db.thread, db'.thread) /\ Ledger!OnlyOne(db.thread, db'.thread)
             /\ db'.thread = db.thread => Ledger!OnlyOne(db.node, db'.node)
  <2> USE DEF Ledger!Kept, Ledger!OnlyOne
  <2>1. CASE Body[e].command = "goal"
    <3>1. /\ db.thread[Body[e].thread] = None
          /\ db'.thread = [db.thread EXCEPT ![Body[e].thread] =
                            [sender |-> Body[e].sender, goal |-> Body[e].goal]]
      BY <1>a, <1>4, <2>1, EffectOfGoal
    <3>2. db'.thread # db.thread
      BY <1>0, <3>1
    <3> QED
      BY <1>0, <3>1, <3>2
  <2>2. CASE Body[e].command = "evidence"
    <3>1. db'.thread = db.thread /\ db'.node = db.node
      BY <1>a, <1>4, <2>2, EffectOfEvidence
    <3> QED
      BY <3>1
  <2>3. CASE Body[e].command \notin {"goal", "evidence"}
    <3>1. /\ db'.thread = db.thread
          /\ db'.node = [db.node EXCEPT ![Body[e].node] = Target(Body[e].command)]
      BY <1>a, <1>4, <2>3, EffectOfNode
    <3> QED
      BY <1>0, <3>1
  <2> QED
    BY <2>1, <2>2, <2>3
<1> QED
  BY <1>1, <1>2, <1>3, <1>4 DEF Ledger!Answer

\* Neither a goal nor a question about evidence opens a human gate.
LEMMA GoalsOpenNothing ==
  ASSUME NEW d \in Database, NEW w, NEW e \in Event, NEW answer, Effect(d, w, e, answer), answer.ok,
         NEW n \in Node, d.node[n] = "NEEDS_HUMAN", w.node[n] = "READY"
  PROVE  Body[e].command \notin {"goal", "evidence"}
<1>1. CASE Body[e].command = "goal"
  BY <1>1, EffectOfGoal DEF Absent
<1>2. CASE Body[e].command = "evidence"
  BY <1>2, EffectOfEvidence
<1> QED
  BY <1>1, <1>2

-----------------------------------------------------------------------------
(* The theorems *)

\* However often an event is delivered, to whichever adapter and whatever was
\* changed since, its sender is told what was committed for it (_replay_locked).
THEOREM AlwaysTheSameAnswer == Spec => []SameAnswer
<1>1. IngressInvariant => SameAnswer
  BY DEF IngressInvariant, Told, SameAnswer
<1> QED
  BY <1>1, IngressAlways, PTL

\* The ingress implements its ledger: an event is answered at most once, with
\* everything it changed or with nothing (handle_event, handle_locked).
THEOREM IngressImplementsLedger == Spec => ExactlyOnce
<1>1. Init => Ledger!Init
  <2> SUFFICES ASSUME Init PROVE Ledger!Init
    OBVIOUS
  <2>1. db.node = [n \in Node |-> Absent] /\ Absent \in NodeState
    BY DEF Init, NodeState
  <2>2. db.response = [e \in Event |-> None] /\ db.thread = [t \in Thread |-> None] /\ db.audit = <<>>
    BY DEF Init
  <2>3. db.node \in [Node -> NodeState]
    BY <2>1
  <2> QED
    BY <2>2, <2>3 DEF Ledger!Init
<1>2. IngressInvariant /\ [Next]_vars => [Ledger!Move \/ \E e \in Event : Ledger!Answer(e)]_Ledger!ledger
  <2> SUFFICES ASSUME IngressInvariant, [Next]_vars
               PROVE  \/ Ledger!Move \/ UNCHANGED Ledger!ledger
                      \/ \E e \in Event : Ledger!Answer(e)
    OBVIOUS
  <2>0. db \in Database
    BY DEF IngressInvariant, Shapes
  <2>1. CASE db' = db
    BY <2>1 DEF Ledger!ledger
  <2>2. CASE Aside
    BY <2>0, <2>2, AsideMoves DEF Ledger!Move
  <2>3. ASSUME NEW a \in Adapter, Commit(a) PROVE \E e \in Event : Ledger!Answer(e)
    BY <2>0, <2>3, CommitAnswers, AnswersOnce
  <2> QED
    BY <2>1, <2>2, <2>3, StepsOfDatabase DEF vars
<1> QED
  BY <1>1, <1>2, IngressAlways, PTL DEF Spec, ExactlyOnce, Ledger!Spec

\* A node leaves its human gate only with the answer to an event that had none,
\* signed by the sender its thread is bound to (handle_event, _replay_locked).
THEOREM GateAlwaysNeedsEvent == Spec => GateNeedsEvent
<1> DEFINE Opened(n) ==
      \E e \in Event :
         /\ db.response[e] = None /\ db'.response[e] # None /\ db'.response[e].ok
         /\ Body[e].node = n /\ Body[e].command \in {"approve", "resume"}
         /\ db.thread[Body[e].thread] = [sender |-> Body[e].sender, goal |-> GoalOf[n]]
<1>1. ASSUME IngressInvariant, Next, NEW n \in Node,
             db.node[n] = "NEEDS_HUMAN", db'.node[n] = "READY"
      PROVE  Opened(n)
  <2>0. db \in Database /\ None \notin Response
    BY <1>1, BuzzNoneAssumption DEF IngressInvariant, Shapes
  <2>1. ~Aside /\ db' # db
    BY <1>1, <2>0, AsideMoves
  <2>a. PICK e \in Event, answer \in Response : \E w : Answers(e, answer, w)
    BY <1>1, <2>1, StepsOfDatabase, CommitAnswers
  <2>2. PICK w : Answers(e, answer, w)
    BY <2>a
  <2>3. w.node[n] = "READY" /\ Effect(db, w, e, answer)
    BY <1>1, <2>2 DEF Answers
  <2>4. db.response[e] = None /\ db'.response[e] # None /\ db'.response[e] = answer
    BY <2>0, <2>2 DEF Answers, Database
  <2>5. answer.ok
    BY <1>1, <2>0, <2>3, EffectDenied
  <2>6. Body[e].command \notin {"goal", "evidence"}
    <3>1. Effect(db, w, e, answer) /\ db \in Database /\ w.node[n] = "READY" /\ db.node[n] = "NEEDS_HUMAN"
      BY <1>1, <2>0, <2>3
    <3> HIDE <1>1, <2>0, <2>3
    <3> QED
      BY <2>5, <3>1, GoalsOpenNothing
  <2>7. /\ Addressed(db, e) /\ Entitled(db, e)
        /\ w.node = [db.node EXCEPT ![Body[e].node] = Target(Body[e].command)]
    <3>1. Effect(db, w, e, answer) /\ db \in Database
      BY <2>0, <2>3
    <3> HIDE <2>0, <2>3
    <3> QED
      BY <3>1, <2>5, <2>6, EffectOfNode
  <2>8. Body[e].node = n /\ Body[e].command \in {"approve", "resume"}
    <3>1. db.node \in [Node -> NodeState]
      BY <2>0 DEF Database
    <3>2. Body[e].node = n
      BY <1>1, <2>3, <2>7, <3>1
    <3>3. Target(Body[e].command) = "READY"
      BY <2>3, <2>7, <3>1, <3>2
    <3> QED
      BY <3>2, <3>3 DEF Target
  <2>9. db.thread[Body[e].thread] \in Binding
    BY <2>0, <2>7, Bodies DEF Addressed, Database
  <2>10. db.thread[Body[e].thread] = [sender |-> Body[e].sender, goal |-> GoalOf[n]]
    BY <2>7, <2>8, <2>9 DEF Addressed, Entitled, Binding
  <2> QED
    BY <2>4, <2>5, <2>8, <2>10
<1>2. IngressInvariant /\ [Next]_vars =>
        [\A n \in Node : db.node[n] = "NEEDS_HUMAN" /\ db'.node[n] = "READY" => Opened(n)]_vars
  BY <1>1
<1> QED
  BY <1>2, IngressAlways, PTL DEF Spec, GateNeedsEvent

=============================================================================
