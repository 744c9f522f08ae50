----------------------- MODULE ProjectGraphEvaluation -----------------------
(***************************************************************************)
(* Claims, ledger and accepted line of ProjectGraph, for every graph and   *)
(* every bound.                                                            *)
(*                                                                         *)
(* Every operation starts with the program's own integrity check, and some *)
(* transactions do without it: what the check looks at is shown here to    *)
(* hold whether or not an operation asks.  A claim is identified by its    *)
(* node and the node's version, and versions only grow, so no two claims   *)
(* are ever confused; a node that passed keeps its attempt and artifact.   *)
(***************************************************************************)
EXTENDS ProjectGraphSafety

-----------------------------------------------------------------------------
(* The inductive invariant *)

Settled == {"PASSED", "INTEGRATED"}

\* A node and a version name one claim, and one that ended has no expiry left.
Keyed(S) ==
  /\ \A c, d \in S : c.node = d.node /\ c.version = d.version => c = d
  /\ \A c \in S : c.status # "ACTIVE" => c.left = 0

\* A claim was taken at an earlier version of its node.
ClaimsPast ==
  \A c \in claims : node[c.node].state # Absent /\ c.version < node[c.node].version

ClaimsDistinct == Keyed(claims) /\ ClaimsPast

\* A lease is the attempt's own, and so is the artifact under judgement; an
\* attempt has one artifact.
AttemptsMatch ==
  /\ \A n \in Node :
       /\ node[n].lease # 0 => node[n].lease = node[n].attempt
       /\ node[n].state \in UnderJudgement => node[n].artifact = node[n].attempt
  /\ \A a, b \in artifacts : a.node = b.node /\ a.attempt = b.attempt => a = b

\* INTEGRATING is passed through inside the transaction that completes a
\* promotion, and never seen.
NeverIntegrating == \A n \in Node : node[n].state # "INTEGRATING"

Evaluated == ClaimsDistinct /\ AttemptsMatch /\ NeverIntegrating /\ EvaluationClosed

-----------------------------------------------------------------------------
(* What a step does to a row, exactly *)

\* A node that passed stays passed, with its attempt, artifact and base.
SettledStays(n) ==
  node[n].state \in Settled =>
    /\ node'[n].state \in Settled
    /\ node'[n].attempt = node[n].attempt /\ node'[n].artifact = node[n].artifact
    /\ node'[n].base = node[n].base

\* A node passes by an evaluation only.
Settles(n) ==
  node'[n].state \in Settled =>
    \/ node[n].state \in Settled
    \/ \E e \in verifying : e.node = n /\ CommitEvaluation(e)

\* A lease and an artifact under judgement are of the attempt, or as before.
AttemptStays(n) ==
  /\ node'[n].lease # 0 =>
       \/ node'[n].lease = node'[n].attempt
       \/ node'[n].lease = node[n].lease /\ node'[n].attempt = node[n].attempt
  /\ node'[n].state \in UnderJudgement =>
       \/ node'[n].artifact = node'[n].attempt
       \/ /\ node[n].state \in UnderJudgement
          /\ node'[n].artifact = node[n].artifact /\ node'[n].attempt = node[n].attempt

RowChange(n) ==
  RecordedChange(n) /\ SettledStays(n) /\ Settles(n) /\ AttemptStays(n)

\* Successors by name.
LEMMA SuccessorsOf ==
  /\ Successors("READY") = {"LEASED", "CANCELLED", "NEEDS_HUMAN"}
  /\ Successors("RUNNING") = {"EVIDENCE_PENDING", "READY", "FAILED_GATE", "CANCELLED"}
  /\ Successors("EVIDENCE_PENDING") = {"EVALUATING", "FAILED_GATE", "READY"}
  /\ Successors("EVALUATING") = {"PASSED", "READY", "FAILED_GATE", "NEEDS_HUMAN"}
  /\ Successors("PASSED") = {"INTEGRATING", "FAILED_GATE"}
  /\ Successors("INTEGRATING") = {"INTEGRATED", "PASSED", "FAILED_GATE"}
  /\ Successors("INTEGRATED") = {}
  /\ "READY" \in Successors("BLOCKED")
  /\ \A s : Absent \notin Successors(s)
BY DEF Successors, Transitions, Absent

LEMMA KeptChange ==
  ASSUME TypeOK, NEW n \in Node, Kept(n) PROVE RowChange(n)
<1>1. [node[n] EXCEPT !.ttl = 0] = [node'[n] EXCEPT !.ttl = 0]
  BY DEF TypeOK, Kept, Row
<1>2. RecordedChange(n)
  BY <1>1 DEF RecordedChange
<1> QED
  BY <1>2, KeptFields DEF RowChange, SettledStays, Settles, AttemptStays

LEMMA KeptChanges == ASSUME TypeOK, node' = node PROVE \A n \in Node : RowChange(n)
BY KeptChange DEF Kept

\* A transition that leaves attempt and artifact alone.
LEMMA MovedChange ==
  ASSUME TypeOK, NEW n \in Node, NEW s \in {"READY", "CANCELLED", "RUNNING"},
         MoveTo(n, s)
  PROVE  \A m \in Node : RowChange(m)
<1>1. node[n] \in Row /\ s \in Successors(node[n].state)
  BY DEF TypeOK, MoveTo, MayMove
<1>2. node'[n] = Moved(node[n], s) /\ \A m \in Node : m # n => Kept(m)
  BY OneRow DEF MoveTo
<1>3. /\ node'[n].state = s /\ node'[n].version = node[n].version + 1
      /\ node'[n].attempt = node[n].attempt /\ node'[n].artifact = node[n].artifact
      /\ node'[n].lease \in {0, node[n].lease}
  BY <1>1, <1>2, AdvancedFields, UnleasedFields DEF Moved
<1>4. RecordedChange(n)
  BY <1>1, <1>3 DEF RecordedChange, Edge
<1>5. node[n].state \notin Settled
  BY <1>1, SuccessorsOf DEF Settled
<1>6. RowChange(n)
  BY <1>3, <1>4, <1>5
  DEF RowChange, SettledStays, Settles, AttemptStays, Settled, UnderJudgement
<1> QED
  BY <1>2, <1>6, KeptChange

LEMMA OperatorChange ==
  ASSUME TypeOK, Coherent, Operator PROVE \A m \in Node : RowChange(m)
<1>1. ASSUME NEW g \in Goal, NEW sha \in KnownCommits, PlanGoal(g, sha),
             NEW m \in Node
      PROVE  RowChange(m)
  <2>1. CASE m \notin NodesOfGoal(g)
    <3>1. Kept(m)
      BY <1>1, <2>1 DEF PlanGoal, Kept
    <3> QED
      BY <3>1, KeptChange
  <2>2. CASE m \in NodesOfGoal(g)
    <3>1. node[m].state = Absent
      BY <1>1, <2>2 DEF PlanGoal
    <3>2. /\ node'[m].state = IF Dependencies[m] = {} THEN "READY" ELSE "BLOCKED"
          /\ node'[m].version = 0 /\ node'[m].lease = 0
      BY <1>1, <2>2 DEF PlanGoal, NoRow
    <3> QED
      BY <3>1, <3>2 DEF RowChange, RecordedChange, InitialNodeStates, SettledStays,
         Settles, AttemptStays, Settled, UnderJudgement, Absent
  <2> QED
    BY <2>1, <2>2
<1>2. ASSUME NEW n \in Node, Cancel(n) PROVE \A m \in Node : RowChange(m)
  BY <1>2, MovedChange DEF Cancel
<1>3. ASSUME NEW n \in Node, Resume(n) PROVE \A m \in Node : RowChange(m)
  BY <1>3, MovedChange DEF Resume
<1> QED
  BY <1>1, <1>2, <1>3 DEF Operator

LEMMA WorkerChange ==
  ASSUME TypeOK, Coherent, Worker PROVE \A m \in Node : RowChange(m)
<1>1. ASSUME NEW n \in Node, NEW ttl \in 1..MaxTTL, Lease(n, ttl)
      PROVE  \A m \in Node : RowChange(m)
  <2>1. node'[n] = Leased(node[n], ttl) /\ \A m \in Node : m # n => Kept(m)
    BY <1>1, OneRow DEF Lease
  <2>2. LET new == Leased(node[n], ttl) IN
        /\ new.state = "LEASED" /\ new.version = node[n].version + 1
        /\ new.lease = new.attempt
    <3>1. node[n] \in Row
      BY DEF TypeOK
    <3> QED
      BY <3>1 DEF Leased, Advanced, Row
  <2>3. RowChange(n)
    BY <1>1, <2>1, <2>2, SuccessorsOf DEF Lease, RowChange, RecordedChange, Edge,
       SettledStays, Settles, AttemptStays, Settled, UnderJudgement
  <2> QED
    BY <2>1, <2>3, KeptChange
<1>2. ASSUME NEW n \in Node, NEW ttl \in 1..MaxTTL, HeartbeatBegin(n, ttl)
      PROVE  \A m \in Node : RowChange(m)
  BY <1>2, KeptChanges DEF HeartbeatBegin, records
<1>3. ASSUME NEW n \in Node, Start(n) PROVE \A m \in Node : RowChange(m)
  BY <1>3, MovedChange DEF Start
<1>4. ASSUME NEW n \in Node, Reconcile(n) PROVE \A m \in Node : RowChange(m)
  BY <1>4, MovedChange DEF Reconcile
<1>5. ASSUME NEW n \in Node, BeginIngest(n) PROVE \A m \in Node : RowChange(m)
  BY <1>5, KeptChanges DEF BeginIngest, records
<1>6. ASSUME NEW i \in ingesting, CommitIngest(i) PROVE \A m \in Node : RowChange(m)
  <2> DEFINE n == i.node
  <2>1. n \in Node /\ i.attempt = node[n].attempt /\ node[n].state = "RUNNING"
    BY <1>6 DEF TypeOK, CommitIngest, Registrable, AwaitsIngest
  <2>2. node'[n] = Evidenced(node[n], i.attempt) /\ \A m \in Node : m # n => Kept(m)
    BY <1>6, <2>1, OneRow DEF CommitIngest
  <2>3. LET new == Evidenced(node[n], i.attempt) IN
        /\ new.state = "EVIDENCE_PENDING" /\ new.version = node[n].version + 1
        /\ new.lease = 0 /\ new.attempt = node[n].attempt /\ new.artifact = i.attempt
    BY <2>1 DEF TypeOK, Evidenced, Unleased, Advanced, Row
  <2>4. RowChange(n)
    BY <2>1, <2>2, <2>3, SuccessorsOf DEF RowChange, RecordedChange, Edge,
       SettledStays, Settles, AttemptStays, Settled
  <2> QED
    BY <2>2, <2>4, KeptChange
<1>7. ASSUME NEW i \in ingesting, AbandonIngest(i) PROVE \A m \in Node : RowChange(m)
  BY <1>7, KeptChanges DEF AbandonIngest, records
<1>8. CASE HeartbeatCommit
  <2>1. writer # None /\ writer.kind = "lease"
        /\ node' = [node EXCEPT ![writer.node].ttl = writer.left]
    BY <1>8 DEF HeartbeatCommit, Unlocked
  <2>2. \A m \in Node : Kept(m)
    BY <2>1 DEF TypeOK, Kept
  <2> QED
    BY <2>2, KeptChange
<1> QED
  BY <1>1, <1>2, <1>3, <1>4, <1>5, <1>6, <1>7, <1>8 DEF Worker

LEMMA EvaluatorChange ==
  ASSUME TypeOK, Coherent, Evaluator PROVE \A m \in Node : RowChange(m)
<1>a. ASSUME NEW n \in Node, NEW s \in {"EVALUATING", "PASSED"},
             node[n].state \in {"EVIDENCE_PENDING", "EVALUATING"},
             s \in Successors(node[n].state),
             s = "PASSED" => \E e \in verifying : e.node = n /\ CommitEvaluation(e),
             node' = [node EXCEPT ![n] = Advanced(@, s)]
      PROVE  \A m \in Node : RowChange(m)
  <2>1. node'[n] = Advanced(node[n], s) /\ \A m \in Node : m # n => Kept(m)
    BY <1>a, OneRow
  <2>2. /\ node'[n].state = s /\ node'[n].version = node[n].version + 1
        /\ node'[n].attempt = node[n].attempt /\ node'[n].artifact = node[n].artifact
        /\ node'[n].lease = node[n].lease
    BY <2>1, AdvancedFields DEF TypeOK
  <2>3. RecordedChange(n)
    BY <1>a, <2>2 DEF RecordedChange, Edge
  <2>4. RowChange(n)
    BY <1>a, <2>2, <2>3
    DEF RowChange, SettledStays, Settles, AttemptStays, Settled, UnderJudgement
  <2> QED
    BY <2>1, <2>4, KeptChange
<1>1. ASSUME NEW n \in Node, NEW ttl \in 1..MaxTTL, ClaimEvidence(n, ttl)
      PROVE  \A m \in Node : RowChange(m)
  BY <1>1, <1>a, SuccessorsOf DEF ClaimEvidence
<1>2. ASSUME NEW n \in Node, NEW ttl \in 1..MaxTTL, ReclaimEvidence(n, ttl)
      PROVE  \A m \in Node : RowChange(m)
  <2>1. node' = [node EXCEPT ![n].version = @ + 2] /\ node[n].state = "EVALUATING"
    BY <1>2 DEF ReclaimEvidence
  <2>2. /\ node'[n] = [node[n] EXCEPT !.version = @ + 2]
        /\ \A m \in Node : m # n => Kept(m)
    BY <2>1 DEF TypeOK, Kept
  <2>3. /\ node'[n].state = "EVALUATING" /\ node'[n].version = node[n].version + 2
        /\ node'[n].attempt = node[n].attempt /\ node'[n].artifact = node[n].artifact
        /\ node'[n].lease = node[n].lease
    BY <2>1, <2>2 DEF TypeOK, Row
  <2>4. Edge("EVALUATING", "EVIDENCE_PENDING") /\ Edge("EVIDENCE_PENDING", "EVALUATING")
    BY SuccessorsOf DEF Edge, ExceptionalTransitions
  <2>5. "EVIDENCE_PENDING" \in KnownNodeStates
    BY NodeStates DEF NodeState, Absent
  <2>6. RecordedChange(n)
    BY <2>1, <2>3, <2>4, <2>5 DEF RecordedChange
  <2>7. RowChange(n)
    BY <2>1, <2>3, <2>6
    DEF RowChange, SettledStays, Settles, AttemptStays, Settled, UnderJudgement
  <2> QED
    BY <2>2, <2>7, KeptChange
<1>3. ASSUME NEW n \in Node, NEW ttl \in 1..MaxTTL, ClaimHeartbeatBegin(n, ttl)
      PROVE  \A m \in Node : RowChange(m)
  BY <1>3, KeptChanges DEF ClaimHeartbeatBegin, records
<1>4. ASSUME NEW n \in Node, VerifyEvaluation(n) PROVE \A m \in Node : RowChange(m)
  BY <1>4, KeptChanges DEF VerifyEvaluation, records
<1>5. ASSUME NEW n \in Node, NEW d \in Dispositions, RejectEvidence(n, d)
      PROVE  \A m \in Node : RowChange(m)
  <2>1. node'[n] = Rejected(node[n], d) /\ \A m \in Node : m # n => Kept(m)
    BY <1>5, OneRow DEF RejectEvidence
  <2>2. LET new == Rejected(node[n], d) IN
        /\ new.state \in {"READY", "FAILED_GATE", "NEEDS_HUMAN"}
        /\ new.version = node[n].version + 1 /\ new.lease = 0
    <3> DEFINE moved == Unleased(Advanced(node[n], DispositionTarget[d]))
    <3>1. DispositionTarget[d] \in {"READY", "FAILED_GATE", "NEEDS_HUMAN"}
      BY BoundAssumption DEF DispositionTarget
    <3>2. node[n] \in Row
      BY DEF TypeOK
    <3>3. /\ moved.state \in {"READY", "FAILED_GATE", "NEEDS_HUMAN"}
          /\ moved.version = node[n].version + 1 /\ moved.lease = 0
      BY <3>1, <3>2, UnleasedFields
    <3>4. moved \in Row
      BY <3>1, <3>2, AdvancedType, UnleasedType, NodeStates
    <3>5. LET new == [moved EXCEPT !.artifact = 0] IN
          /\ new.state = moved.state /\ new.version = moved.version
          /\ new.lease = moved.lease
      <4> HIDE DEF moved
      <4> QED
        BY <3>4 DEF Row
    <3>6. Rejected(node[n], d) \in {moved, [moved EXCEPT !.artifact = 0]}
      BY DEF Rejected
    <3> HIDE DEF moved
    <3> QED
      BY <3>3, <3>5, <3>6
  <2>3. node[n].state = "EVALUATING"
    BY <1>5 DEF RejectEvidence
  <2>4. RecordedChange(n)
    BY <2>1, <2>2, <2>3, SuccessorsOf DEF RecordedChange, Edge
  <2>5. RowChange(n)
    BY <2>1, <2>2, <2>3, <2>4
    DEF RowChange, SettledStays, Settles, AttemptStays, Settled, UnderJudgement
  <2> QED
    BY <2>1, <2>5, KeptChange
<1>6. ASSUME NEW e \in verifying, CommitEvaluation(e)
      PROVE  \A m \in Node : RowChange(m)
  <2>1. e.node \in Node
    BY DEF TypeOK, LedgerEntry
  <2> QED
    BY <1>6, <1>a, <2>1, SuccessorsOf DEF CommitEvaluation
<1>7. ASSUME NEW e \in verifying, AbandonEvaluation(e)
      PROVE  \A m \in Node : RowChange(m)
  BY <1>7, KeptChanges DEF AbandonEvaluation, records
<1>8. CASE ClaimHeartbeatCommit
  BY <1>8, KeptChanges DEF ClaimHeartbeatCommit
<1> QED
  BY <1>1, <1>2, <1>3, <1>4, <1>5, <1>6, <1>7, <1>8 DEF Evaluator

LEMMA RecoveryChange ==
  ASSUME TypeOK, Coherent, Recovery PROVE \A m \in Node : RowChange(m)
<1>1. CASE ScanClaims
  BY <1>1, KeptChanges DEF ScanClaims, records
<1>2. CASE RecoverClaims
  <2>1. ASSUME NEW m \in Node PROVE RowChange(m)
    <3>1. CASE \E o \in overdue : o.node = m
      <4>1. node[m].state = "EVALUATING" /\ node'[m] = Advanced(node[m], "EVIDENCE_PENDING")
        BY <1>2, <3>1 DEF RecoverClaims, Recoverable
      <4>2. /\ node'[m].state = "EVIDENCE_PENDING"
            /\ node'[m].version = node[m].version + 1
            /\ node'[m].attempt = node[m].attempt /\ node'[m].artifact = node[m].artifact
            /\ node'[m].lease = node[m].lease
        BY <4>1, AdvancedFields DEF TypeOK
      <4> QED
        BY <4>1, <4>2 DEF RowChange, RecordedChange, Edge, ExceptionalTransitions,
           SettledStays, Settles, AttemptStays, Settled, UnderJudgement
    <3>2. CASE ~\E o \in overdue : o.node = m
      <4>1. Kept(m)
        BY <1>2, <3>2 DEF RecoverClaims, Kept
      <4> QED
        BY <4>1, KeptChange
    <3> QED
      BY <3>1, <3>2
  <2> QED
    BY <2>1
<1>3. CASE AbandonClaimRecovery
  BY <1>3, KeptChanges DEF AbandonClaimRecovery, records
<1>4. ASSUME NEW force \in Forced, ScanLeases(force) PROVE \A m \in Node : RowChange(m)
  BY <1>4, KeptChanges DEF ScanLeases, records
<1>5. ASSUME NEW r \in stale, RecoverLease(r) PROVE \A m \in Node : RowChange(m)
  <2>1. r.node \in Node
    BY DEF TypeOK
  <2> QED
    BY <1>5, <2>1, MovedChange DEF RecoverLease
<1>6. CASE AbandonLeaseRecovery
  BY <1>6, KeptChanges DEF AbandonLeaseRecovery, records
<1> QED
  BY <1>1, <1>2, <1>3, <1>4, <1>5, <1>6 DEF Recovery

\* A row that a publication leaves alone, or moves to the new commit.
LEMMA ReboundChange ==
  ASSUME NEW row \in Row, NEW sha, row.state \in RebindStates \cup {"INTEGRATED"}
  PROVE  LET new == Rebound(row, sha) IN
         /\ new.state = row.state
         /\ row.state = "INTEGRATED" => new = row
         /\ row.state # "INTEGRATED" => new.version = row.version + 1
         /\ new.lease = row.lease /\ new.attempt = row.attempt
         /\ new.artifact = row.artifact
BY DEF Rebound, RebindStates, Row

LEMMA IntegratedFields ==
  ASSUME NEW row \in Row
  PROVE  LET new == Integrated(row) IN
         /\ new.state = "INTEGRATED" /\ new.version = row.version + 2
         /\ new.lease = row.lease /\ new.attempt = row.attempt
         /\ new.artifact = row.artifact /\ new.base = row.base
BY DEF Integrated, Row

LEMMA RebindEdge == \A s \in RebindStates : Edge(s, s)
BY DEF Edge, ExceptionalTransitions

LEMMA RebindState ==
  RebindStates = {"BLOCKED", "READY", "NEEDS_HUMAN", "CANCELLED", "FAILED_GATE"}
BY DEF RebindStates

\* What a row of a frozen project can be: settled, or at rest.
LEMMA RestingState ==
  ASSUME TypeOK, Coherent, NeverIntegrating,
         NEW p \in Project, publication[p] # None, NEW m \in NodesOf(p)
  PROVE  /\ m \in Node /\ node[m] \in Row /\ node[m].lease = 0
         /\ \/ node[m].state \in RebindStates \cup {"INTEGRATED"}
            \/ publication[p].kind = "PROMOTION" /\ m = publication[p].node
<1>1. m \in Node /\ node[m] \in Row /\ node[m].state \in NodeState
  BY Fields DEF NodesOf
<1>2. /\ node[m].lease = 0
      /\ \/ node[m].state \notin UnderJudgement
         \/ publication[p].kind = "PROMOTION" /\ m = publication[p].node
  BY DEF Coherent, FrozenQuiet
<1>3. node[m].state \notin Held \cup {Absent, "INTEGRATING"}
  BY <1>1, <1>2 DEF Coherent, LeaseHeld, NodesOf, NeverIntegrating
<1>4. CASE node[m].state \notin UnderJudgement
  BY <1>1, <1>2, <1>3, <1>4, NodeStates DEF UnderJudgement, Held, Absent, RebindStates
<1> QED
  BY <1>1, <1>2, <1>4

\* A change that keeps a row as it is but for base and version.
LEMMA RestingChange ==
  ASSUME TypeOK, NEW m \in Node, node[m].state \in RebindStates, node[m].lease = 0,
         node'[m].state = node[m].state, node'[m].version = node[m].version + 1,
         node'[m].lease = 0
  PROVE  RowChange(m)
<1>1. RecordedChange(m)
  BY RebindEdge DEF RecordedChange
<1>2. node[m].state \notin Settled \cup UnderJudgement
  BY RebindState DEF Settled, UnderJudgement
<1> QED
  BY <1>1, <1>2 DEF RowChange, SettledStays, Settles, AttemptStays

LEMMA RolledBackChange ==
  ASSUME TypeOK, Coherent, NeverIntegrating, NEW p \in Project, CompleteRollback(p)
  PROVE  \A m \in Node : RowChange(m)
<1> DEFINE sha == RollbackTarget(publication[p].node)
<1>1. /\ publication[p] # None /\ publication[p].kind = "ROLLBACK"
      /\ node' = [n \in Node |-> IF n \in Affected(p) THEN Rebound(node[n], sha)
                                 ELSE node[n]]
  BY DEF CompleteRollback
<1> HIDE DEF sha
<1> SUFFICES ASSUME NEW m \in Node PROVE RowChange(m)
  OBVIOUS
<1>2. CASE m \notin Affected(p)
  <2>1. Kept(m)
    BY <1>1, <1>2 DEF Kept
  <2> QED
    BY <2>1, KeptChange
<1>3. CASE m \in Affected(p)
  <2>1. /\ node[m] \in Row /\ node[m].lease = 0
        /\ node[m].state \in RebindStates \cup {"INTEGRATED"}
    BY <1>1, <1>3, RestingState DEF Affected
  <2>2. node'[m] = Rebound(node[m], sha)
    BY <1>1, <1>3
  <2>3. CASE node[m].state = "INTEGRATED"
    <3>1. Kept(m)
      BY <2>1, <2>2, <2>3, ReboundChange DEF Kept
    <3> QED
      BY <3>1, KeptChange
  <2>4. CASE node[m].state # "INTEGRATED"
    BY <2>1, <2>2, <2>4, ReboundChange, RestingChange
  <2> QED
    BY <2>3, <2>4
<1> QED
  BY <1>2, <1>3

LEMMA PromotedChange ==
  ASSUME TypeOK, Coherent, NeverIntegrating, NEW p \in Project, CompletePromotion(p)
  PROVE  \A m \in Node : RowChange(m)
<1> DEFINE origin  == publication[p].node
           sha     == Candidate(origin)
           rebound == [n \in Node |-> IF n = origin THEN Integrated(node[n])
                                      ELSE IF n \in Affected(p) THEN Rebound(node[n], sha)
                                      ELSE node[n]]
<1>1. /\ publication[p] # None /\ publication[p].kind = "PROMOTION"
      /\ node' = [n \in Node |-> IF n \in NodesOf(p) THEN Released(n, rebound)
                                 ELSE node[n]]
  BY DEF CompletePromotion
<1>2. origin \in Node /\ node[origin].state = "PASSED"
  <2>1. origin \in Node
    BY <1>1 DEF TypeOK, Publication
  <2> QED
    BY <1>1, <2>1 DEF Coherent, FrozenQuiet
<1>3. rebound[origin] = Integrated(node[origin])
  BY <1>2
<1>4. ASSUME NEW m \in Node, m # origin, m \notin Affected(p)
      PROVE  rebound[m] = node[m]
  BY <1>4
<1>5. ASSUME NEW m \in Node, m # origin, m \in Affected(p)
      PROVE  rebound[m] = Rebound(node[m], sha)
  BY <1>5
<1> HIDE DEF sha, rebound
<1> SUFFICES ASSUME NEW m \in Node PROVE RowChange(m)
  OBVIOUS
<1>6. CASE m \notin NodesOf(p)
  <2>1. Kept(m)
    BY <1>1, <1>6 DEF Kept
  <2> QED
    BY <2>1, KeptChange
<1>7. CASE m \in NodesOf(p)
  <2>1. node'[m] = Released(m, rebound)
    BY <1>1, <1>7
  <2>2. CASE m = origin
    <3>0. node[m] \in Row
      BY DEF TypeOK
    <3>1. Released(m, rebound) = rebound[m]
      BY <1>3, <2>2, <3>0, IntegratedFields DEF Released
    <3>2. /\ node'[m].state = "INTEGRATED" /\ node'[m].version = node[m].version + 2
          /\ node'[m].lease = node[m].lease /\ node'[m].attempt = node[m].attempt
          /\ node'[m].artifact = node[m].artifact /\ node'[m].base = node[m].base
      BY <1>3, <2>1, <2>2, <3>0, <3>1, IntegratedFields
    <3>3. Edge("PASSED", "INTEGRATING") /\ Edge("INTEGRATING", "INTEGRATED")
      BY SuccessorsOf DEF Edge
    <3>4. "INTEGRATING" \in KnownNodeStates
      BY NodeStates DEF NodeState, Absent
    <3>5. RecordedChange(m)
      BY <1>2, <2>2, <3>2, <3>3, <3>4 DEF RecordedChange
    <3> QED
      BY <1>2, <2>2, <3>2, <3>5
      DEF RowChange, SettledStays, Settles, AttemptStays, Settled, UnderJudgement
  <2>3. CASE m # origin
    <3>1. /\ node[m] \in Row /\ node[m].lease = 0
          /\ node[m].state \in RebindStates \cup {"INTEGRATED"}
      BY <1>1, <1>7, <2>3, RestingState
    <3>2. CASE node[m].state = "INTEGRATED"
      <4>1. rebound[m] = node[m]
        BY <1>4, <1>5, <2>3, <3>1, <3>2, ReboundChange
      <4>2. Kept(m)
        BY <2>1, <3>2, <4>1 DEF Released, Kept
      <4> QED
        BY <4>2, KeptChange
    <3>3. CASE node[m].state # "INTEGRATED"
      <4>1. m \in Affected(p)
        BY <1>7, <3>3 DEF Coherent, BaselineShared, BaselineCoherent, Affected
      <4>2. /\ rebound[m].state = node[m].state
            /\ rebound[m].version = node[m].version + 1 /\ rebound[m].lease = 0
        BY <1>5, <2>3, <3>1, <3>3, <4>1, ReboundChange
      <4>3. CASE node'[m] = rebound[m]
        BY <3>1, <3>3, <4>2, <4>3, RestingChange
      <4>4. CASE node'[m] # rebound[m]
        <5>1. rebound[m].state = "BLOCKED" /\ node'[m] = Advanced(rebound[m], "READY")
          BY <2>1, <4>4 DEF Released
        <5>2. rebound[m] \in Row
          <6>1. publication[p].node \in Node
            BY <1>2
          <6>2. sha \in Commit
            BY <6>1, CandidateType DEF sha
          <6> QED
            BY <1>5, <2>3, <3>1, <4>1, <6>2, ReboundType
        <5>3. /\ node'[m].state = "READY"
              /\ node'[m].version = rebound[m].version + 1 /\ node'[m].lease = 0
          BY <4>2, <5>1, <5>2, AdvancedFields
        <5>4. node'[m].version = node[m].version + 2
          BY <3>1, <4>2, <5>3 DEF Row
        <5>5. Edge("BLOCKED", "BLOCKED") /\ Edge("BLOCKED", "READY")
          BY RebindEdge, RebindState, SuccessorsOf DEF Edge
        <5>6. "BLOCKED" \in KnownNodeStates
          BY NodeStates DEF NodeState, Absent
        <5>7. RecordedChange(m)
          BY <4>2, <5>1, <5>3, <5>4, <5>5, <5>6 DEF RecordedChange
        <5> QED
          BY <4>2, <5>1, <5>3, <5>7
          DEF RowChange, SettledStays, Settles, AttemptStays, Settled, UnderJudgement
      <4> QED
        BY <4>3, <4>4
    <3> QED
      BY <3>2, <3>3
  <2> QED
    BY <2>2, <2>3
<1> QED
  BY <1>6, <1>7

LEMMA RowChanges ==
  ASSUME TypeOK, Coherent, NeverIntegrating, [Next]_vars
  PROVE  \A m \in Node : RowChange(m)
<1>1. CASE Tick
  <2>1. \A m \in Node : Kept(m)
    BY <1>1 DEF Tick, Kept
  <2> QED
    BY <2>1, KeptChange
<1>2. CASE HeartbeatAbort
  BY <1>2, KeptChanges DEF HeartbeatAbort, records
<1>3. CASE UNCHANGED vars
  BY <1>3, KeptChanges DEF vars, records
<1>4. CASE Coordinator
  <2>1. ASSUME NEW n \in Node, PreparePromotion(n) \/ PrepareRollback(n)
        PROVE  \A m \in Node : RowChange(m)
    BY <2>1, KeptChanges DEF PreparePromotion, PrepareRollback, records
  <2> QED
    BY <1>4, <2>1, RolledBackChange, PromotedChange DEF Coordinator
<1> QED
  BY <1>1, <1>2, <1>3, <1>4, OperatorChange, WorkerChange, EvaluatorChange,
     RecoveryChange DEF Next

-----------------------------------------------------------------------------
(* What a step does to the claims *)

\* Claims are neither taken nor ended, and the rows under evaluation stay.
ClaimsStay == claims' = claims /\ \A n \in Node : node[n].state = "EVALUATING" => Kept(n)

ClaimStep ==
  \/ ClaimsStay
  \/ Tick
  \/ ClaimHeartbeatCommit
  \/ \E n \in Node, ttl \in 1..MaxTTL : ClaimEvidence(n, ttl) \/ ReclaimEvidence(n, ttl)
  \/ \E n \in Node, d \in Dispositions : RejectEvidence(n, d)
  \/ \E e \in verifying : CommitEvaluation(e)
  \/ RecoverClaims

LEMMA OtherRow ==
  ASSUME TypeOK, NEW n \in Node, node[n].state # "EVALUATING", claims' = claims,
         NEW row, node' = [node EXCEPT ![n] = row]
  PROVE  ClaimsStay
BY OneRow DEF ClaimsStay

LEMMA SameRows == ASSUME claims' = claims, node' = node PROVE ClaimsStay
BY DEF ClaimsStay, Kept

LEMMA MovedClaims ==
  ASSUME TypeOK, Coherent, NEW n \in Node, NEW s \in {"READY", "CANCELLED", "RUNNING"},
         MoveTo(n, s), claims' = claims,
         s = "READY" => node[n].state # "EVALUATING"
  PROVE  ClaimsStay
<1>1. node[n].state # "EVALUATING"
  BY SuccessorsOf DEF MoveTo, MayMove
<1> QED
  BY <1>1, OtherRow DEF MoveTo

LEMMA OperatorClaims == ASSUME TypeOK, Coherent, Operator PROVE ClaimsStay
<1>1. ASSUME NEW g \in Goal, NEW sha \in KnownCommits, PlanGoal(g, sha)
      PROVE  ClaimsStay
  BY <1>1 DEF PlanGoal, ClaimsStay, Kept, Absent
<1>2. ASSUME NEW n \in Node, Cancel(n) PROVE ClaimsStay
  BY <1>2, MovedClaims DEF Cancel
<1>3. ASSUME NEW n \in Node, Resume(n) PROVE ClaimsStay
  BY <1>3, MovedClaims DEF Resume
<1> QED
  BY <1>1, <1>2, <1>3 DEF Operator

LEMMA WorkerClaims == ASSUME TypeOK, Coherent, Worker PROVE ClaimsStay
<1>1. ASSUME NEW n \in Node, NEW ttl \in 1..MaxTTL, Lease(n, ttl) PROVE ClaimsStay
  BY <1>1, OtherRow DEF Lease
<1>2. ASSUME NEW n \in Node, NEW ttl \in 1..MaxTTL, HeartbeatBegin(n, ttl)
      PROVE  ClaimsStay
  BY <1>2, SameRows DEF HeartbeatBegin, records
<1>3. ASSUME NEW n \in Node, Start(n) PROVE ClaimsStay
  BY <1>3, MovedClaims DEF Start
<1>4. ASSUME NEW n \in Node, Reconcile(n) PROVE ClaimsStay
  BY <1>4, MovedClaims DEF Reconcile, Coherent, LeaseHeld, Held
<1>5. ASSUME NEW n \in Node, BeginIngest(n) PROVE ClaimsStay
  BY <1>5, SameRows DEF BeginIngest, records
<1>6. ASSUME NEW i \in ingesting, CommitIngest(i) PROVE ClaimsStay
  <2>1. i.node \in Node
    BY DEF TypeOK
  <2> QED
    BY <1>6, <2>1, OtherRow DEF CommitIngest, AwaitsIngest
<1>7. ASSUME NEW i \in ingesting, AbandonIngest(i) PROVE ClaimsStay
  BY <1>7, SameRows DEF AbandonIngest, records
<1>8. CASE HeartbeatCommit
  BY <1>8 DEF HeartbeatCommit, Unlocked, TypeOK, ClaimsStay, Kept
<1> QED
  BY <1>1, <1>2, <1>3, <1>4, <1>5, <1>6, <1>7, <1>8 DEF Worker

LEMMA EvaluatorClaims == ASSUME TypeOK, Coherent, Evaluator PROVE ClaimStep
<1>1. ASSUME NEW n \in Node, NEW ttl \in 1..MaxTTL, ClaimHeartbeatBegin(n, ttl)
      PROVE  ClaimsStay
  BY <1>1, SameRows DEF ClaimHeartbeatBegin, records
<1>2. ASSUME NEW n \in Node, VerifyEvaluation(n) PROVE ClaimsStay
  BY <1>2, SameRows DEF VerifyEvaluation, records
<1>3. ASSUME NEW e \in verifying, AbandonEvaluation(e) PROVE ClaimsStay
  BY <1>3, SameRows DEF AbandonEvaluation, records
<1> QED
  BY <1>1, <1>2, <1>3 DEF Evaluator, ClaimStep

LEMMA RecoveryClaims == ASSUME TypeOK, Coherent, Recovery PROVE ClaimStep
<1>1. CASE ScanClaims
  BY <1>1, SameRows DEF ScanClaims, records, ClaimStep
<1>2. CASE RecoverClaims
  BY <1>2 DEF ClaimStep
<1>3. CASE AbandonClaimRecovery
  BY <1>3, SameRows DEF AbandonClaimRecovery, records, ClaimStep
<1>4. ASSUME NEW force \in Forced, ScanLeases(force) PROVE ClaimsStay
  BY <1>4, SameRows DEF ScanLeases, records
<1>5. ASSUME NEW r \in stale, RecoverLease(r) PROVE ClaimsStay
  <2>1. r.node \in Node /\ node[r.node].state \in Held
    BY <1>5 DEF TypeOK, RecoverLease, Coherent, StaleHeld
  <2> QED
    BY <1>5, <2>1, MovedClaims DEF RecoverLease, Held
<1>6. CASE AbandonLeaseRecovery
  BY <1>6, SameRows DEF AbandonLeaseRecovery, records, ClaimStep
<1> QED
  BY <1>1, <1>2, <1>3, <1>4, <1>5, <1>6 DEF Recovery, ClaimStep

LEMMA CoordinatorClaims ==
  ASSUME TypeOK, Coherent, NeverIntegrating, Coordinator PROVE ClaimsStay
<1>1. ASSUME NEW n \in Node, PreparePromotion(n) \/ PrepareRollback(n) PROVE ClaimsStay
  BY <1>1, SameRows DEF PreparePromotion, PrepareRollback, records
<1>2. ASSUME NEW p \in Project, CompletePromotion(p) \/ CompleteRollback(p)
      PROVE  ClaimsStay
  <2>1. claims' = claims /\ publication[p] # None
    BY <1>2 DEF CompletePromotion, CompleteRollback
  <2>2. \A n \in Node \ NodesOf(p) : Kept(n)
    BY <1>2, PromotedStep, RolledBackStep
  <2>3. ASSUME NEW n \in NodesOf(p) PROVE node[n].state # "EVALUATING"
    BY <2>1 DEF Coherent, FrozenQuiet, UnderJudgement
  <2> QED
    BY <2>1, <2>2, <2>3 DEF ClaimsStay
<1> QED
  BY <1>1, <1>2 DEF Coordinator

LEMMA ClaimSteps ==
  ASSUME TypeOK, Coherent, NeverIntegrating, [Next]_vars PROVE ClaimStep
<1>1. CASE HeartbeatAbort \/ UNCHANGED vars
  BY <1>1, SameRows DEF HeartbeatAbort, vars, records, ClaimStep
<1>2. CASE Tick
  BY <1>2 DEF ClaimStep
<1> QED
  BY <1>1, <1>2, OperatorClaims, WorkerClaims, EvaluatorClaims, RecoveryClaims,
     CoordinatorClaims DEF Next, ClaimStep

-----------------------------------------------------------------------------
(* Claims stay distinct, and are of the past *)

\* Claims that are written again, each in its place, stay distinct.
LEMMA KeyedImage ==
  ASSUME NEW S, Keyed(S), NEW F,
         \A c \in S : /\ F[c].node = c.node /\ F[c].version = c.version
                      /\ F[c].status # "ACTIVE" => F[c].left = 0
  PROVE  Keyed({F[c] : c \in S})
BY DEF Keyed

\* So does a set that a claim of another version is added to.
LEMMA KeyedAdd ==
  ASSUME NEW S, Keyed(S), NEW x, x.status = "ACTIVE",
         \A c \in S : c.node = x.node => c.version # x.version
  PROVE  Keyed(S \cup {x})
BY DEF Keyed

\* How a claim ends, as the image of the claims.
Ending(c, status) ==
  [x \in claims |-> IF x = c THEN [c EXCEPT !.status = status, !.left = 0] ELSE x]

LEMMA EndingImage ==
  ASSUME NEW c \in claims, NEW status
  PROVE  Ended(c, status) = {Ending(c, status)[x] : x \in claims}
<1>1. \A x \in claims :
        Ending(c, status)[x] = IF x = c THEN [c EXCEPT !.status = status, !.left = 0] ELSE x
  BY DEF Ending
<1>2. ASSUME NEW y \in Ended(c, status) PROVE \E x \in claims : y = Ending(c, status)[x]
  <2>1. y \in claims \ {c} \/ y = [c EXCEPT !.status = status, !.left = 0]
    BY <1>2 DEF Ended
  <2> QED
    BY <1>1, <2>1
<1>3. ASSUME NEW x \in claims PROVE Ending(c, status)[x] \in Ended(c, status)
  BY <1>1, <1>3 DEF Ended
<1> QED
  BY <1>2, <1>3

LEMMA EndedClaim ==
  ASSUME TypeOK, NEW c \in claims, NEW status
  PROVE  LET d == [c EXCEPT !.status = status, !.left = 0] IN
         /\ d.node = c.node /\ d.attempt = c.attempt /\ d.version = c.version
         /\ d.status = status /\ d.left = 0
BY DEF TypeOK, Claim

LEMMA KeyedEnded ==
  ASSUME TypeOK, Keyed(claims), NEW c \in claims, NEW status
  PROVE  Keyed(Ended(c, status))
<1> DEFINE F == Ending(c, status)
<1>1. \A x \in claims : /\ F[x].node = x.node /\ F[x].version = x.version
                        /\ F[x].status # "ACTIVE" => F[x].left = 0
  BY EndedClaim DEF Ending, Keyed
<1> QED
  BY <1>1, KeyedImage, EndingImage

\* Every claim after c ended is one of before, its status and expiry apart.
LEMMA EndedSame ==
  ASSUME TypeOK, NEW c \in claims, NEW status, NEW d \in Ended(c, status)
  PROVE  \E b \in claims : b.node = d.node /\ b.attempt = d.attempt /\ b.version = d.version
<1>1. CASE d \in claims
  BY <1>1
<1>2. CASE d = [c EXCEPT !.status = status, !.left = 0]
  <2>1. d.node = c.node /\ d.attempt = c.attempt /\ d.version = c.version
    BY <1>2, EndedClaim
  <2> QED
    BY <2>1
<1> QED
  BY <1>1, <1>2 DEF Ended

LEMMA KeyedRecovered ==
  ASSUME TypeOK, Keyed(claims), NEW O
  PROVE  Keyed({IF \E o \in O : SameClaim(c, o)
                THEN [c EXCEPT !.status = "EXPIRED", !.left = 0] ELSE c : c \in claims})
<1> DEFINE F == [c \in claims |-> IF \E o \in O : SameClaim(c, o)
                THEN [c EXCEPT !.status = "EXPIRED", !.left = 0] ELSE c]
<1>1. ASSUME NEW c \in claims
      PROVE  /\ F[c].node = c.node /\ F[c].version = c.version
             /\ F[c].status # "ACTIVE" => F[c].left = 0
  BY EndedClaim DEF Keyed
<1>2. Keyed({F[c] : c \in claims})
  <2> HIDE DEF F
  <2> QED
    BY <1>1, KeyedImage
<1>3. {F[c] : c \in claims} =
        {IF \E o \in O : SameClaim(c, o)
         THEN [c EXCEPT !.status = "EXPIRED", !.left = 0] ELSE c : c \in claims}
  OBVIOUS
<1> QED
  BY <1>2, <1>3

LEMMA KeyedRenewed ==
  ASSUME TypeOK, Keyed(claims), NEW A \in SUBSET {c \in claims : c.status = "ACTIVE"},
         NEW t
  PROVE  Keyed({IF c \in A THEN [c EXCEPT !.left = t] ELSE c : c \in claims})
<1> DEFINE F == [c \in claims |-> IF c \in A THEN [c EXCEPT !.left = t] ELSE c]
<1>1. ASSUME NEW c \in claims
      PROVE  /\ F[c].node = c.node /\ F[c].version = c.version
             /\ F[c].status # "ACTIVE" => F[c].left = 0
  BY DEF Keyed, TypeOK, Claim
<1>2. Keyed({F[c] : c \in claims})
  <2> HIDE DEF F
  <2> QED
    BY <1>1, KeyedImage
<1>3. {F[c] : c \in claims} =
        {IF c \in A THEN [c EXCEPT !.left = t] ELSE c : c \in claims}
  OBVIOUS
<1> QED
  BY <1>2, <1>3

LEMMA KeyedAged ==
  ASSUME TypeOK, Keyed(claims)
  PROVE  Keyed({[c EXCEPT !.left = Less(@)] : c \in claims})
<1> DEFINE F == [c \in claims |-> [c EXCEPT !.left = Less(@)]]
<1>1. ASSUME NEW c \in claims
      PROVE  /\ F[c].node = c.node /\ F[c].version = c.version
             /\ F[c].status # "ACTIVE" => F[c].left = 0
  BY DEF Keyed, TypeOK, Claim, Less
<1>2. Keyed({F[c] : c \in claims})
  <2> HIDE DEF F
  <2> QED
    BY <1>1, KeyedImage
<1>3. {F[c] : c \in claims} = {[c EXCEPT !.left = Less(@)] : c \in claims}
  OBVIOUS
<1> QED
  BY <1>2, <1>3

LEMMA NewClaimFields ==
  ASSUME NEW n, NEW v, NEW ttl
  PROVE  LET x == NewClaim(n, v, ttl) IN
         /\ x.node = n /\ x.version = v /\ x.status = "ACTIVE"
         /\ x.attempt = node[n].artifact /\ x.left = ttl
BY DEF NewClaim

LEMMA KeyedNext ==
  ASSUME TypeOK, Coherent, ClaimsDistinct, NeverIntegrating, [Next]_vars
  PROVE  Keyed(claims')
<1>1. CASE claims' = claims
  BY <1>1 DEF ClaimsDistinct
<1>2. CASE Tick
  BY <1>2, KeyedAged DEF Tick, ClaimsDistinct
<1>3. CASE ClaimHeartbeatCommit
  <2>1. ActiveClaims(writer.node) \in SUBSET {c \in claims : c.status = "ACTIVE"}
    BY DEF ActiveClaims
  <2> QED
    BY <1>3, <2>1, KeyedRenewed DEF ClaimHeartbeatCommit, ClaimsDistinct
<1>4. ASSUME NEW n \in Node, NEW ttl \in 1..MaxTTL, ClaimEvidence(n, ttl)
      PROVE  Keyed(claims')
  <2> DEFINE x == NewClaim(n, node[n].version, ttl)
  <2>1. claims' = claims \cup {x} /\ x.status = "ACTIVE" /\ x.node = n
        /\ x.version = node[n].version
    BY <1>4, NewClaimFields DEF ClaimEvidence
  <2>2. \A c \in claims : c.node = n => c.version # node[n].version
    BY DEF ClaimsDistinct, ClaimsPast, TypeOK, Claim, Row
  <2> HIDE DEF x
  <2> QED
    BY <2>1, <2>2, KeyedAdd DEF ClaimsDistinct
<1>5. ASSUME NEW n \in Node, NEW ttl \in 1..MaxTTL, ReclaimEvidence(n, ttl)
      PROVE  Keyed(claims')
  <2> DEFINE x == NewClaim(n, node[n].version + 1, ttl)
  <2>1. PICK c \in claims : claims' = Ended(c, "EXPIRED") \cup {x}
    BY <1>5 DEF ReclaimEvidence, ActiveClaims
  <2>2. x.status = "ACTIVE" /\ x.node = n /\ x.version = node[n].version + 1
    BY NewClaimFields
  <2>3. ASSUME NEW d \in Ended(c, "EXPIRED"), d.node = n
        PROVE  d.version # node[n].version + 1
    <3>1. PICK b \in claims : b.node = n /\ b.version = d.version
      BY <2>3, EndedSame
    <3>2. b.version < node[n].version /\ b.version \in Nat /\ node[n].version \in Nat
      BY <3>1 DEF ClaimsDistinct, ClaimsPast, TypeOK, Claim, Row
    <3> QED
      BY <3>1, <3>2
  <2>4. Keyed(Ended(c, "EXPIRED"))
    BY KeyedEnded DEF ClaimsDistinct
  <2> HIDE DEF x
  <2> QED
    BY <2>1, <2>2, <2>3, <2>4, KeyedAdd
<1>6. ASSUME NEW n \in Node, NEW d \in Dispositions, RejectEvidence(n, d)
      PROVE  Keyed(claims')
  BY <1>6, KeyedEnded DEF RejectEvidence, LiveClaims, ActiveClaims, ClaimsDistinct
<1>7. ASSUME NEW e \in verifying, CommitEvaluation(e) PROVE Keyed(claims')
  BY <1>7, KeyedEnded DEF CommitEvaluation, LiveClaims, ActiveClaims, ClaimsDistinct
<1>8. CASE RecoverClaims
  BY <1>8, KeyedRecovered DEF RecoverClaims, ClaimsDistinct
<1> QED
  BY <1>1, <1>2, <1>3, <1>4, <1>5, <1>6, <1>7, <1>8, ClaimSteps DEF ClaimStep, ClaimsStay

\* Versions only grow, and a row never goes.
LEMMA VersionsGrow ==
  ASSUME TypeOK, Coherent, NeverIntegrating, [Next]_vars, NEW n \in Node,
         node[n].state # Absent
  PROVE  node'[n].state # Absent /\ node'[n].version >= node[n].version
<1>1. RowStep(n)
  BY RowSteps
<1>2. node[n].version \in Nat
  BY Fields
<1>3. CASE Kept(n)
  BY <1>2, <1>3, KeptFields
<1>4. CASE Worked(n)
  <2>1. node'[n].version \in Nat
    BY NextType DEF TypeOK, Row
  <2>2. node'[n].version > node[n].version /\ node'[n].state # Absent
    BY <1>4 DEF Worked
  <2> QED
    BY <1>2, <2>1, <2>2
<1>5. CASE Published(n)
  BY <1>5 DEF Published, Absent
<1> QED
  BY <1>1, <1>3, <1>4, <1>5 DEF RowStep, Planned

LEMMA ClaimsPastNext ==
  ASSUME TypeOK, Coherent, ClaimsDistinct, NeverIntegrating, TypeOK', [Next]_vars
  PROVE  ClaimsPast'
<1>a. ASSUME NEW d \in claims', NEW b \in claims, b.node = d.node, b.version = d.version
      PROVE  node'[d.node].state # Absent /\ d.version < node'[d.node].version
  <2>1. /\ b.node \in Node /\ b.version \in Nat
        /\ node[b.node].state # Absent /\ b.version < node[b.node].version
        /\ node[b.node].version \in Nat /\ node'[b.node].version \in Nat
    BY DEF ClaimsDistinct, ClaimsPast, TypeOK, Claim, Row
  <2>2. node'[b.node].state # Absent /\ node'[b.node].version >= node[b.node].version
    BY <2>1, VersionsGrow
  <2> QED
    BY <1>a, <2>1, <2>2
<1> SUFFICES ASSUME NEW d \in claims'
             PROVE  node'[d.node].state # Absent /\ d.version < node'[d.node].version
  BY DEF ClaimsPast
<1>1. CASE claims' = claims
  BY <1>1, <1>a
<1>2. CASE Tick
  <2>1. PICK b \in claims : d = [b EXCEPT !.left = Less(@)]
    BY <1>2 DEF Tick
  <2>2. b.node = d.node /\ b.version = d.version
    BY <2>1 DEF TypeOK, Claim
  <2> QED
    BY <2>2, <1>a
<1>3. CASE ClaimHeartbeatCommit
  <2>1. PICK b \in claims : d = b \/ d = [b EXCEPT !.left = writer.left]
    BY <1>3 DEF ClaimHeartbeatCommit
  <2>2. b.node = d.node /\ b.version = d.version
    BY <2>1 DEF TypeOK, Claim
  <2> QED
    BY <2>2, <1>a
<1>4. ASSUME NEW n \in Node, NEW ttl \in 1..MaxTTL, ClaimEvidence(n, ttl)
      PROVE  node'[d.node].state # Absent /\ d.version < node'[d.node].version
  <2> DEFINE x == NewClaim(n, node[n].version, ttl)
  <2>1. d \in claims \/ d = x
    BY <1>4 DEF ClaimEvidence
  <2>2. x.node = n /\ x.version = node[n].version
    BY NewClaimFields
  <2>3. node'[n].state # Absent /\ node[n].version < node'[n].version
    <3>1. node'[n] = Advanced(node[n], "EVALUATING")
      BY <1>4 DEF ClaimEvidence, TypeOK
    <3> QED
      BY <3>1, AdvancedFields, Fields DEF Absent
  <2> HIDE DEF x
  <2> QED
    BY <2>1, <2>2, <2>3, <1>a
<1>5. ASSUME NEW n \in Node, NEW ttl \in 1..MaxTTL, ReclaimEvidence(n, ttl)
      PROVE  node'[d.node].state # Absent /\ d.version < node'[d.node].version
  <2> DEFINE x == NewClaim(n, node[n].version + 1, ttl)
  <2>1. PICK c \in claims : claims' = Ended(c, "EXPIRED") \cup {x}
    BY <1>5 DEF ReclaimEvidence, ActiveClaims
  <2>2. x.node = n /\ x.version = node[n].version + 1
    BY NewClaimFields
  <2>3. node'[n].state # Absent /\ node[n].version + 1 < node'[n].version
    <3>1. node'[n] = [node[n] EXCEPT !.version = @ + 2] /\ node[n].state = "EVALUATING"
      BY <1>5 DEF ReclaimEvidence, TypeOK
    <3> QED
      BY <3>1 DEF Absent, TypeOK, Row
  <2> HIDE DEF x
  <2>4. CASE d = x
    BY <2>2, <2>3, <2>4
  <2>5. CASE d \in Ended(c, "EXPIRED")
    <3>1. PICK b \in claims : b.node = d.node /\ b.version = d.version
      BY <2>5, EndedSame
    <3> QED
      BY <3>1, <1>a
  <2> QED
    BY <2>1, <2>4, <2>5
<1>6. ASSUME NEW c \in claims, NEW status, claims' = Ended(c, status)
      PROVE  node'[d.node].state # Absent /\ d.version < node'[d.node].version
  <2>1. PICK b \in claims : b.node = d.node /\ b.version = d.version
    BY <1>6, EndedSame
  <2> QED
    BY <2>1, <1>a
<1>7. ASSUME NEW n \in Node, NEW e \in Dispositions, RejectEvidence(n, e)
      PROVE  node'[d.node].state # Absent /\ d.version < node'[d.node].version
  BY <1>6, <1>7 DEF RejectEvidence, LiveClaims, ActiveClaims
<1>8. ASSUME NEW e \in verifying, CommitEvaluation(e)
      PROVE  node'[d.node].state # Absent /\ d.version < node'[d.node].version
  BY <1>6, <1>8 DEF CommitEvaluation, LiveClaims, ActiveClaims
<1>9. CASE RecoverClaims
  <2>1. PICK b \in claims : d = b \/ d = [b EXCEPT !.status = "EXPIRED", !.left = 0]
    BY <1>9 DEF RecoverClaims
  <2>2. b.node = d.node /\ b.version = d.version
    <3>1. CASE d = [b EXCEPT !.status = "EXPIRED", !.left = 0]
      BY <3>1, EndedClaim
    <3> QED
      BY <2>1, <3>1
  <2> QED
    BY <2>2, <1>a
<1> QED
  BY <1>1, <1>2, <1>3, <1>4, <1>5, <1>7, <1>8, <1>9, ClaimSteps DEF ClaimStep, ClaimsStay

-----------------------------------------------------------------------------
(* An active claim belongs to the node under evaluation *)

ActiveAt(c, row) ==
  row.state = "EVALUATING" /\ row.version = c.version + 1 /\ row.artifact = c.attempt

\* Of a node under evaluation there is one active claim.
LEMMA OneActive ==
  ASSUME TypeOK, Keyed(claims), ActiveClaimsClosed, NEW c \in claims, NEW d \in claims,
         c.node = d.node, c.status = "ACTIVE", d.status = "ACTIVE"
  PROVE  c = d
<1>1. c.node \in Node /\ c.version \in Nat /\ d.version \in Nat
  BY DEF TypeOK, Claim
<1>2. node[c.node].version = c.version + 1 /\ node[c.node].version = d.version + 1
  BY <1>1 DEF ActiveClaimsClosed, ActiveClaims
<1>3. c.version = d.version
  BY <1>1, <1>2
<1> QED
  BY <1>3 DEF Keyed

LEMMA ActiveClaimsNext ==
  ASSUME TypeOK, Coherent, Evaluated, [Next]_vars
  PROVE  ActiveClaimsClosed'
<1>0. /\ Keyed(claims) /\ ActiveClaimsClosed /\ NeverIntegrating
  BY DEF Evaluated, ClaimsDistinct, EvaluationClosed
<1> SUFFICES ASSUME NEW d \in claims', d.node \in Node, d.status = "ACTIVE"
             PROVE  ActiveAt(d, node'[d.node])
  BY DEF ActiveClaimsClosed, ActiveClaims, ActiveAt
\* What it is before the step, of an old claim.
<1>a. ASSUME NEW c \in claims, c.status = "ACTIVE"
      PROVE  c.node \in Node /\ ActiveAt(c, node[c.node])
  BY <1>0, <1>a DEF ActiveClaimsClosed, ActiveClaims, ActiveAt, TypeOK, Claim
\* An old claim, on a row that stays.
<1>b. ASSUME NEW c \in claims, c.status = "ACTIVE", c.node = d.node,
             c.version = d.version, c.attempt = d.attempt, Kept(d.node)
      PROVE  ActiveAt(d, node'[d.node])
  BY <1>a, <1>b, KeptFields DEF ActiveAt
<1>1. CASE ClaimsStay
  <2>1. node[d.node].state = "EVALUATING"
    BY <1>1, <1>a DEF ClaimsStay, ActiveAt
  <2> QED
    BY <1>1, <1>b, <2>1 DEF ClaimsStay
<1>2. CASE Tick
  <2>1. PICK c \in claims : d = [c EXCEPT !.left = Less(@)]
    BY <1>2 DEF Tick
  <2>2. /\ c.node = d.node /\ c.version = d.version /\ c.attempt = d.attempt
        /\ c.status = "ACTIVE"
    BY <2>1 DEF TypeOK, Claim
  <2>3. Kept(d.node)
    BY <1>2 DEF Tick, Kept
  <2> QED
    BY <1>b, <2>2, <2>3
<1>3. CASE ClaimHeartbeatCommit
  <2>1. PICK c \in claims : d = c \/ d = [c EXCEPT !.left = writer.left]
    BY <1>3 DEF ClaimHeartbeatCommit
  <2>2. /\ c.node = d.node /\ c.version = d.version /\ c.attempt = d.attempt
        /\ c.status = "ACTIVE"
    BY <2>1 DEF TypeOK, Claim
  <2>3. Kept(d.node)
    BY <1>3 DEF ClaimHeartbeatCommit, Kept
  <2> QED
    BY <1>b, <2>2, <2>3
<1>4. ASSUME NEW n \in Node, NEW ttl \in 1..MaxTTL, ClaimEvidence(n, ttl)
      PROVE  ActiveAt(d, node'[d.node])
  <2> DEFINE x == NewClaim(n, node[n].version, ttl)
  <2>1. /\ node' = [node EXCEPT ![n] = Advanced(@, "EVALUATING")]
        /\ d \in claims \/ d = x
        /\ node[n].state = "EVIDENCE_PENDING"
    BY <1>4 DEF ClaimEvidence
  <2>2. x.node = n /\ x.version = node[n].version /\ x.attempt = node[n].artifact
    BY NewClaimFields
  <2>3. node'[n] = Advanced(node[n], "EVALUATING") /\ \A m \in Node : m # n => Kept(m)
    BY <2>1, OneRow
  <2> HIDE DEF x
  <2>4. CASE d = x
    BY <2>2, <2>3, <2>4, AdvancedFields DEF ActiveAt, TypeOK
  <2>5. CASE d \in claims
    BY <1>a, <1>b, <2>1, <2>3, <2>5 DEF ActiveAt
  <2> QED
    BY <2>1, <2>4, <2>5
<1>5. ASSUME NEW n \in Node, NEW ttl \in 1..MaxTTL, ReclaimEvidence(n, ttl)
      PROVE  ActiveAt(d, node'[d.node])
  <2> DEFINE x == NewClaim(n, node[n].version + 1, ttl)
  <2>1. PICK c \in claims : /\ c.node = n /\ c.status = "ACTIVE"
                            /\ claims' = Ended(c, "EXPIRED") \cup {x}
    BY <1>5 DEF ReclaimEvidence, ActiveClaims
  <2>2. /\ node' = [node EXCEPT ![n].version = @ + 2] /\ node[n].state = "EVALUATING"
    BY <1>5 DEF ReclaimEvidence
  <2>3. /\ node'[n] = [node[n] EXCEPT !.version = @ + 2]
        /\ \A m \in Node : m # n => Kept(m)
    BY <2>2 DEF TypeOK, Kept
  <2>4. x.node = n /\ x.version = node[n].version + 1 /\ x.attempt = node[n].artifact
    BY NewClaimFields
  <2> HIDE DEF x
  <2>5. CASE d = x
    BY <2>2, <2>3, <2>4, <2>5 DEF ActiveAt, TypeOK, Row
  <2>6. CASE d \in Ended(c, "EXPIRED")
    <3>1. d \in claims /\ d # c
      <4> DEFINE y == [c EXCEPT !.status = "EXPIRED", !.left = 0]
      <4>1. d \in (claims \ {c}) \cup {y}
        BY <2>6 DEF Ended
      <4>2. y.status = "EXPIRED"
        BY <2>1, EndedClaim
      <4> HIDE DEF y
      <4> QED
        BY <4>1, <4>2
    <3>2. d.node # n
      BY <1>0, <2>1, <3>1, OneActive
    <3> QED
      BY <1>b, <2>3, <3>1, <3>2
  <2> QED
    BY <2>1, <2>5, <2>6
\* The one active claim of n ended.
<1>6. ASSUME NEW n \in Node, NEW c \in ActiveClaims(n), NEW status,
             status # "ACTIVE", claims' = Ended(c, status),
             \A m \in Node : m # n => Kept(m)
      PROVE  ActiveAt(d, node'[d.node])
  <2>1. c \in claims /\ c.node = n /\ c.status = "ACTIVE"
    BY DEF ActiveClaims
  <2>2. d \in claims /\ d # c
    <3> DEFINE x == [c EXCEPT !.status = status, !.left = 0]
    <3>1. d \in (claims \ {c}) \cup {x}
      BY <1>6 DEF Ended
    <3>2. x.status # "ACTIVE"
      BY <1>6, <2>1, EndedClaim
    <3> HIDE DEF x
    <3> QED
      BY <3>1, <3>2
  <2>3. d.node # n
    BY <1>0, <2>1, <2>2, OneActive
  <2> QED
    BY <1>6, <1>b, <2>2, <2>3
<1>7. ASSUME NEW n \in Node, NEW e \in Dispositions, RejectEvidence(n, e)
      PROVE  ActiveAt(d, node'[d.node])
  <2>1. \A m \in Node : m # n => Kept(m)
    BY <1>7, OneRow DEF RejectEvidence
  <2>2. PICK c \in ActiveClaims(n) : claims' = Ended(c, "DISPOSED")
    BY <1>7 DEF RejectEvidence, LiveClaims
  <2> QED
    BY <1>6, <2>1, <2>2
<1>8. ASSUME NEW e \in verifying, CommitEvaluation(e)
      PROVE  ActiveAt(d, node'[d.node])
  <2>0. e.node \in Node
    BY DEF TypeOK, LedgerEntry
  <2>1. \A m \in Node : m # e.node => Kept(m)
    BY <1>8, <2>0, OneRow DEF CommitEvaluation
  <2>2. PICK c \in ActiveClaims(e.node) : claims' = Ended(c, "EVALUATED")
    BY <1>8 DEF CommitEvaluation, LiveClaims
  <2> QED
    BY <1>6, <2>0, <2>1, <2>2
<1>9. CASE RecoverClaims
  <2>1. PICK c \in claims : /\ \A o \in overdue : ~SameClaim(c, o)
                            /\ d = c
    <3>1. PICK c \in claims :
            d = IF \E o \in overdue : SameClaim(c, o)
                THEN [c EXCEPT !.status = "EXPIRED", !.left = 0] ELSE c
      BY <1>9 DEF RecoverClaims
    <3> QED
      BY <3>1, EndedClaim
  <2>2. ASSUME NEW o \in overdue, o.node = c.node PROVE FALSE
    <3>1. /\ node[o.node].artifact = o.attempt
          /\ o.version = node[o.node].version - 1
      BY <1>9 DEF RecoverClaims, Recoverable
    <3>2. ActiveAt(c, node[c.node])
      BY <1>a, <2>1
    <3>3. SameClaim(c, o)
      BY <2>2, <3>1, <3>2 DEF ActiveAt, SameClaim, TypeOK, Claim, Row
    <3> QED
      BY <2>1, <3>3
  <2>3. Kept(d.node)
    BY <1>9, <2>1, <2>2 DEF RecoverClaims, Kept
  <2> QED
    BY <1>b, <2>1, <2>3
<1> QED
  BY <1>0, <1>1, <1>2, <1>3, <1>4, <1>5, <1>7, <1>8, <1>9, ClaimSteps DEF ClaimStep

-----------------------------------------------------------------------------
(* Attempts, leases and artifacts stay together *)

\* A step registers one new artifact or none.
LEMMA ArtifactSteps ==
  ASSUME [Next]_vars
  PROVE  artifacts' = artifacts \/ \E i \in ingesting : CommitIngest(i)
BY DEF Next, Operator, PlanGoal, Cancel, Resume, Worker, Lease, HeartbeatBegin, Start,
   Reconcile, BeginIngest, AbandonIngest, HeartbeatCommit, Evaluator,
   ClaimEvidence, ReclaimEvidence, ClaimHeartbeatBegin, VerifyEvaluation,
   RejectEvidence, CommitEvaluation, AbandonEvaluation, ClaimHeartbeatCommit, Recovery,
   ScanClaims, RecoverClaims, AbandonClaimRecovery, ScanLeases, RecoverLease,
   AbandonLeaseRecovery, Coordinator, PreparePromotion, PrepareRollback,
   CompletePromotion, CompleteRollback, HeartbeatAbort, Tick, vars, records

LEMMA AttemptsMatchNext ==
  ASSUME TypeOK, Coherent, Evaluated, [Next]_vars
  PROVE  AttemptsMatch'
<1>0. NeverIntegrating /\ AttemptsMatch
  BY DEF Evaluated
<1>1. ASSUME NEW n \in Node
      PROVE  /\ node'[n].lease # 0 => node'[n].lease = node'[n].attempt
             /\ node'[n].state \in UnderJudgement => node'[n].artifact = node'[n].attempt
  BY <1>0, RowChanges DEF RowChange, AttemptStays, AttemptsMatch
<1>2. ASSUME NEW a \in artifacts', NEW b \in artifacts',
             a.node = b.node, a.attempt = b.attempt
      PROVE  a = b
  <2>1. CASE artifacts' = artifacts
    BY <1>0, <1>2, <2>1 DEF AttemptsMatch
  <2>2. ASSUME NEW i \in ingesting, CommitIngest(i) PROVE a = b
    <3> DEFINE new == [node |-> i.node, attempt |-> i.attempt, base |-> i.base]
    <3>1. /\ artifacts' = artifacts \cup {new}
          /\ \A c \in artifacts : c.node # i.node \/ c.attempt # i.attempt
      BY <2>2 DEF CommitIngest, Registrable
    <3> QED
      BY <1>0, <1>2, <3>1 DEF AttemptsMatch
  <2> QED
    BY <2>1, <2>2, ArtifactSteps
<1> QED
  BY <1>1, <1>2 DEF AttemptsMatch, UnderJudgement

LEMMA NeverIntegratingNext ==
  ASSUME TypeOK, Coherent, NeverIntegrating, [Next]_vars PROVE NeverIntegrating'
<1> SUFFICES ASSUME NEW n \in Node PROVE node'[n].state # "INTEGRATING"
  BY DEF NeverIntegrating
<1>1. RowStep(n) /\ node[n].state # "INTEGRATING"
  BY RowSteps DEF NeverIntegrating
<1> QED
  BY <1>1, KeptFields DEF RowStep, Planned, Worked, Published

-----------------------------------------------------------------------------
(* The ledger stays closed *)

Judged(S) == {c \in S : c.status = "EVALUATED"}

\* One evaluation is recorded, or neither ledger nor evaluated claims change.
LEMMA LedgerSteps ==
  ASSUME [Next]_vars
  PROVE  ledger' = ledger \/ \E e \in verifying : CommitEvaluation(e)
BY DEF Next, Operator, PlanGoal, Cancel, Resume, Worker, Lease, HeartbeatBegin, Start,
   Reconcile, BeginIngest, CommitIngest, AbandonIngest, HeartbeatCommit, Evaluator,
   ClaimEvidence, ReclaimEvidence, ClaimHeartbeatBegin, VerifyEvaluation,
   RejectEvidence, AbandonEvaluation, ClaimHeartbeatCommit, Recovery,
   ScanClaims, RecoverClaims, AbandonClaimRecovery, ScanLeases, RecoverLease,
   AbandonLeaseRecovery, Coordinator, PreparePromotion, PrepareRollback,
   CompletePromotion, CompleteRollback, HeartbeatAbort, Tick, vars, records

LEMMA LedgerGrows ==
  ASSUME TypeOK, NEW e \in verifying, CommitEvaluation(e)
  PROVE  /\ ledger' # ledger
         /\ Len(ledger') = Len(ledger) + 1 /\ ledger'[Len(ledger')] = e
         /\ DOMAIN ledger = 1..Len(ledger) /\ DOMAIN ledger' = 1..(Len(ledger) + 1)
         /\ \A i \in DOMAIN ledger : ledger'[i] = ledger[i]
<1>1. e \in LedgerEntry /\ ledger \in Seq(LedgerEntry) /\ ledger' = Append(ledger, e)
  BY DEF TypeOK, CommitEvaluation
<1> QED
  BY <1>1

LEMMA JudgedEnded ==
  ASSUME TypeOK, NEW c \in claims, c.status = "ACTIVE", NEW status, status # "EVALUATED"
  PROVE  Judged(Ended(c, status)) = Judged(claims)
<1> DEFINE d == [c EXCEPT !.status = status, !.left = 0]
<1>1. d.status = status
  BY EndedClaim
<1>2. Ended(c, status) = (claims \ {c}) \cup {d}
  BY DEF Ended
<1> HIDE DEF d
<1> QED
  BY <1>1, <1>2 DEF Judged

LEMMA JudgedStay ==
  ASSUME TypeOK, Coherent, Evaluated, [Next]_vars,
         ~\E e \in verifying : CommitEvaluation(e)
  PROVE  Judged(claims') = Judged(claims)
<1>0. Keyed(claims) /\ NeverIntegrating
  BY DEF Evaluated, ClaimsDistinct
<1>1. CASE Tick
  <2>1. ASSUME NEW c \in claims, c.status = "EVALUATED"
        PROVE  [c EXCEPT !.left = Less(@)] = c
    BY <1>0, <2>1 DEF Keyed, Less, TypeOK, Claim
  <2>2. ASSUME NEW c \in claims
        PROVE  [c EXCEPT !.left = Less(@)].status = c.status
    BY DEF TypeOK, Claim
  <2>3. claims' = {[c EXCEPT !.left = Less(@)] : c \in claims}
    BY <1>1 DEF Tick
  <2> QED
    <3>1. ASSUME NEW d \in Judged(claims')
          PROVE  d \in Judged(claims)
      BY <2>1, <2>2, <2>3, <3>1 DEF Judged
    <3>2. ASSUME NEW d \in Judged(claims)
          PROVE  d \in Judged(claims')
      <4>1. [d EXCEPT !.left = Less(@)] = d
        BY <2>1, <3>2 DEF Judged
      <4> QED
        BY <2>3, <3>2, <4>1 DEF Judged
    <3> QED
      BY <3>1, <3>2
<1>2. CASE ClaimHeartbeatCommit
  <2>1. \A c \in claims : [c EXCEPT !.left = writer.left].status = c.status
    BY DEF TypeOK, Claim
  <2>2. \A c \in ActiveClaims(writer.node) : c.status # "EVALUATED"
    BY DEF ActiveClaims
  <2>3. claims' = {IF c \in ActiveClaims(writer.node)
                   THEN [c EXCEPT !.left = writer.left] ELSE c : c \in claims}
    BY <1>2 DEF ClaimHeartbeatCommit
  <2> QED
    <3>1. ASSUME NEW d \in Judged(claims')
          PROVE  d \in Judged(claims)
      BY <2>1, <2>2, <2>3, <3>1 DEF Judged
    <3>2. ASSUME NEW d \in Judged(claims)
          PROVE  d \in Judged(claims')
      <4>1. d \notin ActiveClaims(writer.node) /\ d \in claims
        BY <2>2, <3>2 DEF Judged
      <4> QED
        BY <2>3, <3>2, <4>1 DEF Judged
    <3> QED
      BY <3>1, <3>2
<1>3. ASSUME NEW n \in Node, NEW ttl \in 1..MaxTTL, ClaimEvidence(n, ttl)
      PROVE  Judged(claims') = Judged(claims)
  <2> DEFINE x == NewClaim(n, node[n].version, ttl)
  <2>1. claims' = claims \cup {x} /\ x.status = "ACTIVE"
    BY <1>3, NewClaimFields DEF ClaimEvidence
  <2> HIDE DEF x
  <2> QED
    BY <2>1 DEF Judged
<1>4. ASSUME NEW n \in Node, NEW ttl \in 1..MaxTTL, ReclaimEvidence(n, ttl)
      PROVE  Judged(claims') = Judged(claims)
  <2> DEFINE x == NewClaim(n, node[n].version + 1, ttl)
  <2>1. PICK c \in claims : /\ c.status = "ACTIVE"
                            /\ claims' = Ended(c, "EXPIRED") \cup {x}
    BY <1>4 DEF ReclaimEvidence, ActiveClaims
  <2>2. Judged(Ended(c, "EXPIRED")) = Judged(claims) /\ x.status = "ACTIVE"
    BY <2>1, JudgedEnded, NewClaimFields
  <2> HIDE DEF x
  <2> QED
    BY <2>1, <2>2 DEF Judged
<1>5. ASSUME NEW n \in Node, NEW d \in Dispositions, RejectEvidence(n, d)
      PROVE  Judged(claims') = Judged(claims)
  BY <1>5, JudgedEnded DEF RejectEvidence, LiveClaims, ActiveClaims
<1>6. CASE RecoverClaims
  <2>1. ASSUME NEW c \in claims, NEW o \in overdue, SameClaim(c, o)
        PROVE  c.status = "ACTIVE"
    <3>1. PICK d \in claims : SameClaim(o, d) /\ d.status = "ACTIVE"
      BY <1>6 DEF RecoverClaims, Recoverable
    <3>2. c = d
      BY <1>0, <2>1, <3>1 DEF Keyed, SameClaim
    <3> QED
      BY <3>1, <3>2
  <2>2. \A c \in claims : [c EXCEPT !.status = "EXPIRED", !.left = 0].status = "EXPIRED"
    BY EndedClaim
  <2> QED
    BY <1>6, <2>1, <2>2 DEF RecoverClaims, Judged
<1> QED
  BY <1>0, <1>1, <1>2, <1>3, <1>4, <1>5, <1>6, ClaimSteps DEF ClaimStep, ClaimsStay

\* The same, element by element.
Sealed(lg, i, rows, S) ==
  LET n == lg[i].node IN
  /\ lg[i].previous = IF i = 1 THEN None ELSE lg[i - 1].node
  /\ n \in Node /\ rows[n].state \in Settled
  /\ rows[n].artifact = lg[i].attempt /\ rows[n].attempt = lg[i].attempt
  /\ \A c \in S : c.status = "ACTIVE" => c.node # n
  /\ \E c \in Judged(S) :
       /\ c.node = n /\ c.attempt = lg[i].attempt /\ c.version = lg[i].version
       /\ \A d \in Judged(S) : d.node = n => d = c

Closed(lg, rows, S) ==
  /\ \A i \in DOMAIN lg : Sealed(lg, i, rows, S)
  /\ \A c \in Judged(S) : \E i \in DOMAIN lg : lg[i].node = c.node
  /\ \A n \in Node : rows[n].state \in Settled => \E i \in DOMAIN lg : lg[i].node = n

LEMMA LedgerIsClosed == LedgerClosed <=> Closed(ledger, node, claims)
<1>0. Judged(claims) = {d \in claims : d.status = "EVALUATED"}
  BY DEF Judged
<1>1. ASSUME NEW i \in DOMAIN ledger
      PROVE  /\ ActiveClaims(ledger[i].node) = {} <=>
                  \A c \in claims : c.status = "ACTIVE" => c.node # ledger[i].node
             /\ (\E c \in claims :
                   /\ c.node = ledger[i].node /\ c.status = "EVALUATED"
                   /\ c.attempt = ledger[i].attempt /\ c.version = ledger[i].version
                   /\ \A d \in claims : d.node = c.node /\ d.status = "EVALUATED" => d = c)
                <=> \E c \in Judged(claims) :
                   /\ c.node = ledger[i].node
                   /\ c.attempt = ledger[i].attempt /\ c.version = ledger[i].version
                   /\ \A d \in Judged(claims) : d.node = ledger[i].node => d = c
  BY <1>0 DEF ActiveClaims
<1>2. ASSUME LedgerClosed PROVE Closed(ledger, node, claims)
  <2>1. /\ {n \in Node : node[n].state \in Settled} = LedgerNodes
        /\ {c.node : c \in Judged(claims)} = LedgerNodes
    BY <1>2, <1>0 DEF LedgerClosed, Settled
  <2>2. ASSUME NEW i \in DOMAIN ledger PROVE Sealed(ledger, i, node, claims)
    <3>1. ledger[i].node \in LedgerNodes
      BY DEF LedgerNodes
    <3>2. ledger[i].node \in Node /\ node[ledger[i].node].state \in Settled
      BY <2>1, <3>1
    <3>3. /\ ledger[i].previous = IF i = 1 THEN None ELSE ledger[i - 1].node
          /\ node[ledger[i].node].artifact = ledger[i].attempt
          /\ node[ledger[i].node].attempt = ledger[i].attempt
      BY <1>2 DEF LedgerClosed
    <3>4. ActiveClaims(ledger[i].node) = {}
      BY <1>2 DEF LedgerClosed
    <3>5. \E c \in claims :
            /\ c.node = ledger[i].node /\ c.status = "EVALUATED"
            /\ c.attempt = ledger[i].attempt /\ c.version = ledger[i].version
            /\ \A d \in claims : d.node = c.node /\ d.status = "EVALUATED" => d = c
      BY <1>2 DEF LedgerClosed
    <3> QED
      BY <1>1, <3>2, <3>3, <3>4, <3>5 DEF Sealed
  <2> QED
    BY <2>1, <2>2 DEF Closed, LedgerNodes
<1>3. ASSUME Closed(ledger, node, claims) PROVE LedgerClosed
  <2>1. {n \in Node : node[n].state \in {"PASSED", "INTEGRATED"}} = LedgerNodes
    BY <1>3 DEF Closed, Sealed, LedgerNodes, Settled
  <2>2. {c.node : c \in {d \in claims : d.status = "EVALUATED"}} = LedgerNodes
    <3>1. ASSUME NEW n \in LedgerNodes PROVE \E c \in Judged(claims) : c.node = n
      BY <1>3, <3>1 DEF Closed, Sealed, LedgerNodes
    <3>2. \A c \in Judged(claims) : c.node \in LedgerNodes
      BY <1>3 DEF Closed, LedgerNodes
    <3> QED
      BY <1>0, <3>1, <3>2
  <2>3. ASSUME NEW i \in DOMAIN ledger
        PROVE  /\ ledger[i].previous = IF i = 1 THEN None ELSE ledger[i - 1].node
               /\ node[ledger[i].node].artifact = ledger[i].attempt
               /\ node[ledger[i].node].attempt = ledger[i].attempt
               /\ ActiveClaims(ledger[i].node) = {}
               /\ \E c \in claims :
                    /\ c.node = ledger[i].node /\ c.status = "EVALUATED"
                    /\ c.attempt = ledger[i].attempt /\ c.version = ledger[i].version
                    /\ \A d \in claims : d.node = c.node /\ d.status = "EVALUATED" => d = c
    <3>1. Sealed(ledger, i, node, claims)
      BY <1>3 DEF Closed
    <3> QED
      BY <1>1, <3>1 DEF Sealed
  <2> QED
    BY <2>1, <2>2, <2>3 DEF LedgerClosed
<1> QED
  BY <1>2, <1>3

LEMMA LedgerIsClosedNext == LedgerClosed' <=> Closed(ledger', node', claims')
<1>1. (LedgerClosed <=> Closed(ledger, node, claims))'
  BY LedgerIsClosed, PTL
<1> QED
  BY <1>1

LEMMA InactiveSettled ==
  ASSUME ActiveClaimsClosed', NEW c \in claims', c.status = "ACTIVE",
         NEW n \in Node, node'[n].state \in Settled
  PROVE  c.node # n
BY DEF ActiveClaimsClosed, ActiveClaims, Settled

LEMMA LedgerSame ==
  ASSUME ActiveClaimsClosed', LedgerClosed,
         ledger' = ledger, Judged(claims') = Judged(claims),
         \A n \in Node : SettledStays(n),
         \A n \in Node : node'[n].state \in Settled => node[n].state \in Settled
  PROVE  LedgerClosed'
<1>0. Closed(ledger, node, claims)
  BY LedgerIsClosed
<1>1. ASSUME NEW i \in DOMAIN ledger PROVE Sealed(ledger, i, node', claims')
  <2>1. Sealed(ledger, i, node, claims)
    BY <1>0 DEF Closed
  <2>2. LET n == ledger[i].node IN
        /\ node'[n].artifact = node[n].artifact /\ node'[n].attempt = node[n].attempt
        /\ node'[n].state \in Settled
    BY <2>1 DEF SettledStays, Sealed
  <2> QED
    BY <2>1, <2>2, InactiveSettled DEF Sealed
<1>2. Closed(ledger', node', claims')
  BY <1>0, <1>1 DEF Closed
<1> QED
  BY <1>2, LedgerIsClosedNext

\* The claim an evaluation ends is the one it was verified under.
LEMMA EvaluatedClaim ==
  ASSUME TypeOK, NEW e \in verifying, CommitEvaluation(e)
  PROVE  \E c \in claims :
           /\ c.node = e.node /\ c.attempt = e.attempt /\ c.version = e.version
           /\ c.status = "ACTIVE" /\ c.left > 0 /\ claims' = Ended(c, "EVALUATED")
<1>1. PICK c \in LiveClaims(e.node) : claims' = Ended(c, "EVALUATED")
  BY DEF CommitEvaluation
<1>2. /\ c \in claims /\ c.node = e.node /\ c.status = "ACTIVE" /\ c.left > 0
      /\ c.attempt = node[e.node].artifact /\ c.version = node[e.node].version - 1
  BY DEF LiveClaims, ActiveClaims
<1>3. node[e.node].artifact = e.attempt /\ node[e.node].version = e.version + 1
      /\ e.version \in Nat
  BY DEF CommitEvaluation, TypeOK, LedgerEntry
<1>4. c.version = e.version
  BY <1>2, <1>3
<1> QED
  BY <1>1, <1>2, <1>3, <1>4

LEMMA LedgerCommitted ==
  ASSUME TypeOK, TypeOK', Coherent, Evaluated, ActiveClaimsClosed',
         NEW e \in verifying, CommitEvaluation(e)
  PROVE  LedgerClosed'
<1> DEFINE n == e.node
<1>0. Closed(ledger, node, claims) /\ AttemptsMatch
  BY LedgerIsClosed DEF Evaluated, EvaluationClosed
<1>1. n \in Node /\ e \in LedgerEntry /\ ledger \in Seq(LedgerEntry)
  BY DEF TypeOK, LedgerEntry
<1>2. /\ node[n].state = "EVALUATING" /\ node[n].artifact = e.attempt
      /\ node[n].attempt = e.attempt
  BY <1>0, <1>1 DEF CommitEvaluation, AttemptsMatch, UnderJudgement
<1>3. /\ node' = [node EXCEPT ![n] = Advanced(@, "PASSED")]
      /\ e.previous = LedgerTail
  BY DEF CommitEvaluation, TailUnmoved
<1>4. /\ node'[n].state = "PASSED" /\ node'[n].artifact = e.attempt
      /\ node'[n].attempt = e.attempt /\ \A m \in Node : m # n => node'[m] = node[m]
  BY <1>1, <1>2, <1>3, AdvancedFields DEF TypeOK
<1>5. \A i \in DOMAIN ledger : ledger[i].node # n
  BY <1>0, <1>2 DEF Closed, Sealed, Settled
<1>6. PICK c \in claims :
        /\ c.node = n /\ c.attempt = e.attempt /\ c.version = e.version
        /\ c.status = "ACTIVE" /\ claims' = Ended(c, "EVALUATED")
  BY EvaluatedClaim
<1> DEFINE d == [c EXCEPT !.status = "EVALUATED", !.left = 0]
<1>7. /\ d.node = n /\ d.attempt = e.attempt /\ d.version = e.version
      /\ d.status = "EVALUATED" /\ claims' = (claims \ {c}) \cup {d}
  BY <1>6, EndedClaim DEF Ended
<1> HIDE DEF d
<1>8. Judged(claims') = Judged(claims) \cup {d}
  BY <1>6, <1>7 DEF Judged
<1>9. \A x \in Judged(claims) : x.node # n
  BY <1>0, <1>5 DEF Closed
<1>10. /\ Len(ledger') = Len(ledger) + 1 /\ ledger'[Len(ledger')] = e
       /\ DOMAIN ledger = 1..Len(ledger) /\ DOMAIN ledger' = 1..(Len(ledger) + 1)
       /\ \A i \in DOMAIN ledger : ledger'[i] = ledger[i]
       /\ Len(ledger) \in Nat
  BY <1>1, LedgerGrows
<1>11. ASSUME NEW i \in DOMAIN ledger PROVE Sealed(ledger', i, node', claims')
  <2> DEFINE m == ledger[i].node
  <2>1. Sealed(ledger, i, node, claims) /\ m # n
    BY <1>0, <1>5 DEF Closed
  <2>2. ledger'[i] = ledger[i] /\ (i # 1 => i - 1 \in DOMAIN ledger)
    BY <1>10
  <2>3. m \in Node /\ node'[m] = node[m]
    BY <1>4, <2>1 DEF Sealed
  <2>4. ledger'[i].previous = IF i = 1 THEN None ELSE ledger'[i - 1].node
    BY <1>10, <2>1, <2>2 DEF Sealed
  <2>5. PICK x \in Judged(claims) :
          /\ x.node = m /\ x.attempt = ledger[i].attempt /\ x.version = ledger[i].version
          /\ \A y \in Judged(claims) : y.node = m => y = x
    BY <2>1 DEF Sealed
  <2>6. x \in Judged(claims') /\ \A y \in Judged(claims') : y.node = m => y = x
    BY <1>7, <1>8, <2>1, <2>5
  <2>7. \A y \in claims' : y.status = "ACTIVE" => y.node # m
    BY <2>1, <2>3, InactiveSettled DEF Sealed
  <2> QED
    BY <2>1, <2>2, <2>3, <2>4, <2>5, <2>6, <2>7 DEF Sealed
<1>12. Sealed(ledger', Len(ledger'), node', claims')
  <2> DEFINE i == Len(ledger')
  <2>1. ledger'[i] = e
    BY <1>10
  <2>2. e.previous = IF i = 1 THEN None ELSE ledger'[i - 1].node
    <3>1. CASE ledger = <<>>
      BY <1>3, <1>10, <3>1 DEF LedgerTail
    <3>2. CASE ledger # <<>>
      <4>1. Len(ledger) \in DOMAIN ledger /\ i # 1 /\ i - 1 = Len(ledger)
        BY <1>1, <1>10, <3>2
      <4> QED
        BY <1>3, <1>10, <3>2, <4>1 DEF LedgerTail
    <3> QED
      BY <3>1, <3>2
  <2>3. d \in Judged(claims') /\ \A y \in Judged(claims') : y.node = n => y = d
    BY <1>8, <1>9
  <2>4. \A y \in claims' : y.status = "ACTIVE" => y.node # n
    BY <1>1, <1>4, InactiveSettled DEF Settled
  <2> HIDE DEF i
  <2> QED
    BY <1>1, <1>4, <1>7, <2>1, <2>2, <2>3, <2>4 DEF Sealed, Settled, i
<1>13. ASSUME NEW x \in Judged(claims') PROVE \E i \in DOMAIN ledger' : ledger'[i].node = x.node
  <2>1. CASE x = d
    BY <1>7, <1>10, <2>1
  <2>2. CASE x \in Judged(claims)
    BY <1>0, <1>10, <2>2 DEF Closed
  <2> QED
    BY <1>8, <2>1, <2>2
<1>14. ASSUME NEW m \in Node, node'[m].state \in Settled
       PROVE  \E i \in DOMAIN ledger' : ledger'[i].node = m
  <2>1. CASE m = n
    BY <1>10, <2>1
  <2>2. CASE m # n
    BY <1>0, <1>4, <1>10, <1>14, <2>2 DEF Closed
  <2> QED
    BY <2>1, <2>2
<1>15. \A i \in DOMAIN ledger' : i \in DOMAIN ledger \/ i = Len(ledger')
  BY <1>10
<1>16. Closed(ledger', node', claims')
  BY <1>11, <1>12, <1>13, <1>14, <1>15 DEF Closed
<1> QED
  BY <1>16, LedgerIsClosedNext

LEMMA LedgerClosedNext ==
  ASSUME TypeOK, TypeOK', Coherent, Evaluated, ActiveClaimsClosed', [Next]_vars
  PROVE  LedgerClosed'
<1>1. CASE \E e \in verifying : CommitEvaluation(e)
  BY <1>1, LedgerCommitted
<1>2. CASE ~\E e \in verifying : CommitEvaluation(e)
  <2>1. ledger' = ledger /\ Judged(claims') = Judged(claims)
    BY <1>2, LedgerSteps, JudgedStay
  <2>2. \A n \in Node : RowChange(n)
    BY RowChanges DEF Evaluated
  <2> QED
    BY <1>2, <2>1, <2>2, LedgerSame DEF RowChange, Settles, Evaluated, EvaluationClosed
<1> QED
  BY <1>1, <1>2

-----------------------------------------------------------------------------
(* The invariant is inductive *)

LEMMA InitEvaluated == Init => Evaluated
<1> SUFFICES ASSUME Init PROVE Evaluated
  OBVIOUS
<1>1. ClaimsDistinct /\ NeverIntegrating
  BY DEF Init, ClaimsDistinct, Keyed, ClaimsPast, NeverIntegrating, NoRow, Absent
<1>2. AttemptsMatch
  BY DEF Init, AttemptsMatch, NoRow, UnderJudgement, Absent
<1>3. EvaluationClosed
  BY DEF Init, EvaluationClosed, ActiveClaimsClosed, ActiveClaims, LedgerClosed,
     LedgerNodes, NoRow, Absent
<1> QED
  BY <1>1, <1>2, <1>3 DEF Evaluated

LEMMA EvaluatedNext == TypeOK /\ Coherent /\ Evaluated /\ [Next]_vars => Evaluated'
<1> SUFFICES ASSUME TypeOK, Coherent, Evaluated, [Next]_vars PROVE Evaluated'
  OBVIOUS
<1>1. TypeOK' /\ NeverIntegrating'
  BY NextType, NeverIntegratingNext DEF Evaluated
<1>2. ClaimsDistinct'
  BY <1>1, KeyedNext, ClaimsPastNext DEF Evaluated, ClaimsDistinct
<1>3. ActiveClaimsClosed'
  BY ActiveClaimsNext
<1>4. LedgerClosed'
  BY <1>1, <1>3, LedgerClosedNext
<1> QED
  BY <1>1, <1>2, <1>3, <1>4, AttemptsMatchNext DEF Evaluated, EvaluationClosed

LEMMA AlwaysEvaluated == Spec => [](TypeOK /\ Coherent /\ Evaluated)
<1>1. Init => Evaluated
  BY InitEvaluated
<1>2. TypeOK /\ Coherent /\ Evaluated /\ [Next]_vars => Evaluated'
  BY EvaluatedNext
<1> QED
  BY <1>1, <1>2, AlwaysCoherent, PTL DEF Spec

-----------------------------------------------------------------------------
(* Theorems *)

\* The closure of claims and ledger that every operation asserts before it
\* starts is never broken by what the operations do, those transactions
\* included that do not assert it (_assert_evaluation_integrity).
THEOREM EvaluationAlwaysClosed == Spec => []EvaluationClosed
BY AlwaysEvaluated, PTL DEF Evaluated

\* Between the verification of a signed evaluation and its transaction
\* anything may happen: a PASS is recorded only if the claim it was verified
\* under is still active and unexpired (record_evaluation).
THEOREM PassAlwaysUnderLiveClaim == Spec => PassUnderLiveClaim
<1>1. TypeOK /\ [Next]_vars =>
        [ledger' # ledger =>
           \E c \in claims :
             LET e == ledger'[Len(ledger')] IN
             /\ c.node = e.node /\ c.attempt = e.attempt /\ c.version = e.version
             /\ c.status = "ACTIVE" /\ c.left > 0]_vars
  <2> SUFFICES ASSUME TypeOK, [Next]_vars, ledger' # ledger
               PROVE  \E c \in claims :
                 LET e == ledger'[Len(ledger')] IN
                 /\ c.node = e.node /\ c.attempt = e.attempt /\ c.version = e.version
                 /\ c.status = "ACTIVE" /\ c.left > 0
    OBVIOUS
  <2>1. PICK e \in verifying : CommitEvaluation(e)
    BY LedgerSteps
  <2>2. ledger'[Len(ledger')] = e
    BY <2>1, LedgerGrows
  <2> QED
    BY <2>1, <2>2, EvaluatedClaim
<1> QED
  BY <1>1, TypeCorrect, PTL DEF Spec, PassUnderLiveClaim

\* A generation that took longer to build than its worker's lease runs is not
\* registered, and neither is one of an earlier attempt or base
\* (record_ingressed_evidence).
THEOREM IngestAlwaysUnderLiveLease == Spec => IngestUnderLiveLease
<1>1. TypeOK /\ Evaluated /\ [Next]_vars =>
        [\A a \in artifacts' \ artifacts :
           /\ node[a.node].lease = a.attempt /\ node[a.node].ttl > 0
           /\ node[a.node].base = a.base]_vars
  <2> SUFFICES ASSUME TypeOK, Evaluated, [Next]_vars, NEW a \in artifacts' \ artifacts
               PROVE  /\ node[a.node].lease = a.attempt /\ node[a.node].ttl > 0
                      /\ node[a.node].base = a.base
    OBVIOUS
  <2>1. PICK i \in ingesting : CommitIngest(i)
    BY ArtifactSteps
  <2>2. a.node = i.node /\ a.attempt = i.attempt /\ a.base = i.base
    BY <2>1 DEF CommitIngest
  <2>3. /\ i.node \in Node /\ i.attempt = node[i.node].attempt
        /\ node[i.node].lease # 0 /\ node[i.node].ttl > 0 /\ node[i.node].base = i.base
    BY <2>1 DEF TypeOK, CommitIngest, AwaitsIngest, LeaseIsLive, Registrable
  <2> QED
    BY <2>2, <2>3 DEF Evaluated, AttemptsMatch
<1> QED
  BY <1>1, AlwaysEvaluated, PTL DEF Spec, IngestUnderLiveLease

\* Every change of a row but a new expiry advances its version by the events
\* it records, each along an edge the event chain accepts: the version a
\* two-phase operation read identifies the row it read.
THEOREM ChangesAlwaysRecorded == Spec => ChangesRecorded
<1>1. TypeOK /\ Coherent /\ Evaluated /\ [Next]_vars =>
        [\A n \in Node : RecordedChange(n)]_vars
  BY RowChanges DEF RowChange, Evaluated
<1> QED
  BY <1>1, AlwaysEvaluated, PTL DEF Spec, ChangesRecorded

\* Recovery and the next claimant expire no claim that its evaluator renewed
\* in time, whatever an earlier scan saw (expire_claim).
THEOREM LiveClaimAlwaysKept == Spec => LiveClaimKept
<1>1. TypeOK /\ Coherent /\ Evaluated /\ [Next]_vars =>
        [\A c \in claims : c.status = "ACTIVE" /\ c.left > 0 =>
           ~\E d \in claims' : SameClaim(c, d) /\ d.status = "EXPIRED"]_vars
  <2> SUFFICES ASSUME TypeOK, Coherent, Evaluated, [Next]_vars,
                      NEW c \in claims, c.status = "ACTIVE", c.left > 0,
                      NEW d \in claims', SameClaim(c, d), d.status = "EXPIRED"
               PROVE  FALSE
    OBVIOUS
  <2>0. Keyed(claims) /\ NeverIntegrating
    BY DEF Evaluated, ClaimsDistinct
  \* No claim of before the step has c's key but c.
  <2>a. ASSUME NEW b \in claims, b.node = d.node, b.version = d.version PROVE b = c
    BY <2>0, <2>a DEF Keyed, SameClaim
  <2>1. CASE claims' = claims
    BY <2>1, <2>a
  <2>2. CASE Tick
    <3>1. PICK b \in claims : d = [b EXCEPT !.left = Less(@)]
      BY <2>2 DEF Tick
    <3>2. b.node = d.node /\ b.version = d.version /\ b.status = d.status
      BY <3>1 DEF TypeOK, Claim
    <3> QED
      BY <3>2, <2>a
  <2>3. CASE ClaimHeartbeatCommit
    <3>1. PICK b \in claims : d = b \/ d = [b EXCEPT !.left = writer.left]
      BY <2>3 DEF ClaimHeartbeatCommit
    <3>2. b.node = d.node /\ b.version = d.version /\ b.status = d.status
      BY <3>1 DEF TypeOK, Claim
    <3> QED
      BY <3>2, <2>a
  <2>4. ASSUME NEW n \in Node, NEW ttl \in 1..MaxTTL, ClaimEvidence(n, ttl) PROVE FALSE
    <3> DEFINE x == NewClaim(n, node[n].version, ttl)
    <3>1. d \in claims \/ d = x
      BY <2>4 DEF ClaimEvidence
    <3>2. x.status = "ACTIVE"
      BY NewClaimFields
    <3> HIDE DEF x
    <3> QED
      BY <3>1, <3>2, <2>a
  \* A claim that ends with another status, or has ended.
  <2>5. ASSUME NEW b \in claims, NEW status, d \in Ended(b, status),
               status # "EXPIRED" \/ b.left = 0
        PROVE  FALSE
    <3>1. CASE d \in claims
      BY <2>a, <3>1
    <3>2. CASE d = [b EXCEPT !.status = status, !.left = 0]
      <4>1. b.node = d.node /\ b.version = d.version /\ d.status = status
        BY <3>2, EndedClaim
      <4> QED
        BY <4>1, <2>5, <2>a
    <3> QED
      BY <2>5, <3>1, <3>2 DEF Ended
  <2>6. ASSUME NEW n \in Node, NEW ttl \in 1..MaxTTL, ReclaimEvidence(n, ttl) PROVE FALSE
    <3> DEFINE x == NewClaim(n, node[n].version + 1, ttl)
    <3>1. PICK b \in claims : b.left = 0 /\ claims' = Ended(b, "EXPIRED") \cup {x}
      BY <2>6 DEF ReclaimEvidence, ActiveClaims
    <3>2. x.status = "ACTIVE"
      BY NewClaimFields
    <3> HIDE DEF x
    <3> QED
      BY <3>1, <3>2, <2>5
  <2>7. ASSUME NEW n \in Node, NEW e \in Dispositions, RejectEvidence(n, e) PROVE FALSE
    BY <2>5, <2>7 DEF RejectEvidence, LiveClaims, ActiveClaims
  <2>8. ASSUME NEW e \in verifying, CommitEvaluation(e) PROVE FALSE
    BY <2>5, <2>8 DEF CommitEvaluation, LiveClaims, ActiveClaims
  <2>9. CASE RecoverClaims
    <3>1. PICK b \in claims :
            d = IF \E o \in overdue : SameClaim(b, o)
                THEN [b EXCEPT !.status = "EXPIRED", !.left = 0] ELSE b
      BY <2>9 DEF RecoverClaims
    <3>2. b = c
      <4>1. b.node = d.node /\ b.version = d.version
        BY <3>1, EndedClaim
      <4> QED
        BY <4>1, <2>a
    <3>3. PICK o \in overdue : SameClaim(c, o)
      BY <3>1, <3>2
    <3>4. PICK b2 \in claims : SameClaim(o, b2) /\ b2.left = 0
      BY <2>9 DEF RecoverClaims, Recoverable
    <3>5. b2 = c
      BY <2>a, <3>3, <3>4 DEF SameClaim
    <3> QED
      BY <3>4, <3>5
  <2> QED
    BY <2>0, <2>1, <2>2, <2>3, <2>4, <2>6, <2>7, <2>8, <2>9, ClaimSteps
    DEF ClaimStep, ClaimsStay
<1> QED
  BY <1>1, AlwaysEvaluated, PTL DEF Spec, LiveClaimKept

-----------------------------------------------------------------------------
(* The accepted line *)

OfIntegrated(commit, rows) == \A i \in DOMAIN commit : rows[commit[i]].state = "INTEGRATED"

\* Every commit is made of promoted nodes, and none is made on top of itself.
CommitsPromoted ==
  /\ \A p \in Project : OfIntegrated(head[p].sha, node)
  /\ \A n \in Node : /\ OfIntegrated(node[n].base, node)
                     /\ \A i \in DOMAIN node[n].base : node[n].base[i] # n

\* A prepared rollback takes back the promotion the head is at.
RollbackOfHead ==
  \A p \in Project : publication[p] # None /\ publication[p].kind = "ROLLBACK" =>
    head[p].origin = publication[p].node /\ head[p].sha = Candidate(publication[p].node)

Lined == CommitsPromoted /\ RollbackOfHead

\* A step prepares or completes a publication, or leaves heads and publications.
LEMMA HeadSteps ==
  ASSUME [Next]_vars
  PROVE  \/ head' = head /\ publication' = publication
         \/ \E n \in Node : PreparePromotion(n) \/ PrepareRollback(n)
         \/ \E p \in Project : CompletePromotion(p) \/ CompleteRollback(p)
BY DEF Next, Operator, PlanGoal, Cancel, Resume, Worker, Lease, HeartbeatBegin, Start,
   Reconcile, BeginIngest, CommitIngest, AbandonIngest, HeartbeatCommit, Evaluator,
   ClaimEvidence, ReclaimEvidence, ClaimHeartbeatBegin, VerifyEvaluation,
   RejectEvidence, CommitEvaluation, AbandonEvaluation, ClaimHeartbeatCommit, Recovery,
   ScanClaims, RecoverClaims, AbandonClaimRecovery, ScanLeases, RecoverLease,
   AbandonLeaseRecovery, Coordinator, HeartbeatAbort, Tick, vars, published

\* What a completed promotion does to the head, and who becomes integrated.
LEMMA PromotedHead ==
  ASSUME TypeOK, Coherent, NeverIntegrating, NEW p \in Project, CompletePromotion(p)
  PROVE  LET origin == publication[p].node IN
         /\ origin \in Node /\ ProjectOfNode(origin) = p
         /\ node[origin].state = "PASSED" /\ node'[origin].state = "INTEGRATED"
         /\ head'[p].sha = Append(node[origin].base, origin) /\ head'[p].origin = origin
         /\ \A q \in Project : q # p => head'[q] = head[q]
         /\ \A n \in Node : n # origin /\ node'[n].state = "INTEGRATED" =>
               node[n].state = "INTEGRATED"
         /\ artifacts' = artifacts /\ ledger' = ledger
<1> DEFINE origin == publication[p].node
<1>1. /\ publication[p] # None /\ publication[p].kind = "PROMOTION"
      /\ head' = [head EXCEPT ![p] = [version |-> @.version + 1, sha |-> Candidate(origin),
                                     origin |-> origin]]
      /\ artifacts' = artifacts /\ ledger' = ledger
  BY DEF CompletePromotion
<1>2. origin \in Node
  BY <1>1 DEF TypeOK, Publication
<1>3. ProjectOfNode(origin) = p /\ node[origin].state = "PASSED"
  BY <1>1, <1>2 DEF Coherent, FrozenQuiet
<1>4. origin \in NodesOf(p)
  BY <1>2, <1>3 DEF NodesOf, Absent
<1>5. node'[origin].state = "INTEGRATED"
  BY <1>3, <1>4, PromotedStep DEF Published, UnderJudgement
<1>6. ASSUME NEW n \in Node, n # origin, node'[n].state = "INTEGRATED"
      PROVE  node[n].state = "INTEGRATED"
  <2>1. CASE n \in NodesOf(p)
    <3>1. node[n].state # "PASSED"
      BY <1>1, <1>6, <2>1, RestingState, RebindState
    <3> QED
      BY <1>6, <2>1, <3>1, PromotedStep DEF Published
  <2>2. CASE n \notin NodesOf(p)
    BY <1>6, <2>2, PromotedStep, KeptFields
  <2> QED
    BY <2>1, <2>2
<1>7. /\ head'[p].sha = Append(node[origin].base, origin) /\ head'[p].origin = origin
      /\ \A q \in Project : q # p => head'[q] = head[q]
  BY <1>1 DEF TypeOK, Candidate
<1> QED
  BY <1>1, <1>2, <1>3, <1>5, <1>6, <1>7

LEMMA RolledBackHead ==
  ASSUME TypeOK, Coherent, NeverIntegrating, NEW p \in Project, CompleteRollback(p)
  PROVE  LET origin == publication[p].node IN
         /\ publication[p] # None /\ publication[p].kind = "ROLLBACK"
         /\ origin \in Node
         /\ head'[p].sha = node[origin].base /\ head'[p].origin = head[p].origin
         /\ \A q \in Project : q # p => head'[q] = head[q]
         /\ \A n \in Node : node'[n].state = "INTEGRATED" => node[n].state = "INTEGRATED"
         /\ artifacts' = artifacts /\ ledger' = ledger
<1> DEFINE origin == publication[p].node
<1>1. /\ publication[p] # None /\ publication[p].kind = "ROLLBACK"
      /\ head' = [head EXCEPT ![p] = [version |-> @.version + 1, sha |-> node[origin].base,
                                     origin |-> @.origin]]
      /\ artifacts' = artifacts /\ ledger' = ledger
  BY DEF CompleteRollback, RollbackTarget
<1>2. origin \in Node
  BY <1>1 DEF TypeOK, Publication
<1>3. ASSUME NEW n \in Node, node'[n].state = "INTEGRATED"
      PROVE  node[n].state = "INTEGRATED"
  <2>1. CASE n \in NodesOf(p)
    <3>1. node[n].state # "PASSED"
      BY <1>1, <2>1, RestingState, RebindState
    <3> QED
      BY <1>3, <2>1, <3>1, RolledBackStep DEF Published
  <2>2. CASE n \notin NodesOf(p)
    BY <1>3, <2>2, RolledBackStep, KeptFields
  <2> QED
    BY <2>1, <2>2
<1>4. /\ head'[p].sha = node[origin].base /\ head'[p].origin = head[p].origin
      /\ \A q \in Project : q # p => head'[q] = head[q]
  BY <1>1 DEF TypeOK
<1> QED
  BY <1>1, <1>2, <1>3, <1>4

\* Outside a completed promotion nobody becomes integrated.
LEMMA NobodyIntegrated ==
  ASSUME TypeOK, Coherent, NeverIntegrating, [Next]_vars,
         ~\E p \in Project : CompletePromotion(p),
         NEW n \in Node, node'[n].state = "INTEGRATED"
  PROVE  node[n].state = "INTEGRATED"
<1> DEFINE p == ProjectOfNode(n)
<1>0. p \in Project
  BY ProjectOfNodeType
<1>1. CASE \E q \in Project : CompleteRollback(q)
  BY <1>1, RolledBackHead
<1>2. CASE ~Published(n)
  BY <1>2, RowSteps, KeptFields DEF RowStep, Planned, Worked
<1>3. CASE Published(n) /\ ~\E q \in Project : CompleteRollback(q)
  <2>1. publication[p] # None /\ publication'[p] = None
    BY <1>3 DEF Published
  <2>2. PICK m \in Node : PreparePromotion(m) \/ PrepareRollback(m)
    BY <1>3, <2>1, HeadSteps
  <2>3. node' = node
    BY <2>2 DEF PreparePromotion, PrepareRollback, records
  <2> QED
    BY <2>3
<1> QED
  BY <1>1, <1>2, <1>3

LEMMA StillIntegrated ==
  ASSUME TypeOK, Coherent, [Next]_vars, NEW c \in Commit, OfIntegrated(c, node)
  PROVE  OfIntegrated(c, node')
BY IntegratedStays DEF OfIntegrated, Commit

LEMMA AppendIntegrated ==
  ASSUME NEW c \in Commit, NEW n \in Node, NEW rows, OfIntegrated(c, rows),
         rows[n].state = "INTEGRATED"
  PROVE  OfIntegrated(Append(c, n), rows)
BY DEF OfIntegrated, Commit

LEMMA CommitsPromotedNext ==
  ASSUME TypeOK, Coherent, NeverIntegrating, Lined, [Next]_vars PROVE CommitsPromoted'
<1>0. \A p \in Project : head[p].sha \in Commit
  BY DEF TypeOK
<1>a. \A n \in Node : node[n].base \in Commit
  BY Fields
<1>1. ASSUME NEW p \in Project PROVE OfIntegrated(head'[p].sha, node')
  <2>1. CASE head'[p] = head[p]
    BY <1>0, <2>1, StillIntegrated DEF Lined, CommitsPromoted
  <2>2. ASSUME NEW q \in Project, CompletePromotion(q)
        PROVE  OfIntegrated(head'[p].sha, node')
    <3> DEFINE origin == publication[q].node
    <3>1. /\ origin \in Node /\ node'[origin].state = "INTEGRATED"
          /\ head'[q].sha = Append(node[origin].base, origin)
          /\ p # q => head'[p] = head[p]
      BY <2>2, PromotedHead
    <3> HIDE DEF origin
    <3>2. OfIntegrated(node[origin].base, node')
      BY <1>a, <3>1, StillIntegrated DEF Lined, CommitsPromoted
    <3>3. OfIntegrated(head'[q].sha, node')
      BY <1>a, <3>1, <3>2, AppendIntegrated
    <3> QED
      BY <2>1, <3>1, <3>3
  <2>3. ASSUME NEW q \in Project, CompleteRollback(q)
        PROVE  OfIntegrated(head'[p].sha, node')
    <3> DEFINE origin == publication[q].node
    <3>1. /\ origin \in Node /\ head'[q].sha = node[origin].base
          /\ p # q => head'[p] = head[p]
      BY <2>3, RolledBackHead
    <3> HIDE DEF origin
    <3>2. OfIntegrated(node[origin].base, node')
      BY <1>a, <3>1, StillIntegrated DEF Lined, CommitsPromoted
    <3> QED
      BY <2>1, <3>1, <3>2
  <2>4. CASE \E n \in Node : PreparePromotion(n) \/ PrepareRollback(n)
    BY <2>1, <2>4 DEF PreparePromotion, PrepareRollback
  <2> QED
    BY <2>1, <2>2, <2>3, <2>4, HeadSteps
<1>2. ASSUME NEW n \in Node
      PROVE  /\ OfIntegrated(node'[n].base, node')
             /\ \A i \in DOMAIN node'[n].base : node'[n].base[i] # n
  <2> DEFINE p == ProjectOfNode(n)
  <2>0. p \in Project /\ RowStep(n) /\ RowChange(n)
    BY ProjectOfNodeType, RowSteps, RowChanges
  <2>1. CASE node'[n].base = node[n].base
    <3>1. /\ OfIntegrated(node[n].base, node)
          /\ \A i \in DOMAIN node[n].base : node[n].base[i] # n
      BY DEF Lined, CommitsPromoted
    <3>2. OfIntegrated(node[n].base, node')
      BY <1>a, <3>1, StillIntegrated
    <3> QED
      BY <2>1, <3>1, <3>2
  \* On a commit of promoted nodes, of which n is not one.
  <2>2. ASSUME NEW c, node'[n].base = c, OfIntegrated(c, node'),
               node'[n].state # "INTEGRATED"
        PROVE  /\ OfIntegrated(node'[n].base, node')
               /\ \A i \in DOMAIN node'[n].base : node'[n].base[i] # n
    BY <2>2 DEF OfIntegrated
  <2>3. CASE Planned(n)
    <3>1. OfIntegrated(head[p].sha, node')
      BY <1>0, <2>0, StillIntegrated DEF Lined, CommitsPromoted
    <3> QED
      BY <2>2, <2>3, <3>1 DEF Planned
  <2>4. CASE Published(n)
    <3>1. CASE node[n].state \in Settled
      BY <2>0, <2>1, <3>1 DEF RowChange, SettledStays
    <3>2. CASE node[n].state \notin Settled
      <4>1. node'[n].base = head'[p].sha /\ node'[n].state # "INTEGRATED"
        BY <2>4, <3>2 DEF Published, Settled
      <4> QED
        BY <1>1, <2>0, <2>2, <4>1
    <3> QED
      BY <3>1, <3>2
  <2>5. CASE Kept(n)
    BY <2>1, <2>5, KeptFields
  <2>6. CASE Worked(n)
    BY <2>1, <2>6 DEF Worked
  <2> QED
    BY <2>0, <2>3, <2>4, <2>5, <2>6 DEF RowStep
<1> QED
  BY <1>1, <1>2 DEF CommitsPromoted

LEMMA RollbackOfHeadNext ==
  ASSUME TypeOK, Coherent, Lined, [Next]_vars PROVE RollbackOfHead'
<1> SUFFICES ASSUME NEW p \in Project, publication'[p] # None,
                    publication'[p].kind = "ROLLBACK"
             PROVE  LET n == publication'[p].node IN
                    head'[p].origin = n /\ head'[p].sha = Append(node'[n].base, n)
  BY DEF RollbackOfHead, Candidate
<1>1. CASE publication'[p] = publication[p] /\ head'[p] = head[p]
  <2> DEFINE n == publication[p].node
  <2>1. n \in Node /\ ProjectOfNode(n) = p
    BY <1>1 DEF TypeOK, Publication, Coherent, FrozenQuiet
  <2>2. node'[n] = node[n]
    BY <1>1, <2>1, FrozenRows
  <2> QED
    BY <1>1, <2>2 DEF Lined, RollbackOfHead, Candidate
<1>2. ASSUME NEW n \in Node, ProjectOfNode(n) = p, node' = node, head' = head,
             PreparePromotion(n) \/ PrepareRollback(n)
      PROVE  LET m == publication'[p].node IN
             head'[p].origin = m /\ head'[p].sha = Append(node'[m].base, m)
  <2>1. CASE PreparePromotion(n)
    BY <1>2, <2>1 DEF PreparePromotion, TypeOK
  <2>2. CASE PrepareRollback(n)
    BY <1>2, <2>2 DEF PrepareRollback, TypeOK, Candidate
  <2> QED
    BY <1>2, <2>1, <2>2
<1> QED
  BY <1>1, <1>2, PublicationSteps DEF PublicationStep

LEMMA AlwaysLined == Spec => []Lined
<1>1. Init => Lined
  BY DEF Init, Lined, CommitsPromoted, OfIntegrated, RollbackOfHead, NoRow
<1>2. TypeOK /\ Coherent /\ Evaluated /\ Lined /\ [Next]_vars => Lined'
  BY CommitsPromotedNext, RollbackOfHeadNext DEF Lined, Evaluated
<1> QED
  BY <1>1, <1>2, AlwaysEvaluated, PTL DEF Spec

-----------------------------------------------------------------------------
(* Every step is one of the accepted line, or leaves it *)

\* The artifacts a ledger names, as the line sees them.
Named(a, lg) == \E i \in DOMAIN lg : lg[i].node = a.node /\ lg[i].attempt = a.attempt

OnLine(S, lg) == {[node |-> a.node, base |-> a.base] : a \in {b \in S : Named(b, lg)}}

Promoted(rows) == {n \in Node : rows[n].state = "INTEGRATED"}

Heads == [p \in Project |-> head[p].sha]

Undos == [p \in Project |-> Undoable(p)]

LineKept ==
  /\ Heads' = Heads /\ OnLine(artifacts', ledger') = OnLine(artifacts, ledger)
  /\ Promoted(node') = Promoted(node) /\ Undos' = Undos

LEMMA LineVars == LineKept => UNCHANGED Line!vars
BY DEF LineKept, Line!vars, Heads, OnLine, Named, Promoted, Undos

LEMMA SameHeads ==
  ASSUME head' = head PROVE Heads' = Heads /\ Undos' = Undos
BY DEF Heads, Undos, Undoable

\* A judged node becomes one that the line may take.
LEMMA JudgeStep ==
  ASSUME TypeOK, Coherent, Evaluated, EvidenceBound, [Next]_vars,
         NEW e \in verifying, CommitEvaluation(e)
  PROVE  \E n \in Node : Line!Judge(n)
<1> DEFINE n == e.node
           p == ProjectOfNode(n)
           a == [node |-> n, attempt |-> e.attempt, base |-> node[n].base]
<1>0. Closed(ledger, node, claims) /\ AttemptsMatch
  BY LedgerIsClosed DEF Evaluated, EvaluationClosed
<1>1. n \in Node /\ p \in Project /\ node[n].state = "EVALUATING"
      /\ node[n].attempt = e.attempt
  BY <1>0, ProjectOfNodeType
  DEF TypeOK, LedgerEntry, CommitEvaluation, AttemptsMatch, UnderJudgement
<1>2. head' = head /\ artifacts' = artifacts
  BY DEF CommitEvaluation, published
<1>3. node[n].base = head[p].sha
  BY <1>1 DEF Coherent, BaselineShared, BaselineCoherent, NodesOf, Absent
<1>4. a \in artifacts
  BY <1>1 DEF EvidenceBound
<1>5. \A b \in artifacts : b.node = n /\ b.attempt = e.attempt => b = a
  BY <1>0, <1>4 DEF AttemptsMatch
<1>6. \A i \in DOMAIN ledger : ledger[i].node # n
  BY <1>0, <1>1 DEF Closed, Sealed, Settled
<1>7. /\ ledger'[Len(ledger')] = e
      /\ DOMAIN ledger = 1..Len(ledger) /\ DOMAIN ledger' = 1..(Len(ledger) + 1)
      /\ \A i \in DOMAIN ledger : ledger'[i] = ledger[i]
      /\ Len(ledger) \in Nat /\ Len(ledger') = Len(ledger) + 1
  <2>1. Len(ledger) \in Nat
    BY DEF TypeOK
  <2> QED
    BY <2>1, LedgerGrows
<1>8. ASSUME NEW b PROVE Named(b, ledger') <=> Named(b, ledger) \/ (b.node = n /\ b.attempt = e.attempt)
  BY <1>7 DEF Named
<1>9. OnLine(artifacts', ledger') =
        OnLine(artifacts, ledger) \cup {[node |-> n, base |-> head[p].sha]}
  <2>1. {b \in artifacts : Named(b, ledger')} = {b \in artifacts : Named(b, ledger)} \cup {a}
    BY <1>4, <1>5, <1>8
  <2>2. a.node = n /\ a.base = head[p].sha
    BY <1>3
  <2> HIDE DEF a
  <2> QED
    BY <1>2, <2>1, <2>2 DEF OnLine
<1>10. \A j \in OnLine(artifacts, ledger) : j.node # n
  BY <1>6 DEF OnLine, Named
<1>11. Promoted(node') = Promoted(node)
  <2>1. ~\E q \in Project : CompletePromotion(q)
    <3>1. ledger' # ledger
      BY LedgerGrows
    <3> QED
      BY <3>1 DEF CompletePromotion
  <2> QED
    BY <2>1, NobodyIntegrated, IntegratedStays DEF Promoted, Evaluated
<1>12. Heads' = Heads /\ Undos' = Undos
  BY <1>2, SameHeads
<1>13. [q \in Project |-> head[q].sha][[m \in Node |-> ProjectOfNode(m)][n]] = head[p].sha
  BY <1>1
<1> HIDE DEF p, a
<1>14. Line!Judge(n)
  BY <1>9, <1>10, <1>11, <1>12, <1>13
  DEF Line!Judge, Heads, OnLine, Named, Promoted, Undos
<1> QED
  BY <1>1, <1>14

LEMMA AppendedLast ==
  ASSUME NEW s \in Seq(Node), NEW n \in Node
  PROVE  /\ Append(s, n) # <<>> /\ Append(s, n)[Len(Append(s, n))] = n
         /\ Len(Append(s, n)) - 1 = Len(s)
         /\ SubSeq(Append(s, n), 1, Len(s)) = s
<1>1. Append(s, n) \in Seq(Node) /\ Len(Append(s, n)) = Len(s) + 1
  OBVIOUS
<1>2. Append(s, n)[Len(s) + 1] = n
  OBVIOUS
<1>3. Append(s, n) # <<>> /\ Len(Append(s, n)) - 1 = Len(s)
  <2>1. Len(s) \in Nat
    OBVIOUS
  <2>2. Len(Append(s, n)) # Len(<<>>)
    BY <1>1, <2>1
  <2> QED
    BY <1>1, <2>1, <2>2
<1>4. SubSeq(Append(s, n), 1, Len(s)) = s
  OBVIOUS
<1> QED
  BY <1>1, <1>2, <1>3, <1>4

\* A completed promotion puts the judged node onto the line.
LEMMA PromoteStep ==
  ASSUME TypeOK, Coherent, Evaluated, EvidenceBound, [Next]_vars,
         NEW p \in Project, CompletePromotion(p),
         NEW n \in Node, n = publication[p].node
  PROVE  Line!Promote(n)
<1>0. Closed(ledger, node, claims) /\ AttemptsMatch
  BY LedgerIsClosed DEF Evaluated, EvaluationClosed
<1>1. /\ n \in Node /\ ProjectOfNode(n) = p
      /\ node[n].state = "PASSED" /\ node'[n].state = "INTEGRATED"
      /\ head'[p].sha = Append(node[n].base, n) /\ head'[p].origin = n
      /\ \A q \in Project : q # p => head'[q] = head[q]
      /\ \A m \in Node : m # n /\ node'[m].state = "INTEGRATED" =>
            node[m].state = "INTEGRATED"
      /\ artifacts' = artifacts /\ ledger' = ledger
  BY PromotedHead DEF Evaluated
<1>2. node[n].base = head[p].sha
  BY <1>1 DEF Coherent, BaselineShared, BaselineCoherent, NodesOf, Absent
<1>3. [node |-> n, attempt |-> node[n].attempt, base |-> head[p].sha] \in artifacts
  BY <1>1, <1>2 DEF EvidenceBound
<1>4. PICK k \in DOMAIN ledger : ledger[k].node = n /\ ledger[k].attempt = node[n].attempt
  BY <1>0, <1>1 DEF Closed, Sealed, Settled
<1>5. [node |-> n, base |-> head[p].sha] \in OnLine(artifacts, ledger)
  <2> DEFINE a == [node |-> n, attempt |-> node[n].attempt, base |-> head[p].sha]
  <2>1. a.node = n /\ a.attempt = node[n].attempt /\ a.base = head[p].sha
    OBVIOUS
  <2> HIDE DEF a
  <2>2. a \in artifacts
    BY <1>3 DEF a
  <2> QED
    BY <1>4, <2>1, <2>2 DEF OnLine, Named
<1>6. n \notin Promoted(node)
  BY <1>1 DEF Promoted
<1>7. Promoted(node') = Promoted(node) \cup {n}
  BY <1>1, IntegratedStays DEF Promoted
<1>8. OnLine(artifacts', ledger') = OnLine(artifacts, ledger)
  BY <1>1
<1>9. Heads' = [Heads EXCEPT ![p] = Append(@, n)]
  BY <1>1, <1>2 DEF Heads
<1>10. Undos' = [Undos EXCEPT ![p] = n]
  <2>1. Undoable(p)' = n
    <3> DEFINE s == node[n].base
    <3>1. s \in Seq(Node)
      BY <1>1, Fields DEF Commit
    <3> HIDE DEF s
    <3>2. Append(s, n) # <<>> /\ Append(s, n)[Len(Append(s, n))] = n
      BY <1>1, <3>1, AppendedLast
    <3> QED
      BY <1>1, <3>2 DEF Undoable, s
  <2>2. \A q \in Project : q # p => Undoable(q)' = Undoable(q)
    BY <1>1 DEF Undoable
  <2> QED
    BY <2>1, <2>2 DEF Undos
<1>11. /\ [m \in Node |-> ProjectOfNode(m)][n] = p
       /\ [q \in Project |-> head[q].sha][p] = head[p].sha
       /\ [m \in Node |-> m][n] = n
  BY <1>1
<1>12. Line!Promote(n)
  <2>1. /\ [node |-> n, base |-> head[p].sha] \in
             {[node |-> a.node, base |-> a.base] : a \in {b \in artifacts :
               \E i \in DOMAIN ledger : ledger[i].node = b.node /\ ledger[i].attempt = b.attempt}}
        /\ n \notin {m \in Node : node[m].state = "INTEGRATED"}
    BY <1>5, <1>6 DEF OnLine, Named, Promoted
  <2> QED
    BY <1>7, <1>8, <1>9, <1>10, <1>11, <2>1
    DEF Line!Promote, Heads, OnLine, Named, Promoted, Undos
<1> QED
  BY <1>12

\* A completed rollback takes the last promotion off it, once.
LEMMA TakeBackStep ==
  ASSUME TypeOK, Coherent, Evaluated, Lined, [Next]_vars,
         NEW p \in Project, CompleteRollback(p)
  PROVE  Line!TakeBack(p)
<1> DEFINE n == publication[p].node
           s == node[n].base
<1>1. /\ publication[p] # None /\ publication[p].kind = "ROLLBACK" /\ n \in Node
      /\ head'[p].sha = s /\ head'[p].origin = head[p].origin
      /\ \A q \in Project : q # p => head'[q] = head[q]
      /\ \A m \in Node : node'[m].state = "INTEGRATED" => node[m].state = "INTEGRATED"
      /\ artifacts' = artifacts /\ ledger' = ledger
  BY RolledBackHead DEF Evaluated
<1>2. head[p].origin = n /\ head[p].sha = Append(s, n)
  BY <1>1 DEF Lined, RollbackOfHead, Candidate
<1>3. s \in Seq(Node) /\ \A i \in DOMAIN s : s[i] # n
  BY <1>1, Fields DEF Commit, Lined, CommitsPromoted
<1> HIDE DEF n, s
<1>4. Append(s, n) # <<>> /\ Append(s, n)[Len(Append(s, n))] = n
  BY <1>1, <1>3, AppendedLast
<1>5. SubSeq(Append(s, n), 1, Len(Append(s, n)) - 1) = s
  BY <1>1, <1>3, AppendedLast
<1>6. Undoable(p) = n /\ n # None
  BY <1>1, <1>2, <1>4, GraphAssumption DEF Undoable
<1>7. Undoable(p)' = None
  <2>1. s # <<>> => s[Len(s)] # n
    BY <1>3
  <2> QED
    BY <1>1, <1>2, <2>1 DEF Undoable
<1>8. \A q \in Project : q # p => Undoable(q)' = Undoable(q)
  BY <1>1 DEF Undoable
<1>9. Undos' = [Undos EXCEPT ![p] = None]
  BY <1>7, <1>8 DEF Undos
<1>10. Heads' = [Heads EXCEPT ![p] = SubSeq(@, 1, Len(@) - 1)]
  BY <1>1, <1>2, <1>5 DEF Heads
<1>11. Promoted(node') = Promoted(node)
  BY <1>1, IntegratedStays DEF Promoted
<1>12. OnLine(artifacts', ledger') = OnLine(artifacts, ledger)
  BY <1>1
<1>13. [q \in Project |-> Undoable(q)][p] # None
  BY <1>6
<1> QED
  BY <1>9, <1>10, <1>11, <1>12, <1>13
  DEF Line!TakeBack, Heads, OnLine, Named, Promoted, Undos

\* A new artifact is of a node that did not pass: the line does not see it.
LEMMA UnjudgedArtifact ==
  ASSUME TypeOK, Evaluated, NEW i \in ingesting, CommitIngest(i)
  PROVE  OnLine(artifacts', ledger') = OnLine(artifacts, ledger)
<1> DEFINE a == [node |-> i.node, attempt |-> i.attempt, base |-> i.base]
<1>0. Closed(ledger, node, claims)
  BY LedgerIsClosed DEF Evaluated, EvaluationClosed
<1>1. node[i.node].state = "RUNNING" /\ artifacts' = artifacts \cup {a} /\ ledger' = ledger
  BY DEF CommitIngest, AwaitsIngest
<1>2. \A j \in DOMAIN ledger : ledger[j].node # i.node
  BY <1>0, <1>1 DEF Closed, Sealed, Settled
<1>3. a.node = i.node
  OBVIOUS
<1> HIDE DEF a
<1>4. ~Named(a, ledger)
  BY <1>2, <1>3 DEF Named
<1>5. {b \in artifacts' : Named(b, ledger)} = {b \in artifacts : Named(b, ledger)}
  BY <1>1, <1>4
<1> QED
  BY <1>1, <1>5 DEF OnLine

LEMMA LineSteps ==
  ASSUME TypeOK, Coherent, Evaluated, EvidenceBound, Lined, [Next]_vars
  PROVE  [Line!Next]_(Line!vars)
<1>1. CASE \E e \in verifying : CommitEvaluation(e)
  BY <1>1, JudgeStep DEF Line!Next
<1>2. CASE \E p \in Project : CompletePromotion(p)
  BY <1>2, PromoteStep, PromotedHead DEF Line!Next, Evaluated
<1>3. CASE \E p \in Project : CompleteRollback(p)
  BY <1>3, TakeBackStep DEF Line!Next
<1>4. CASE /\ ~\E e \in verifying : CommitEvaluation(e)
           /\ ~\E p \in Project : CompletePromotion(p)
           /\ ~\E p \in Project : CompleteRollback(p)
  <2>1. ledger' = ledger
    BY <1>4, LedgerSteps
  <2>2. head' = head
    BY <1>4, HeadSteps DEF PreparePromotion, PrepareRollback
  <2>3. OnLine(artifacts', ledger') = OnLine(artifacts, ledger)
    BY <2>1, ArtifactSteps, UnjudgedArtifact
  <2>4. Promoted(node') = Promoted(node)
    BY <1>4, NobodyIntegrated, IntegratedStays DEF Promoted, Evaluated
  <2> QED
    BY <2>2, <2>3, <2>4, SameHeads, LineVars DEF LineKept
<1> QED
  BY <1>1, <1>2, <1>3, <1>4

\* With all its leases, claims, retries and recoveries the graph does no more
\* than its accepted line: what reaches a project's baseline was judged once,
\* on the very commit it is added to, and only the last promotion is undone.
THEOREM GraphImplementsLine == Spec => LineSpec
<1>1. Init => Line!Init
  BY DEF Init, Line!Init, NoRow, Absent, Undoable
<1>2. TypeOK /\ Coherent /\ Evaluated /\ EvidenceBound /\ Lined /\ [Next]_vars
        => [Line!Next]_(Line!vars)
  BY LineSteps
<1> QED
  BY <1>1, <1>2, AlwaysEvaluated, AlwaysLined, BoundEvidence, PTL
  DEF Spec, LineSpec, Line!Spec
=============================================================================
