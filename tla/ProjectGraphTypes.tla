------------------------- MODULE ProjectGraphTypes --------------------------
(***************************************************************************)
(* Type correctness of ProjectGraph, for every graph and every bound.      *)
(***************************************************************************)
EXTENDS ProjectGraph, TLAPS

-----------------------------------------------------------------------------
(* Types *)

\* The states by name.
LEMMA NodeStates ==
  NodeState = {"ABSENT", "BLOCKED", "READY", "LEASED", "RUNNING",
               "EVIDENCE_PENDING", "EVALUATING", "PASSED", "INTEGRATING",
               "INTEGRATED", "NEEDS_HUMAN", "CANCELLED", "FAILED_GATE"}
BY DEF NodeState, KnownNodeStates, InitialNodeStates, Terminal, Transitions, Absent

LEMMA InitType == Init => TypeOK
BY GraphAssumption, BoundAssumption, NodeStates
DEF Init, TypeOK, NoRow, Row, TTL, Commit, Absent

LEMMA NoRowType == NoRow \in Row
BY BoundAssumption, NodeStates DEF NoRow, Row, TTL, Commit, Absent

LEMMA LessType == ASSUME NEW t \in TTL PROVE Less(t) \in TTL
BY BoundAssumption DEF Less, TTL

LEMMA TTLType == 0 \in TTL /\ 1..MaxTTL \subseteq TTL
BY BoundAssumption DEF TTL

\* The ways a row is written all leave a row.
LEMMA AdvancedType ==
  ASSUME NEW row \in Row, NEW s \in NodeState PROVE Advanced(row, s) \in Row
<1>1. row.version + 1 \in Nat
  BY DEF Row
<1> QED
  BY <1>1 DEF Advanced, Row

LEMMA UnleasedType == ASSUME NEW row \in Row PROVE Unleased(row) \in Row
BY TTLType DEF Unleased, Row

LEMMA MovedType ==
  ASSUME NEW row \in Row, NEW s \in NodeState PROVE Moved(row, s) \in Row
BY AdvancedType, UnleasedType DEF Moved

LEMMA LeasedType ==
  ASSUME NEW row \in Row, NEW ttl \in TTL PROVE Leased(row, ttl) \in Row
<1>1. Advanced(row, "LEASED") \in Row
  BY AdvancedType, NodeStates
<1>2. Advanced(row, "LEASED").attempt + 1 \in Nat /\ row.attempt + 1 \in Nat
  BY <1>1 DEF Row
<1> QED
  BY <1>1, <1>2 DEF Leased, Row

LEMMA EvidencedType ==
  ASSUME NEW row \in Row, NEW a \in Nat PROVE Evidenced(row, a) \in Row
<1>1. Unleased(Advanced(row, "EVIDENCE_PENDING")) \in Row
  BY AdvancedType, UnleasedType, NodeStates
<1> QED
  BY <1>1 DEF Evidenced, Row

LEMMA RejectedType ==
  ASSUME NEW row \in Row, NEW d \in Dispositions PROVE Rejected(row, d) \in Row
<1> DEFINE moved == Unleased(Advanced(row, DispositionTarget[d]))
<1>1. DispositionTarget[d] \in NodeState
  BY BoundAssumption, NodeStates DEF DispositionTarget
<1>2. moved \in Row
  BY <1>1, AdvancedType, UnleasedType
<1>3. [moved EXCEPT !.artifact = 0] \in Row
  <2> HIDE DEF moved
  <2> QED
    BY <1>2 DEF Row
<1> QED
  BY <1>2, <1>3 DEF Rejected

LEMMA ReboundType ==
  ASSUME NEW row \in Row, NEW sha \in Commit PROVE Rebound(row, sha) \in Row
<1>1. row.version + 1 \in Nat
  BY DEF Row
<1>2. [row EXCEPT !.base = sha, !.version = @ + 1] \in Row
  BY <1>1 DEF Row
<1> QED
  BY <1>2 DEF Rebound

LEMMA IntegratedType == ASSUME NEW row \in Row PROVE Integrated(row) \in Row
<1>1. row.version + 2 \in Nat
  BY DEF Row
<1> QED
  BY <1>1, NodeStates DEF Integrated, Row

LEMMA ReleasedType ==
  ASSUME NEW n \in Node, NEW rows \in [Node -> Row] PROVE Released(n, rows) \in Row
BY AdvancedType, NodeStates DEF Released

LEMMA RenewedType ==
  ASSUME NEW row \in Row, NEW t \in TTL PROVE [row EXCEPT !.ttl = t] \in Row
BY DEF Row

LEMMA VersionedType == ASSUME NEW row \in Row PROVE [row EXCEPT !.version = @ + 2] \in Row
<1>1. row.version + 2 \in Nat
  BY DEF Row
<1> QED
  BY <1>1 DEF Row

\* The ways a claim is written leave a claim.
LEMMA RenewedClaimType ==
  ASSUME NEW c \in Claim, NEW t \in TTL PROVE [c EXCEPT !.left = t] \in Claim
BY DEF Claim

LEMMA ExpiredClaimType ==
  ASSUME NEW c \in Claim PROVE [c EXCEPT !.status = "EXPIRED", !.left = 0] \in Claim
BY TTLType DEF Claim, ClaimStatus

\* The fields of a row.
LEMMA Fields ==
  ASSUME TypeOK, NEW n \in Node
  PROVE  /\ node[n] \in Row /\ node[n].state \in NodeState
         /\ node[n].version \in Nat /\ node[n].version + 1 \in Nat
         /\ node[n].version + 2 \in Nat
         /\ node[n].attempt \in Nat /\ node[n].attempt + 1 \in Nat
         /\ node[n].lease \in Nat /\ node[n].ttl \in TTL
         /\ node[n].artifact \in Nat /\ node[n].base \in Commit
BY DEF TypeOK, Row

LEMMA MoveToType ==
  ASSUME TypeOK, NEW n \in Node, NEW target \in NodeState, MoveTo(n, target)
  PROVE  node' \in [Node -> Row]
BY MovedType DEF MoveTo, TypeOK

LEMMA OperatorType == TypeOK /\ Operator => TypeOK'
<1> SUFFICES ASSUME TypeOK, Operator PROVE TypeOK'
  OBVIOUS
<1>1. ASSUME NEW g \in Goal, NEW sha \in KnownCommits, PlanGoal(g, sha)
      PROVE  TypeOK'
  <2>1. sha \in Commit
    BY <1>1, GraphAssumption DEF KnownCommits, TypeOK, Row
  <2>2. node' \in [Node -> Row]
    BY <1>1, <2>1, NoRowType, NodeStates DEF PlanGoal, TypeOK, Row
  <2> QED
    BY <1>1, <2>2 DEF PlanGoal, TypeOK, published, inflight
<1>2. ASSUME NEW n \in Node, Cancel(n) PROVE TypeOK'
  BY <1>2, MoveToType, NodeStates DEF Cancel, TypeOK, published, inflight
<1>3. ASSUME NEW n \in Node, Resume(n) PROVE TypeOK'
  BY <1>3, MoveToType, NodeStates DEF Resume, TypeOK, published, inflight
<1> QED
  BY <1>1, <1>2, <1>3 DEF Operator

LEMMA WorkerType == TypeOK /\ Worker => TypeOK'
<1> SUFFICES ASSUME TypeOK, Worker PROVE TypeOK'
  OBVIOUS
<1>1. ASSUME NEW n \in Node, NEW ttl \in 1..MaxTTL, Lease(n, ttl) PROVE TypeOK'
  <2>1. node' \in [Node -> Row]
    BY <1>1, LeasedType, TTLType DEF Lease, TypeOK
  <2> QED
    BY <1>1, <2>1 DEF Lease, TypeOK, published, inflight
<1>2. ASSUME NEW n \in Node, NEW ttl \in 1..MaxTTL, HeartbeatBegin(n, ttl)
      PROVE  TypeOK'
  BY <1>2, TTLType DEF HeartbeatBegin, TypeOK, records, published, inflight
<1>3. ASSUME NEW n \in Node, Start(n) PROVE TypeOK'
  BY <1>3, MoveToType, NodeStates DEF Start, TypeOK, published, inflight
<1>4. ASSUME NEW n \in Node, Reconcile(n) PROVE TypeOK'
  BY <1>4, MoveToType, NodeStates DEF Reconcile, TypeOK, published, inflight
<1>5. ASSUME NEW n \in Node, BeginIngest(n) PROVE TypeOK'
  BY <1>5 DEF BeginIngest, TypeOK, Row, records, published
<1>6. ASSUME NEW i \in ingesting, CommitIngest(i) PROVE TypeOK'
  <2>1. i \in [node : Node, version : Nat, attempt : Nat, base : Commit]
    BY DEF TypeOK
  <2>2. node' \in [Node -> Row]
    BY <1>6, <2>1, EvidencedType DEF CommitIngest, TypeOK
  <2>3. artifacts' \subseteq Artifact
    BY <1>6, <2>1 DEF CommitIngest, TypeOK, Artifact
  <2> QED
    BY <1>6, <2>2, <2>3 DEF CommitIngest, TypeOK, published
<1>7. ASSUME NEW i \in ingesting, AbandonIngest(i) PROVE TypeOK'
  BY <1>7 DEF AbandonIngest, TypeOK, records, published
<1>8. CASE HeartbeatCommit
  <2>1. writer \in [kind : {"lease", "claim"}, node : Node, left : TTL]
    BY <1>8 DEF HeartbeatCommit, Unlocked, TypeOK
  <2>2. node' \in [Node -> Row]
    <3>1. writer.node \in Node /\ writer.left \in TTL
      BY <2>1
    <3>2. node' = [node EXCEPT ![writer.node].ttl = writer.left]
      BY <1>8 DEF HeartbeatCommit
    <3>3. node \in [Node -> Row]
      BY DEF TypeOK
    <3>4. [node[writer.node] EXCEPT !.ttl = writer.left] \in Row
      BY <3>1, <3>3, RenewedType
    <3> QED
      BY <3>1, <3>2, <3>3, <3>4
  <2> QED
    BY <1>8, <2>2 DEF HeartbeatCommit, TypeOK, published, inflight
<1> QED
  BY <1>1, <1>2, <1>3, <1>4, <1>5, <1>6, <1>7, <1>8 DEF Worker

\* A claim that ends stays a claim.
LEMMA EndedType ==
  ASSUME TypeOK, NEW c \in claims, NEW status \in ClaimStatus
  PROVE  Ended(c, status) \subseteq Claim
BY TTLType DEF Ended, TypeOK, Claim

LEMMA NewClaimType ==
  ASSUME TypeOK, NEW n \in Node, NEW version \in Nat, NEW ttl \in 1..MaxTTL
  PROVE  NewClaim(n, version, ttl) \in Claim
BY TTLType DEF NewClaim, TypeOK, Claim, ClaimStatus, Row

LEMMA LedgerTailType == ASSUME TypeOK PROVE LedgerTail \in Node \cup {None}
<1>1. CASE ledger = <<>>
  BY <1>1 DEF LedgerTail
<1>2. CASE ledger # <<>>
  <2>1. ledger[Len(ledger)] \in LedgerEntry
    BY <1>2 DEF TypeOK
  <2> QED
    BY <1>2, <2>1 DEF LedgerTail, LedgerEntry
<1> QED
  BY <1>1, <1>2

LEMMA EvaluatorType == TypeOK /\ Evaluator => TypeOK'
<1> SUFFICES ASSUME TypeOK, Evaluator PROVE TypeOK'
  OBVIOUS
<1>1. ASSUME NEW n \in Node, NEW ttl \in 1..MaxTTL, ClaimEvidence(n, ttl)
      PROVE  TypeOK'
  <2>1. claims' \subseteq Claim
    <3>1. NewClaim(n, node[n].version, ttl) \in Claim
      BY NewClaimType, Fields
    <3>2. claims' = claims \cup {NewClaim(n, node[n].version, ttl)}
      BY <1>1 DEF ClaimEvidence
    <3> QED
      BY <3>1, <3>2 DEF TypeOK
  <2>2. node' \in [Node -> Row]
    BY <1>1, AdvancedType, NodeStates DEF ClaimEvidence, TypeOK
  <2> QED
    BY <1>1, <2>1, <2>2 DEF ClaimEvidence, TypeOK, published, inflight
<1>2. ASSUME NEW n \in Node, NEW ttl \in 1..MaxTTL, ReclaimEvidence(n, ttl)
      PROVE  TypeOK'
  <2>1. PICK c \in claims :
          claims' = Ended(c, "EXPIRED") \cup {NewClaim(n, node[n].version + 1, ttl)}
    BY <1>2 DEF ReclaimEvidence, ActiveClaims
  <2>2. claims' \subseteq Claim
    <3>1. Ended(c, "EXPIRED") \subseteq Claim
      BY EndedType DEF ClaimStatus
    <3>2. NewClaim(n, node[n].version + 1, ttl) \in Claim
      BY NewClaimType, Fields
    <3> QED
      BY <2>1, <3>1, <3>2
  <2>3. node' \in [Node -> Row]
    <3>1. node' = [node EXCEPT ![n].version = @ + 2]
      BY <1>2 DEF ReclaimEvidence
    <3>2. [node[n] EXCEPT !.version = @ + 2] \in Row
      BY Fields, VersionedType
    <3>3. node \in [Node -> Row]
      BY DEF TypeOK
    <3> QED
      BY <3>1, <3>2, <3>3
  <2> QED
    BY <1>2, <2>2, <2>3 DEF ReclaimEvidence, TypeOK, published, inflight
<1>3. ASSUME NEW n \in Node, NEW ttl \in 1..MaxTTL, ClaimHeartbeatBegin(n, ttl)
      PROVE  TypeOK'
  BY <1>3, TTLType DEF ClaimHeartbeatBegin, TypeOK, records, published, inflight
<1>4. ASSUME NEW n \in Node, VerifyEvaluation(n) PROVE TypeOK'
  <2>1. PICK c \in claims : verifying' = verifying \cup
          {[node |-> n, attempt |-> c.attempt, version |-> c.version,
            previous |-> LedgerTail]}
    BY <1>4 DEF VerifyEvaluation, LiveClaims, ActiveClaims
  <2>2. verifying' \subseteq LedgerEntry
    BY <2>1, LedgerTailType DEF TypeOK, LedgerEntry, Claim
  <2> QED
    BY <1>4, <2>2 DEF VerifyEvaluation, TypeOK, records, published
<1>5. ASSUME NEW n \in Node, NEW d \in Dispositions, RejectEvidence(n, d)
      PROVE  TypeOK'
  <2>1. PICK c \in claims : claims' = Ended(c, "DISPOSED")
    BY <1>5 DEF RejectEvidence, LiveClaims, ActiveClaims
  <2>2. claims' \subseteq Claim
    BY <2>1, EndedType DEF ClaimStatus
  <2>4. node' \in [Node -> Row]
    BY <1>5, RejectedType DEF RejectEvidence, TypeOK
  <2> QED
    BY <1>5, <2>2, <2>4 DEF RejectEvidence, TypeOK, published, inflight
<1>6. ASSUME NEW e \in verifying, CommitEvaluation(e) PROVE TypeOK'
  <2>1. e \in LedgerEntry
    BY DEF TypeOK
  <2>2. PICK c \in claims : claims' = Ended(c, "EVALUATED")
    BY <1>6 DEF CommitEvaluation, LiveClaims, ActiveClaims
  <2>3. claims' \subseteq Claim
    BY <2>2, EndedType DEF ClaimStatus
  <2>4. node' \in [Node -> Row]
    BY <1>6, <2>1, AdvancedType, NodeStates DEF CommitEvaluation, TypeOK, LedgerEntry
  <2>5. ledger' \in Seq(LedgerEntry)
    BY <1>6, <2>1 DEF CommitEvaluation, TypeOK
  <2> QED
    BY <1>6, <2>3, <2>4, <2>5 DEF CommitEvaluation, TypeOK, published
<1>7. ASSUME NEW e \in verifying, AbandonEvaluation(e) PROVE TypeOK'
  BY <1>7 DEF AbandonEvaluation, TypeOK, records, published
<1>8. CASE ClaimHeartbeatCommit
  <2>1. writer \in [kind : {"lease", "claim"}, node : Node, left : TTL]
    BY <1>8 DEF ClaimHeartbeatCommit, Unlocked, TypeOK
  <2>2. claims' \subseteq Claim
    <3>1. writer.left \in TTL /\ claims \subseteq Claim
      BY <2>1 DEF TypeOK
    <3>2. claims' = {IF c \in ActiveClaims(writer.node)
                     THEN [c EXCEPT !.left = writer.left] ELSE c : c \in claims}
      BY <1>8 DEF ClaimHeartbeatCommit
    <3> QED
      BY <3>1, <3>2, RenewedClaimType
  <2> QED
    BY <1>8, <2>2 DEF ClaimHeartbeatCommit, TypeOK, published, inflight
<1> QED
  BY <1>1, <1>2, <1>3, <1>4, <1>5, <1>6, <1>7, <1>8 DEF Evaluator

LEMMA RecoveryType == TypeOK /\ Recovery => TypeOK'
<1> SUFFICES ASSUME TypeOK, Recovery PROVE TypeOK'
  OBVIOUS
<1>1. CASE ScanClaims
  BY <1>1 DEF ScanClaims, TypeOK, records, published
<1>2. CASE RecoverClaims
  <2>1. claims' \subseteq Claim
    <3>1. claims' = {IF \E o \in overdue : SameClaim(c, o)
                     THEN [c EXCEPT !.status = "EXPIRED", !.left = 0] ELSE c : c \in claims}
      BY <1>2 DEF RecoverClaims
    <3>2. claims \subseteq Claim
      BY DEF TypeOK
    <3> QED
      BY <3>1, <3>2, ExpiredClaimType
  <2>2. node' \in [Node -> Row]
    BY <1>2, AdvancedType, NodeStates DEF RecoverClaims, TypeOK
  <2> QED
    BY <1>2, <2>1, <2>2 DEF RecoverClaims, TypeOK, published
<1>3. CASE AbandonClaimRecovery
  BY <1>3 DEF AbandonClaimRecovery, TypeOK, records, published
<1>4. ASSUME NEW force \in Forced, ScanLeases(force) PROVE TypeOK'
  BY <1>4 DEF ScanLeases, TypeOK, Row, records, published
<1>5. ASSUME NEW r \in stale, RecoverLease(r) PROVE TypeOK'
  <2>1. r.node \in Node
    BY DEF TypeOK
  <2> QED
    BY <1>5, <2>1, MoveToType, NodeStates DEF RecoverLease, TypeOK, published
<1>6. CASE AbandonLeaseRecovery
  BY <1>6 DEF AbandonLeaseRecovery, TypeOK, records, published
<1> QED
  BY <1>1, <1>2, <1>3, <1>4, <1>5, <1>6 DEF Recovery

LEMMA CandidateType ==
  ASSUME TypeOK, NEW n \in Node PROVE Candidate(n) \in Commit
BY DEF Candidate, Commit, TypeOK, Row

LEMMA ProjectOfNodeType == ASSUME NEW n \in Node PROVE ProjectOfNode(n) \in Project
BY GraphAssumption DEF ProjectOfNode

LEMMA CoordinatorType == TypeOK /\ Coordinator => TypeOK'
<1> SUFFICES ASSUME TypeOK, Coordinator PROVE TypeOK'
  OBVIOUS
<1>1. ASSUME NEW p \in Project PROVE AffectedGraph(p) \in [Node -> Row]
  BY NoRowType DEF AffectedGraph, TypeOK
<1>2. ASSUME NEW n \in Node, PreparePromotion(n) PROVE TypeOK'
  <2> DEFINE p == ProjectOfNode(n)
  <2>1. [kind |-> "PROMOTION", node |-> n, graph |-> AffectedGraph(p)] \in Publication
    BY <1>1, ProjectOfNodeType DEF Publication
  <2>2. publication' \in [Project -> Publication \cup {None}]
    BY <1>2, <2>1, ProjectOfNodeType DEF PreparePromotion, TypeOK
  <2> QED
    BY <1>2, <2>2 DEF PreparePromotion, TypeOK, records, inflight
<1>3. ASSUME NEW n \in Node, PrepareRollback(n) PROVE TypeOK'
  <2> DEFINE p == ProjectOfNode(n)
  <2>1. [kind |-> "ROLLBACK", node |-> n, graph |-> AffectedGraph(p)] \in Publication
    BY <1>1, ProjectOfNodeType DEF Publication
  <2>2. publication' \in [Project -> Publication \cup {None}]
    BY <1>3, <2>1, ProjectOfNodeType DEF PrepareRollback, TypeOK
  <2> QED
    BY <1>3, <2>2 DEF PrepareRollback, TypeOK, records, inflight
<1>4. ASSUME NEW p \in Project, CompletePromotion(p) PROVE TypeOK'
  <2> DEFINE origin  == publication[p].node
             sha     == Candidate(origin)
             rebound == [n \in Node |-> IF n = origin THEN Integrated(node[n])
                                        ELSE IF n \in Affected(p) THEN Rebound(node[n], sha)
                                        ELSE node[n]]
  <2>1. origin \in Node /\ sha \in Commit
    <3>1. publication[p] \in Publication
      BY <1>4 DEF CompletePromotion, TypeOK
    <3> QED
      BY <3>1, CandidateType DEF Publication
  <2>2. rebound \in [Node -> Row]
    BY <2>1, IntegratedType, ReboundType DEF TypeOK
  <2>3. node' \in [Node -> Row]
    <3>1. node' = [n \in Node |-> IF n \in NodesOf(p) THEN Released(n, rebound)
                                  ELSE node[n]]
      BY <1>4 DEF CompletePromotion
    <3> QED
      BY <3>1, <2>2, ReleasedType DEF TypeOK
  <2>4. head' \in [Project -> [version : Nat, sha : Commit, origin : Node \cup {None}]]
    BY <1>4, <2>1 DEF CompletePromotion, TypeOK
  <2> QED
    BY <1>4, <2>3, <2>4 DEF CompletePromotion, TypeOK, inflight
<1>5. ASSUME NEW p \in Project, CompleteRollback(p) PROVE TypeOK'
  <2> DEFINE sha == RollbackTarget(publication[p].node)
  <2>1. sha \in Commit
    <3>1. publication[p] \in Publication
      BY <1>5 DEF CompleteRollback, TypeOK
    <3> QED
      BY <3>1 DEF Publication, RollbackTarget, TypeOK, Row
  <2>2. node' \in [Node -> Row]
    BY <1>5, <2>1, ReboundType DEF CompleteRollback, TypeOK
  <2>3. head' \in [Project -> [version : Nat, sha : Commit, origin : Node \cup {None}]]
    BY <1>5, <2>1 DEF CompleteRollback, TypeOK
  <2> QED
    BY <1>5, <2>2, <2>3 DEF CompleteRollback, TypeOK, inflight
<1> QED
  BY <1>2, <1>3, <1>4, <1>5 DEF Coordinator

LEMMA TickType == TypeOK /\ Tick => TypeOK'
<1> SUFFICES ASSUME TypeOK, Tick PROVE TypeOK'
  OBVIOUS
<1>1. node' \in [Node -> Row]
  BY LessType DEF Tick, TypeOK, Row
<1>2. claims' \subseteq Claim
  <2>1. ASSUME NEW c \in claims PROVE [c EXCEPT !.left = Less(c.left)] \in Claim
    BY LessType DEF TypeOK, Claim
  <2> QED
    BY <2>1 DEF Tick
<1>3. writer' \in [kind : {"lease", "claim"}, node : Node, left : TTL] \cup {None}
  BY LessType DEF Tick, TypeOK, Unlocked
<1> QED
  BY <1>1, <1>2, <1>3 DEF Tick, TypeOK, published, inflight

LEMMA NextType == TypeOK /\ [Next]_vars => TypeOK'
<1> SUFFICES ASSUME TypeOK, [Next]_vars PROVE TypeOK'
  OBVIOUS
<1>1. CASE HeartbeatAbort
  BY <1>1 DEF HeartbeatAbort, TypeOK, records, published, inflight
<1>2. CASE UNCHANGED vars
  BY <1>2 DEF vars, TypeOK, records, published, inflight
<1> QED
  BY <1>1, <1>2, OperatorType, WorkerType, EvaluatorType, RecoveryType,
     CoordinatorType, TickType DEF Next

\* Every table keeps the shape its schema gives it, whatever the operations do.
THEOREM TypeCorrect == Spec => []TypeOK
BY InitType, NextType, PTL DEF Spec
=============================================================================
