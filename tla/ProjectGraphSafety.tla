------------------------- MODULE ProjectGraphSafety -------------------------
(***************************************************************************)
(* Safety of ProjectGraph, for every graph and every bound.                *)
(*                                                                         *)
(* RowSteps says once what a step can do to a row of the nodes table: keep *)
(* it but for its expiry, plan it, work on it under an unfrozen project,   *)
(* or publish it.  The invariants are proved from these four.              *)
(***************************************************************************)
EXTENDS ProjectGraphTypes

-----------------------------------------------------------------------------
(* The inductive invariant *)

Held == {"LEASED", "RUNNING"}

UnderJudgement == {"EVIDENCE_PENDING", "EVALUATING", "PASSED"}

\* A row has a lease exactly while it is held, and a time left only then.
LeaseHeld ==
  \A n \in Node :
    /\ node[n].lease # 0 <=> node[n].state \in Held
    /\ node[n].lease = 0 => node[n].ttl = 0

\* A row that is still at the version a lease scan saw is still held.
StaleHeld ==
  \A r \in stale :
    /\ node[r.node].state # Absent
    /\ r.version <= node[r.node].version
    /\ r.version = node[r.node].version => node[r.node].state \in Held

\* The heartbeat in progress works on an unfrozen project, on a held lease.
WriterOwns ==
  writer # None =>
    /\ publication[ProjectOfNode(writer.node)] = None
    /\ writer.kind = "lease" => node[writer.node].lease # 0

\* A frozen project rests: no row of it is held or under judgement but the one
\* that is promoted.
FrozenQuiet ==
  \A p \in Project : publication[p] # None =>
    LET origin == publication[p].node IN
    /\ ProjectOfNode(origin) = p
    /\ publication[p].kind = "PROMOTION" => node[origin].state = "PASSED"
    /\ \A n \in NodesOf(p) :
         /\ node[n].lease = 0 /\ node[n].ttl = 0
         /\ \/ node[n].state \notin UnderJudgement
            \/ publication[p].kind = "PROMOTION" /\ n = origin

Coherent == LeaseHeld /\ StaleHeld /\ WriterOwns /\ FrozenQuiet /\ BaselineShared

-----------------------------------------------------------------------------
(* What a step does to a row *)

\* Nothing, or a new expiry.
Kept(n) ==
  \/ node'[n] = node[n]
  \/ node'[n] = [node[n] EXCEPT !.ttl = Less(@)]
  \/ /\ writer # None /\ writer.kind = "lease" /\ writer.node = n
     /\ node'[n] = [node[n] EXCEPT !.ttl = writer.left]

\* The row is new.
Planned(n) ==
  LET p == ProjectOfNode(n) IN
  /\ Unlocked /\ publication[p] = None
  /\ node[n].state = Absent
  /\ node'[n].state \in {"READY", "BLOCKED"}
  /\ node'[n].state = "READY" => Dependencies[n] = {}
  /\ node'[n].base = head[p].sha
  /\ node'[n].lease = 0 /\ node'[n].ttl = 0

\* An operation on the one row, in a project that is not frozen.
Worked(n) ==
  /\ Unlocked /\ publication[ProjectOfNode(n)] = None
  /\ node[n].state \in DOMAIN Transitions
  /\ node'[n].state \notin {Absent, "BLOCKED", "INTEGRATING", "INTEGRATED"}
  /\ node[n].state = "BLOCKED" => node'[n].state = "CANCELLED"
  /\ node'[n].version > node[n].version
  /\ node'[n].base = node[n].base
  /\ \/ node'[n].state \notin Held /\ node'[n].lease = 0 /\ node'[n].ttl = 0
     \/ node'[n].state = "RUNNING" /\ node'[n].lease = node[n].lease /\ node[n].lease # 0
     \/ /\ node'[n].state = "LEASED" /\ node'[n].lease # 0
        /\ \E ttl \in 1..MaxTTL : Lease(n, ttl)
  /\ node'[n].state \in UnderJudgement =>
       \/ node[n].state \in UnderJudgement /\ node'[n].attempt = node[n].attempt
       \/ [node |-> n, attempt |-> node'[n].attempt, base |-> node'[n].base] \in artifacts'

\* A publication of the row's project is completed.
Published(n) ==
  LET p == ProjectOfNode(n) IN
  /\ Unlocked /\ publication[p] # None /\ publication'[p] = None
  /\ node[n].state # Absent
  /\ node'[n].lease = 0 /\ node'[n].ttl = 0
  /\ node'[n].version >= node[n].version
  /\ node'[n].state \notin UnderJudgement \cup Held
  /\ \/ node'[n].state = "INTEGRATED" /\ node[n].state \in {"INTEGRATED", "PASSED"}
     \/ /\ node[n].state # "INTEGRATED"
        /\ node'[n].base = head'[p].sha
        /\ \/ node'[n].state = node[n].state
           \/ /\ node[n].state = "BLOCKED" /\ node'[n].state = "READY"
              /\ \A d \in Dependencies[n] : node'[d].state = "INTEGRATED"

RowStep(n) == Kept(n) \/ Planned(n) \/ Worked(n) \/ Published(n)

LEMMA Same == ASSUME node' = node PROVE \A m \in Node : RowStep(m)
BY DEF RowStep, Kept

LEMMA OneRow ==
  ASSUME TypeOK, NEW n \in Node, NEW row, node' = [node EXCEPT ![n] = row]
  PROVE  node'[n] = row /\ \A m \in Node : m # n => Kept(m)
BY DEF TypeOK, Kept

LEMMA AdvancedFields ==
  ASSUME NEW row \in Row, NEW s
  PROVE  LET new == Advanced(row, s) IN
         /\ new.state = s /\ new.version = row.version + 1
         /\ new.version > row.version
         /\ new.attempt = row.attempt /\ new.lease = row.lease /\ new.ttl = row.ttl
         /\ new.artifact = row.artifact /\ new.base = row.base
BY DEF Advanced, Row

LEMMA UnleasedFields ==
  ASSUME NEW row \in Row, NEW s
  PROVE  LET new == Unleased(Advanced(row, s)) IN
         /\ new.state = s /\ new.version = row.version + 1
         /\ new.version > row.version
         /\ new.attempt = row.attempt /\ new.lease = 0 /\ new.ttl = 0
         /\ new.artifact = row.artifact /\ new.base = row.base
BY DEF Advanced, Unleased, Row

\* An ordinary transition, of a lease that is kept or given up.
LEMMA MovedStep ==
  ASSUME TypeOK, NEW n \in Node, Unlocked, publication[ProjectOfNode(n)] = None,
         NEW s \in {"READY", "CANCELLED", "RUNNING"}, MoveTo(n, s),
         s = "RUNNING" => node[n].lease # 0,
         node[n].state = "BLOCKED" => s = "CANCELLED"
  PROVE  \A m \in Node : RowStep(m)
<1>1. node[n] \in Row /\ node[n].state \in DOMAIN Transitions
  BY DEF TypeOK, MoveTo, MayMove, Successors
<1>2. node'[n] = Moved(node[n], s) /\ \A m \in Node : m # n => Kept(m)
  BY OneRow DEF MoveTo
<1>3. Worked(n)
  <2>1. CASE s = "RUNNING"
    BY <1>1, <1>2, <2>1, AdvancedFields DEF Moved, Worked, Held, UnderJudgement, Absent
  <2>2. CASE s \in {"READY", "CANCELLED"}
    BY <1>1, <1>2, <2>2, UnleasedFields DEF Moved, Worked, Held, UnderJudgement, Absent
  <2> QED
    BY <2>1, <2>2
<1> QED
  BY <1>2, <1>3 DEF RowStep

LEMMA OperatorStep ==
  ASSUME TypeOK, Coherent, Operator PROVE \A m \in Node : RowStep(m)
<1>1. ASSUME NEW g \in Goal, NEW sha \in KnownCommits, PlanGoal(g, sha),
             NEW m \in Node
      PROVE  RowStep(m)
  <2>1. CASE m \notin NodesOfGoal(g)
    BY <1>1, <2>1 DEF PlanGoal, RowStep, Kept
  <2>2. CASE m \in NodesOfGoal(g)
    <3>1. ProjectOf[g] = ProjectOfNode(m) /\ node[m].state = Absent
      BY <1>1, <2>2 DEF PlanGoal, NodesOfGoal, ProjectOfNode
    <3>2. /\ node'[m].state = IF Dependencies[m] = {} THEN "READY" ELSE "BLOCKED"
          /\ node'[m].base = sha /\ node'[m].lease = 0 /\ node'[m].ttl = 0
      BY <1>1, <2>2 DEF PlanGoal, NoRow
    <3>3. Unlocked /\ publication[ProjectOfNode(m)] = None
          /\ sha = head[ProjectOfNode(m)].sha
      BY <1>1, <3>1 DEF PlanGoal, Mutable, Accepts
    <3> QED
      BY <3>1, <3>2, <3>3 DEF RowStep, Planned
  <2> QED
    BY <2>1, <2>2
<1>2. ASSUME NEW n \in Node, Cancel(n) PROVE \A m \in Node : RowStep(m)
  BY <1>2, MovedStep DEF Cancel, Mutable
<1>3. ASSUME NEW n \in Node, Resume(n) PROVE \A m \in Node : RowStep(m)
  BY <1>3, MovedStep DEF Resume, Mutable
<1> QED
  BY <1>1, <1>2, <1>3 DEF Operator

LEMMA WorkerStep ==
  ASSUME TypeOK, Coherent, Worker PROVE \A m \in Node : RowStep(m)
<1>1. ASSUME NEW n \in Node, NEW ttl \in 1..MaxTTL, Lease(n, ttl)
      PROVE  \A m \in Node : RowStep(m)
  <2>1. node'[n] = Leased(node[n], ttl) /\ \A m \in Node : m # n => Kept(m)
    BY <1>1, OneRow DEF Lease
  <2>2. /\ Leased(node[n], ttl).state = "LEASED"
        /\ Leased(node[n], ttl).version > node[n].version
        /\ Leased(node[n], ttl).lease # 0
        /\ Leased(node[n], ttl).base = node[n].base
    <3>1. node[n] \in Row /\ node[n].attempt + 1 # 0
      BY Fields DEF TypeOK, Row
    <3> QED
      BY <3>1, AdvancedFields DEF Leased, Advanced, Row
  <2>3. Worked(n)
    BY <1>1, <2>1, <2>2 DEF Lease, Mutable, Worked, Transitions, Absent, UnderJudgement
  <2> QED
    BY <2>1, <2>3 DEF RowStep
<1>2. ASSUME NEW n \in Node, NEW ttl \in 1..MaxTTL, HeartbeatBegin(n, ttl)
      PROVE  \A m \in Node : RowStep(m)
  BY <1>2, Same DEF HeartbeatBegin, records
<1>3. ASSUME NEW n \in Node, Start(n) PROVE \A m \in Node : RowStep(m)
  BY <1>3, MovedStep DEF Start, Mutable, LeaseIsLive
<1>4. ASSUME NEW n \in Node, Reconcile(n) PROVE \A m \in Node : RowStep(m)
  BY <1>4, MovedStep DEF Reconcile, Mutable, Coherent, LeaseHeld, Held
<1>5. ASSUME NEW n \in Node, BeginIngest(n) PROVE \A m \in Node : RowStep(m)
  BY <1>5, Same DEF BeginIngest, records
<1>6. ASSUME NEW i \in ingesting, CommitIngest(i) PROVE \A m \in Node : RowStep(m)
  <2> DEFINE n == i.node
  <2>1. n \in Node /\ i.attempt = node[n].attempt /\ i.base = node[n].base
    BY <1>6 DEF TypeOK, CommitIngest, Registrable
  <2>2. node'[n] = Evidenced(node[n], i.attempt) /\ \A m \in Node : m # n => Kept(m)
    BY <1>6, <2>1, OneRow DEF CommitIngest
  <2>3. LET new == Evidenced(node[n], i.attempt) IN
        /\ new.state = "EVIDENCE_PENDING" /\ new.version > node[n].version
        /\ new.lease = 0 /\ new.ttl = 0
        /\ new.base = node[n].base /\ new.attempt = node[n].attempt
    BY <2>1, UnleasedFields DEF TypeOK, Evidenced, Unleased, Advanced, Row
  <2>4. [node |-> n, attempt |-> i.attempt, base |-> i.base] \in artifacts'
    BY <1>6 DEF CommitIngest
  <2>5. node[n].state = "RUNNING" /\ Unlocked /\ publication[ProjectOfNode(n)] = None
    BY <1>6 DEF CommitIngest, AwaitsIngest, Mutable
  <2>6. Worked(n)
    BY <2>1, <2>2, <2>3, <2>4, <2>5 DEF Worked, Transitions, Absent, Held
  <2> QED
    BY <2>2, <2>6 DEF RowStep
<1>7. ASSUME NEW i \in ingesting, AbandonIngest(i) PROVE \A m \in Node : RowStep(m)
  BY <1>7, Same DEF AbandonIngest, records
<1>8. CASE HeartbeatCommit
  <2>1. writer # None /\ writer.kind = "lease"
        /\ node' = [node EXCEPT ![writer.node].ttl = writer.left]
    BY <1>8 DEF HeartbeatCommit, Unlocked
  <2>2. ASSUME NEW m \in Node PROVE Kept(m)
    <3>1. CASE m = writer.node
      BY <2>1, <3>1 DEF TypeOK, Kept
    <3>2. CASE m # writer.node
      BY <2>1, <3>2 DEF TypeOK, Kept
    <3> QED
      BY <3>1, <3>2
  <2> QED
    BY <2>2 DEF RowStep
<1> QED
  BY <1>1, <1>2, <1>3, <1>4, <1>5, <1>6, <1>7, <1>8 DEF Worker

LEMMA EvaluatorStep ==
  ASSUME TypeOK, Coherent, Evaluator PROVE \A m \in Node : RowStep(m)
<1>0. ASSUME NEW n \in Node, node[n].state \in {"EVIDENCE_PENDING", "EVALUATING"}
      PROVE  node[n].lease = 0 /\ node[n].ttl = 0
  BY <1>0 DEF Coherent, LeaseHeld, Held
<1>a. ASSUME NEW n \in Node, Unlocked, publication[ProjectOfNode(n)] = None,
             node[n].state \in {"EVIDENCE_PENDING", "EVALUATING"},
             NEW s \in {"EVALUATING", "PASSED"},
             node' = [node EXCEPT ![n] = Advanced(@, s)]
      PROVE  \A m \in Node : RowStep(m)
  <2>1. node'[n] = Advanced(node[n], s) /\ \A m \in Node : m # n => Kept(m)
    BY <1>a, OneRow
  <2>2. /\ node'[n].state = s /\ node'[n].version > node[n].version
        /\ node'[n].attempt = node[n].attempt /\ node'[n].base = node[n].base
        /\ node'[n].lease = 0 /\ node'[n].ttl = 0
    <3>1. node[n] \in Row
      BY DEF TypeOK
    <3>2. node[n].lease = 0 /\ node[n].ttl = 0
      BY <1>0, <1>a
    <3> QED
      BY <2>1, <3>1, <3>2, AdvancedFields
  <2>3. Worked(n)
    BY <1>a, <2>2 DEF Worked, Transitions, Absent, Held, UnderJudgement
  <2> QED
    BY <2>1, <2>3 DEF RowStep
<1>1. ASSUME NEW n \in Node, NEW ttl \in 1..MaxTTL, ClaimEvidence(n, ttl)
      PROVE  \A m \in Node : RowStep(m)
  BY <1>1, <1>a DEF ClaimEvidence, Mutable
<1>2. ASSUME NEW n \in Node, NEW ttl \in 1..MaxTTL, ReclaimEvidence(n, ttl)
      PROVE  \A m \in Node : RowStep(m)
  <2>1. node' = [node EXCEPT ![n].version = @ + 2]
    BY <1>2 DEF ReclaimEvidence
  <2>2. /\ node'[n] = [node[n] EXCEPT !.version = @ + 2]
        /\ \A m \in Node : m # n => Kept(m)
    BY <2>1 DEF TypeOK, Kept
  <2>3. /\ node'[n].state = node[n].state /\ node'[n].version > node[n].version
        /\ node'[n].attempt = node[n].attempt /\ node'[n].base = node[n].base
        /\ node'[n].lease = node[n].lease /\ node'[n].ttl = node[n].ttl
    BY <2>2, Fields DEF TypeOK, Row
  <2>4. Worked(n)
    BY <1>0, <1>2, <2>3
    DEF ReclaimEvidence, Mutable, Worked, Transitions, Absent, Held, UnderJudgement
  <2> QED
    BY <2>2, <2>4 DEF RowStep
<1>3. ASSUME NEW n \in Node, NEW ttl \in 1..MaxTTL, ClaimHeartbeatBegin(n, ttl)
      PROVE  \A m \in Node : RowStep(m)
  BY <1>3, Same DEF ClaimHeartbeatBegin, records
<1>4. ASSUME NEW n \in Node, VerifyEvaluation(n) PROVE \A m \in Node : RowStep(m)
  BY <1>4, Same DEF VerifyEvaluation, records
<1>5. ASSUME NEW n \in Node, NEW d \in Dispositions, RejectEvidence(n, d)
      PROVE  \A m \in Node : RowStep(m)
  <2>1. node'[n] = Rejected(node[n], d) /\ \A m \in Node : m # n => Kept(m)
    BY <1>5, OneRow DEF RejectEvidence
  <2>2. LET new == Rejected(node[n], d) IN
        /\ new.state \in {"READY", "FAILED_GATE", "NEEDS_HUMAN"}
        /\ new.version > node[n].version
        /\ new.lease = 0 /\ new.ttl = 0 /\ new.base = node[n].base
    <3> DEFINE moved == Unleased(Advanced(node[n], DispositionTarget[d]))
    <3>1. DispositionTarget[d] \in {"READY", "FAILED_GATE", "NEEDS_HUMAN"}
      BY BoundAssumption DEF DispositionTarget
    <3>2. node[n] \in Row
      BY DEF TypeOK
    <3>3. /\ moved.state \in {"READY", "FAILED_GATE", "NEEDS_HUMAN"}
          /\ moved.version > node[n].version
          /\ moved.lease = 0 /\ moved.ttl = 0 /\ moved.base = node[n].base
      BY <3>1, <3>2, UnleasedFields
    <3>4. moved \in Row
      BY <3>1, <3>2, AdvancedType, UnleasedType, NodeStates
    <3>5. LET new == [moved EXCEPT !.artifact = 0] IN
          /\ new.state = moved.state /\ new.version = moved.version
          /\ new.lease = moved.lease /\ new.ttl = moved.ttl /\ new.base = moved.base
      <4> HIDE DEF moved
      <4> QED
        BY <3>4 DEF Row
    <3>6. Rejected(node[n], d) \in {moved, [moved EXCEPT !.artifact = 0]}
      BY DEF Rejected
    <3> HIDE DEF moved
    <3> QED
      BY <3>3, <3>5, <3>6
  <2>3. Worked(n)
    BY <1>5, <2>1, <2>2
    DEF RejectEvidence, Mutable, Worked, Transitions, Absent, Held, UnderJudgement
  <2> QED
    BY <2>1, <2>3 DEF RowStep
<1>6. ASSUME NEW e \in verifying, CommitEvaluation(e)
      PROVE  \A m \in Node : RowStep(m)
  <2>1. e.node \in Node
    BY DEF TypeOK, LedgerEntry
  <2> QED
    BY <1>6, <1>a, <2>1 DEF CommitEvaluation, Mutable
<1>7. ASSUME NEW e \in verifying, AbandonEvaluation(e)
      PROVE  \A m \in Node : RowStep(m)
  BY <1>7, Same DEF AbandonEvaluation, records
<1>8. CASE ClaimHeartbeatCommit
  BY <1>8, Same DEF ClaimHeartbeatCommit
<1> QED
  BY <1>1, <1>2, <1>3, <1>4, <1>5, <1>6, <1>7, <1>8 DEF Evaluator

LEMMA RecoveryStep ==
  ASSUME TypeOK, Coherent, Recovery PROVE \A m \in Node : RowStep(m)
<1>1. CASE ScanClaims
  BY <1>1, Same DEF ScanClaims, records
<1>2. CASE RecoverClaims
  <2>1. ASSUME NEW m \in Node PROVE RowStep(m)
    <3>1. CASE \E o \in overdue : o.node = m
      <4>1. /\ node[m].state = "EVALUATING" /\ publication[ProjectOfNode(m)] = None
            /\ Unlocked
        BY <1>2, <3>1 DEF RecoverClaims, Recoverable
      <4>2. node'[m] = Advanced(node[m], "EVIDENCE_PENDING")
        BY <1>2, <3>1 DEF RecoverClaims
      <4>3. node[m].lease = 0 /\ node[m].ttl = 0
        BY <4>1 DEF Coherent, LeaseHeld, Held
      <4>4. /\ node'[m].state = "EVIDENCE_PENDING"
            /\ node'[m].version > node[m].version
            /\ node'[m].attempt = node[m].attempt /\ node'[m].base = node[m].base
            /\ node'[m].lease = 0 /\ node'[m].ttl = 0
        BY <4>2, <4>3, AdvancedFields DEF TypeOK
      <4>5. Worked(m)
        BY <4>1, <4>4 DEF Worked, Transitions, Absent, Held, UnderJudgement
      <4> QED
        BY <4>5 DEF RowStep
    <3>2. CASE ~\E o \in overdue : o.node = m
      BY <1>2, <3>2 DEF RecoverClaims, RowStep, Kept
    <3> QED
      BY <3>1, <3>2
  <2> QED
    BY <2>1
<1>3. CASE AbandonClaimRecovery
  BY <1>3, Same DEF AbandonClaimRecovery, records
<1>4. ASSUME NEW force \in Forced, ScanLeases(force) PROVE \A m \in Node : RowStep(m)
  BY <1>4, Same DEF ScanLeases, records
<1>5. ASSUME NEW r \in stale, RecoverLease(r) PROVE \A m \in Node : RowStep(m)
  <2>1. r.node \in Node /\ node[r.node].state \in Held
    BY <1>5 DEF TypeOK, RecoverLease, Coherent, StaleHeld
  <2> QED
    BY <1>5, <2>1, MovedStep DEF RecoverLease, Mutable, Held
<1>6. CASE AbandonLeaseRecovery
  BY <1>6, Same DEF AbandonLeaseRecovery, records
<1> QED
  BY <1>1, <1>2, <1>3, <1>4, <1>5, <1>6 DEF Recovery

\* A completed rollback touches its project's rows only, and all of them.
LEMMA RolledBackStep ==
  ASSUME TypeOK, Coherent, NEW p \in Project, CompleteRollback(p)
  PROVE  /\ \A m \in NodesOf(p) : Published(m)
         /\ \A m \in Node \ NodesOf(p) : Kept(m)
<1> DEFINE sha == RollbackTarget(publication[p].node)
<1>1. /\ Unlocked /\ publication[p] # None /\ publication[p].kind = "ROLLBACK"
      /\ publication' = [publication EXCEPT ![p] = None]
      /\ head' = [head EXCEPT ![p] =
           [version |-> @.version + 1, sha |-> sha, origin |-> @.origin]]
      /\ node' = [n \in Node |-> IF n \in Affected(p) THEN Rebound(node[n], sha)
                                 ELSE node[n]]
  BY DEF CompleteRollback
<1>2. publication'[p] = None /\ head'[p].sha = sha
  BY <1>1 DEF TypeOK
<1> HIDE DEF sha
<1>3. ASSUME NEW m \in Node \ NodesOf(p) PROVE Kept(m)
  BY <1>1, <1>3 DEF Affected, Kept
<1>4. ASSUME NEW m \in NodesOf(p) PROVE Published(m)
  <2>1. m \in Node /\ ProjectOfNode(m) = p /\ node[m].state # Absent
        /\ node[m] \in Row
    BY DEF NodesOf, TypeOK
  <2>2. /\ node[m].lease = 0 /\ node[m].ttl = 0
        /\ node[m].state \notin UnderJudgement \cup Held
    BY <1>1, <2>1 DEF Coherent, FrozenQuiet, LeaseHeld, NodesOf
  <2>3. CASE node[m].state = "INTEGRATED"
    <3>1. node'[m] = node[m]
      BY <1>1, <2>1, <2>3 DEF Rebound
    <3>2. node[m].version >= node[m].version
      BY <2>1 DEF Row
    <3> QED
      BY <1>1, <1>2, <2>1, <2>2, <2>3, <3>1, <3>2 DEF Published
  <2>4. CASE node[m].state # "INTEGRATED"
    <3>1. m \in Affected(p)
      BY <2>1, <2>4 DEF Coherent, BaselineShared, BaselineCoherent, Affected
    <3>2. node'[m] = [node[m] EXCEPT !.base = sha, !.version = node[m].version + 1]
      BY <1>1, <2>1, <2>4, <3>1 DEF Rebound
    <3>3. /\ node'[m].state = node[m].state /\ node'[m].base = sha
          /\ node'[m].lease = 0 /\ node'[m].ttl = 0
          /\ node'[m].version >= node[m].version
      BY <2>1, <2>2, <3>2 DEF Row
    <3> QED
      BY <1>1, <1>2, <2>1, <2>2, <2>4, <3>3 DEF Published
  <2> QED
    BY <2>3, <2>4
<1> QED
  BY <1>3, <1>4

\* So does a completed promotion.
LEMMA PromotedStep ==
  ASSUME TypeOK, Coherent, NEW p \in Project, CompletePromotion(p)
  PROVE  /\ \A m \in NodesOf(p) : Published(m)
         /\ \A m \in Node \ NodesOf(p) : Kept(m)
<1> DEFINE origin  == publication[p].node
           sha     == Candidate(origin)
           rebound == [n \in Node |-> IF n = origin THEN Integrated(node[n])
                                      ELSE IF n \in Affected(p) THEN Rebound(node[n], sha)
                                      ELSE node[n]]
<1>1. /\ Unlocked /\ publication[p] # None /\ publication[p].kind = "PROMOTION"
      /\ publication' = [publication EXCEPT ![p] = None]
      /\ head' = [head EXCEPT ![p] =
           [version |-> @.version + 1, sha |-> sha, origin |-> origin]]
      /\ node' = [n \in Node |-> IF n \in NodesOf(p) THEN Released(n, rebound)
                                 ELSE node[n]]
  BY DEF CompletePromotion
<1>2. publication'[p] = None /\ head'[p].sha = sha
  BY <1>1 DEF TypeOK
<1>3. /\ origin \in Node /\ ProjectOfNode(origin) = p /\ node[origin].state = "PASSED"
      /\ sha \in Commit
  <2>1. origin \in Node
    BY <1>1 DEF TypeOK, Publication
  <2> QED
    BY <1>1, <2>1, CandidateType DEF Coherent, FrozenQuiet
<1>4. rebound \in [Node -> Row]
  BY <1>3, IntegratedType, ReboundType DEF TypeOK
<1>5. rebound[origin] = Integrated(node[origin])
  BY <1>3
<1>6. ASSUME NEW m \in Node, m # origin, m \notin Affected(p)
      PROVE  rebound[m] = node[m]
  BY <1>6
<1>7. ASSUME NEW m \in Node, m # origin, m \in Affected(p)
      PROVE  rebound[m] = Rebound(node[m], sha)
  BY <1>7
<1> HIDE DEF sha, rebound
<1>8. ASSUME NEW m \in Node, m \notin NodesOf(p) PROVE Kept(m)
  BY <1>1, <1>8 DEF Kept
<1>9. Integrated(node[origin]).state = "INTEGRATED"
  BY <1>3 DEF Integrated, TypeOK, Row
<1>10. ASSUME NEW m \in Node, m \in NodesOf(p)
       PROVE  /\ node[m].lease = 0 /\ node[m].ttl = 0 /\ node[m].state # Absent
              /\ ProjectOfNode(m) = p /\ node[m] \in Row
              /\ m # origin => node[m].state \notin UnderJudgement \cup Held
  BY <1>1, <1>10 DEF Coherent, FrozenQuiet, LeaseHeld, NodesOf, TypeOK
<1>11. ASSUME NEW m \in Node, m \in NodesOf(p), m # origin, node[m].state # "INTEGRATED"
       PROVE  /\ rebound[m].state = node[m].state /\ rebound[m].base = sha
              /\ rebound[m].version >= node[m].version
              /\ rebound[m].lease = 0 /\ rebound[m].ttl = 0
  <2>1. m \in Affected(p)
    BY <1>11 DEF Coherent, BaselineShared, BaselineCoherent, Affected
  <2>2. rebound[m] = [node[m] EXCEPT !.base = sha, !.version = node[m].version + 1]
    BY <1>7, <1>11, <2>1 DEF Rebound
  <2> QED
    BY <1>10, <1>11, <2>2 DEF Row
<1>12. ASSUME NEW m \in Node, m \in NodesOf(p), m # origin, node[m].state = "INTEGRATED"
       PROVE  rebound[m] = node[m]
  BY <1>6, <1>7, <1>12 DEF Rebound
<1>13. ASSUME NEW d \in Node, rebound[d].state = "INTEGRATED"
       PROVE  node'[d].state = "INTEGRATED"
  <2>1. CASE d \in NodesOf(p)
    BY <1>1, <1>13, <2>1 DEF Released
  <2>2. CASE d \notin NodesOf(p)
    <3>1. d # origin /\ d \notin Affected(p)
      BY <1>3, <2>2 DEF NodesOf, Affected, Absent
    <3> QED
      BY <1>1, <1>6, <1>13, <2>2, <3>1
  <2> QED
    BY <2>1, <2>2
<1>14. ASSUME NEW m \in Node, m \in NodesOf(p) PROVE Published(m)
  <2>1. node'[m] = Released(m, rebound)
    BY <1>1, <1>14
  <2>2. CASE m = origin
    <3>1. node'[m] = Integrated(node[m])
      BY <1>5, <1>9, <2>1, <2>2 DEF Released
    <3>2. /\ node'[m].state = "INTEGRATED" /\ node'[m].lease = 0 /\ node'[m].ttl = 0
          /\ node'[m].version >= node[m].version
      BY <1>10, <1>14, <3>1 DEF Integrated, Row
    <3> QED
      BY <1>1, <1>2, <1>3, <1>10, <1>14, <2>2, <3>2 DEF Published, UnderJudgement, Held
  <2>3. CASE m # origin /\ node[m].state = "INTEGRATED"
    <3>1. node'[m] = node[m]
      BY <1>12, <1>14, <2>1, <2>3 DEF Released
    <3>2. node[m].version >= node[m].version
      BY <1>10, <1>14 DEF Row
    <3> QED
      BY <1>1, <1>2, <1>10, <1>14, <2>3, <3>1, <3>2 DEF Published, UnderJudgement, Held
  <2>4. CASE m # origin /\ node[m].state # "INTEGRATED"
    <3>1. CASE node'[m] = rebound[m]
      BY <1>1, <1>2, <1>10, <1>11, <1>14, <2>4, <3>1 DEF Published
    <3>2. CASE node'[m] # rebound[m]
      <4>1. /\ rebound[m].state = "BLOCKED"
            /\ \A d \in Dependencies[m] : rebound[d].state = "INTEGRATED"
            /\ node'[m] = Advanced(rebound[m], "READY")
        BY <2>1, <3>2 DEF Released
      <4>2. \A d \in Dependencies[m] : node'[d].state = "INTEGRATED"
        BY <1>13, <1>14, <4>1, GraphAssumption
      <4>3. /\ node'[m].state = "READY" /\ node'[m].base = sha
            /\ node'[m].lease = 0 /\ node'[m].ttl = 0
            /\ node'[m].version >= node[m].version
        <5>1. /\ node'[m].version = rebound[m].version + 1
              /\ rebound[m].version >= node[m].version
              /\ rebound[m].version \in Nat /\ node[m].version \in Nat
          BY <1>4, <1>11, <1>14, <2>4, <4>1, AdvancedFields DEF TypeOK, Row
        <5>2. node'[m].version >= node[m].version
          BY <5>1
        <5>3. /\ node'[m].state = "READY" /\ node'[m].base = rebound[m].base
              /\ node'[m].lease = rebound[m].lease /\ node'[m].ttl = rebound[m].ttl
          BY <1>4, <1>14, <4>1, AdvancedFields
        <5> QED
          BY <1>11, <1>14, <2>4, <5>2, <5>3
      <4> QED
        BY <1>1, <1>2, <1>10, <1>11, <1>14, <2>4, <4>1, <4>2, <4>3
        DEF Published, UnderJudgement, Held
    <3> QED
      BY <3>1, <3>2
  <2> QED
    BY <2>2, <2>3, <2>4
<1> QED
  BY <1>8, <1>14 DEF NodesOf

LEMMA CoordinatorStep ==
  ASSUME TypeOK, Coherent, Coordinator PROVE \A m \in Node : RowStep(m)
<1>1. ASSUME NEW n \in Node, PreparePromotion(n) PROVE \A m \in Node : RowStep(m)
  BY <1>1, Same DEF PreparePromotion, records
<1>2. ASSUME NEW n \in Node, PrepareRollback(n) PROVE \A m \in Node : RowStep(m)
  BY <1>2, Same DEF PrepareRollback, records
<1> QED
  BY <1>1, <1>2, RolledBackStep, PromotedStep DEF Coordinator, RowStep

LEMMA RowSteps ==
  ASSUME TypeOK, Coherent, [Next]_vars PROVE \A m \in Node : RowStep(m)
<1>1. CASE Tick
  BY <1>1 DEF Tick, RowStep, Kept
<1>2. CASE HeartbeatAbort
  BY <1>2, Same DEF HeartbeatAbort, records
<1>3. CASE UNCHANGED vars
  BY <1>3, Same DEF vars, records
<1> QED
  BY <1>1, <1>2, <1>3, OperatorStep, WorkerStep, EvaluatorStep, RecoveryStep,
     CoordinatorStep DEF Next

LEMMA KeptFields ==
  ASSUME TypeOK, NEW n \in Node, Kept(n)
  PROVE  /\ node'[n].state = node[n].state /\ node'[n].version = node[n].version
         /\ node'[n].attempt = node[n].attempt /\ node'[n].lease = node[n].lease
         /\ node'[n].artifact = node[n].artifact /\ node'[n].base = node[n].base
BY DEF TypeOK, Kept, Row

-----------------------------------------------------------------------------
(* What a step does to a project, and to the write lock *)

\* Nothing; it prepares an operation; or it completes the one that is prepared.
PublicationStep(p) ==
  \/ publication'[p] = publication[p] /\ head'[p] = head[p]
  \/ /\ Unlocked /\ node' = node /\ head' = head /\ writer' = writer
     /\ \E n \in Node : ProjectOfNode(n) = p /\ (PreparePromotion(n) \/ PrepareRollback(n))
  \/ /\ Unlocked /\ publication[p] # None /\ publication'[p] = None
     /\ \A n \in NodesOf(p) : Published(n)
     /\ \A n \in Node \ NodesOf(p) : Kept(n)

LEMMA PublicationSteps ==
  ASSUME TypeOK, Coherent, [Next]_vars PROVE \A p \in Project : PublicationStep(p)
<1>1. CASE published' = published
  BY <1>1 DEF published, PublicationStep
<1>2. ASSUME NEW n \in Node, PreparePromotion(n) \/ PrepareRollback(n),
             NEW p \in Project
      PROVE  PublicationStep(p)
  <2>1. /\ Unlocked /\ node' = node /\ head' = head /\ writer' = writer
        /\ \E x : publication' = [publication EXCEPT ![ProjectOfNode(n)] = x]
    BY <1>2 DEF PreparePromotion, PrepareRollback, Mutable, records
  <2>2. CASE p = ProjectOfNode(n)
    BY <1>2, <2>1, <2>2 DEF PublicationStep
  <2>3. CASE p # ProjectOfNode(n)
    BY <2>1, <2>3 DEF PublicationStep, TypeOK
  <2> QED
    BY <2>2, <2>3
<1>3. ASSUME NEW q \in Project, CompletePromotion(q) \/ CompleteRollback(q),
             NEW p \in Project
      PROVE  PublicationStep(p)
  <2>1. /\ Unlocked /\ publication[q] # None
        /\ publication' = [publication EXCEPT ![q] = None]
        /\ \E x : head' = [head EXCEPT ![q] = x]
    BY <1>3 DEF CompletePromotion, CompleteRollback
  <2>2. CASE p = q
    BY <1>3, <2>1, <2>2, PromotedStep, RolledBackStep DEF PublicationStep, TypeOK
  <2>3. CASE p # q
    BY <2>1, <2>3 DEF PublicationStep, TypeOK
  <2> QED
    BY <2>2, <2>3
<1>4. CASE Operator
  BY <1>1, <1>4 DEF Operator, PlanGoal, Cancel, Resume
<1>5. CASE Worker
  BY <1>1, <1>5 DEF Worker, Lease, HeartbeatBegin, Start, Reconcile, BeginIngest,
     CommitIngest, AbandonIngest, HeartbeatCommit
<1>6. CASE Evaluator
  BY <1>1, <1>6 DEF Evaluator, ClaimEvidence, ReclaimEvidence, ClaimHeartbeatBegin,
     VerifyEvaluation, RejectEvidence, CommitEvaluation, AbandonEvaluation,
     ClaimHeartbeatCommit
<1>7. CASE Recovery
  BY <1>1, <1>7 DEF Recovery, ScanClaims, RecoverClaims, AbandonClaimRecovery,
     ScanLeases, RecoverLease, AbandonLeaseRecovery
<1>8. CASE Coordinator
  BY <1>2, <1>3, <1>8 DEF Coordinator
<1> QED
  BY <1>1, <1>4, <1>5, <1>6, <1>7, <1>8 DEF Next, HeartbeatAbort, Tick, vars

\* The lock is free, or held on as before, or taken on an unfrozen project.
WriterStep ==
  \/ writer' = None
  \/ writer # None /\ writer'.kind = writer.kind /\ writer'.node = writer.node
  \/ /\ Unlocked /\ node' = node /\ publication' = publication
     /\ publication[ProjectOfNode(writer'.node)] = None
     /\ writer'.kind = "lease" => node[writer'.node].lease # 0

LEMMA WriterSteps == ASSUME TypeOK, [Next]_vars PROVE WriterStep
<1>1. CASE writer' = writer
  BY <1>1 DEF WriterStep
<1>2. ASSUME NEW n \in Node, NEW ttl \in 1..MaxTTL, HeartbeatBegin(n, ttl)
      PROVE  WriterStep
  BY <1>2 DEF HeartbeatBegin, WriterStep, Mutable, LeaseIsLive, records, published
<1>3. ASSUME NEW n \in Node, NEW ttl \in 1..MaxTTL, ClaimHeartbeatBegin(n, ttl)
      PROVE  WriterStep
  BY <1>3 DEF ClaimHeartbeatBegin, WriterStep, Mutable, records, published
<1>4. CASE Operator
  BY <1>1, <1>4 DEF Operator, PlanGoal, Cancel, Resume
<1>5. CASE Worker
  BY <1>1, <1>2, <1>5 DEF Worker, Lease, Start, Reconcile, BeginIngest,
     CommitIngest, AbandonIngest, HeartbeatCommit, WriterStep
<1>6. CASE Evaluator
  BY <1>1, <1>3, <1>6 DEF Evaluator, ClaimEvidence, ReclaimEvidence,
     VerifyEvaluation, RejectEvidence, CommitEvaluation, AbandonEvaluation,
     ClaimHeartbeatCommit, WriterStep
<1>7. CASE Recovery
  BY <1>1, <1>7 DEF Recovery, ScanClaims, RecoverClaims, AbandonClaimRecovery,
     ScanLeases, RecoverLease, AbandonLeaseRecovery
<1>8. CASE Coordinator
  BY <1>1, <1>8 DEF Coordinator, PreparePromotion, PrepareRollback,
     CompletePromotion, CompleteRollback
<1>9. CASE Tick
  <2>1. writer # None => /\ writer'.kind = writer.kind /\ writer'.node = writer.node
    BY <1>9 DEF Tick, Unlocked, TypeOK
  <2> QED
    BY <1>9, <2>1 DEF Tick, Unlocked, WriterStep
<1> QED
  BY <1>1, <1>4, <1>5, <1>6, <1>7, <1>8, <1>9 DEF Next, HeartbeatAbort, WriterStep, vars

LEMMA StaleSteps ==
  ASSUME [Next]_vars PROVE stale' \subseteq stale \/ \E force \in Forced : ScanLeases(force)
<1>1. CASE Operator
  BY <1>1 DEF Operator, PlanGoal, Cancel, Resume, inflight
<1>2. CASE Worker
  BY <1>2 DEF Worker, Lease, HeartbeatBegin, Start, Reconcile, BeginIngest,
     CommitIngest, AbandonIngest, HeartbeatCommit, inflight
<1>3. CASE Evaluator
  BY <1>3 DEF Evaluator, ClaimEvidence, ReclaimEvidence, ClaimHeartbeatBegin,
     VerifyEvaluation, RejectEvidence, CommitEvaluation, AbandonEvaluation,
     ClaimHeartbeatCommit, inflight
<1>4. CASE Recovery
  BY <1>4 DEF Recovery, ScanClaims, RecoverClaims, AbandonClaimRecovery,
     RecoverLease, AbandonLeaseRecovery
<1>5. CASE Coordinator
  BY <1>5 DEF Coordinator, PreparePromotion, PrepareRollback,
     CompletePromotion, CompleteRollback, inflight
<1> QED
  BY <1>1, <1>2, <1>3, <1>4, <1>5 DEF Next, HeartbeatAbort, Tick, vars, inflight

-----------------------------------------------------------------------------
(* The invariant is inductive *)

LEMMA InitCoherent == Init => Coherent
<1> SUFFICES ASSUME Init PROVE Coherent
  OBVIOUS
<1>1. LeaseHeld
  BY DEF Init, LeaseHeld, NoRow, Held, Absent
<1>2. StaleHeld /\ WriterOwns /\ FrozenQuiet
  BY DEF Init, StaleHeld, WriterOwns, FrozenQuiet
<1>3. BaselineShared
  BY DEF Init, BaselineShared, BaselineCoherent, NodesOf, NoRow
<1> QED
  BY <1>1, <1>2, <1>3 DEF Coherent

LEMMA LeaseHeldNext ==
  ASSUME TypeOK, Coherent, [Next]_vars PROVE LeaseHeld'
<1> SUFFICES ASSUME NEW n \in Node
             PROVE  /\ node'[n].lease # 0 <=> node'[n].state \in Held
                    /\ node'[n].lease = 0 => node'[n].ttl = 0
  BY DEF LeaseHeld, Held
<1>0. RowStep(n)
  BY RowSteps
<1>1. CASE Kept(n)
  <2>1. node'[n].lease # 0 <=> node'[n].state \in Held
    BY <1>1, KeptFields DEF Coherent, LeaseHeld
  <2>2. ASSUME node'[n].lease = 0 PROVE node'[n].ttl = 0
    <3>1. node[n].lease = 0 /\ node[n].ttl = 0
      BY <1>1, <2>2, KeptFields DEF Coherent, LeaseHeld
    <3>2. ~(writer # None /\ writer.kind = "lease" /\ writer.node = n)
      BY <3>1 DEF Coherent, WriterOwns
    <3> QED
      BY <1>1, <3>1, <3>2 DEF Kept, Less, TypeOK, Row
  <2> QED
    BY <2>1, <2>2
<1>2. CASE Planned(n)
  BY <1>2 DEF Planned, Held
<1>3. CASE Worked(n)
  <2>1. CASE node'[n].state \notin Held /\ node'[n].lease = 0 /\ node'[n].ttl = 0
    BY <2>1
  <2>2. CASE node'[n].state \in Held /\ node'[n].lease # 0
    BY <2>2
  <2> QED
    BY <1>3, <2>1, <2>2 DEF Worked, Held
<1>4. CASE Published(n)
  BY <1>4 DEF Published
<1> QED
  BY <1>0, <1>1, <1>2, <1>3, <1>4 DEF RowStep

LEMMA StaleHeldNext ==
  ASSUME TypeOK, Coherent, TypeOK', [Next]_vars PROVE StaleHeld'
<1>1. CASE stale' \subseteq stale
  <2> SUFFICES ASSUME NEW r \in stale
               PROVE  /\ node'[r.node].state # Absent
                      /\ r.version <= node'[r.node].version
                      /\ r.version = node'[r.node].version => node'[r.node].state \in Held
    BY <1>1 DEF StaleHeld
  <2> DEFINE n == r.node
  <2>1. /\ n \in Node /\ r.version \in Nat
        /\ node[n].version \in Nat /\ node'[n].version \in Nat
    BY DEF TypeOK, Row
  <2>2. /\ node[n].state # Absent /\ r.version <= node[n].version
        /\ r.version = node[n].version => node[n].state \in Held
    BY DEF Coherent, StaleHeld
  <2>3. RowStep(n)
    BY <2>1, RowSteps
  <2>4. CASE Kept(n)
    BY <2>1, <2>2, <2>4, KeptFields
  <2>5. CASE Worked(n)
    <3>1. node'[n].version > node[n].version /\ node'[n].state # Absent
      BY <2>5 DEF Worked
    <3> QED
      BY <2>1, <2>2, <3>1
  <2>6. CASE Published(n)
    <3>1. node[n].state \notin Held
      BY <2>6 DEF Published, Held
    <3>2. r.version < node[n].version
      BY <2>1, <2>2, <3>1
    <3>3. node'[n].version >= node[n].version /\ node'[n].state # Absent
      BY <2>2, <2>6 DEF Published, Absent
    <3> QED
      BY <2>1, <3>2, <3>3
  <2> QED
    BY <2>2, <2>3, <2>4, <2>5, <2>6 DEF RowStep, Planned
<1>2. ASSUME NEW force \in Forced, ScanLeases(force) PROVE StaleHeld'
  <2>1. node' = node
    BY <1>2 DEF ScanLeases, records
  <2>2. ASSUME NEW r \in stale'
        PROVE  /\ r.node \in Node /\ r.version = node[r.node].version
               /\ node[r.node].state \in Held
    BY <1>2, <2>2 DEF ScanLeases, Lapsed, Held
  <2>3. ASSUME NEW r \in stale' PROVE r.version <= node[r.node].version
    BY <2>2, <2>3 DEF TypeOK, Row
  <2> QED
    BY <2>1, <2>2, <2>3 DEF StaleHeld, Held, Absent
<1> QED
  BY <1>1, <1>2, StaleSteps

LEMMA WriterOwnsNext ==
  ASSUME TypeOK, Coherent, TypeOK', LeaseHeld', [Next]_vars PROVE WriterOwns'
<1> SUFFICES ASSUME writer' # None
             PROVE  /\ publication'[ProjectOfNode(writer'.node)] = None
                    /\ writer'.kind = "lease" => node'[writer'.node].lease # 0
  BY DEF WriterOwns, ProjectOfNode
<1> DEFINE n == writer'.node
           p == ProjectOfNode(n)
<1>0. n \in Node /\ p \in Project
  BY ProjectOfNodeType DEF TypeOK
<1>1. CASE writer # None /\ writer'.kind = writer.kind /\ n = writer.node
  <2>1. ~Unlocked /\ publication[p] = None
    BY <1>1 DEF Unlocked, Coherent, WriterOwns
  <2>2. publication'[p] = None
    BY <1>0, <2>1, PublicationSteps DEF PublicationStep
  <2>3. Kept(n)
    BY <1>0, <2>1, RowSteps DEF RowStep, Planned, Worked, Published
  <2> QED
    BY <1>0, <1>1, <2>2, <2>3, KeptFields DEF Coherent, WriterOwns
<1>2. CASE writer = None /\ node' = node /\ publication' = publication
           /\ publication[p] = None
           /\ (writer'.kind = "lease" => node[n].lease # 0)
  BY <1>2
<1> QED
  BY <1>1, <1>2, WriterSteps DEF WriterStep, Unlocked

\* While a publication of p stays prepared, no row of p changes.
LEMMA FrozenRows ==
  ASSUME TypeOK, Coherent, [Next]_vars,
         NEW p \in Project, publication[p] # None, publication'[p] = publication[p],
         NEW n \in Node, ProjectOfNode(n) = p
  PROVE  node'[n] = node[n]
<1>1. Kept(n)
  BY RowSteps DEF RowStep, Planned, Worked, Published
<1>2. ~(writer # None /\ writer.kind = "lease" /\ writer.node = n)
  BY DEF Coherent, WriterOwns
<1>3. node[n].ttl = 0 /\ node[n] \in Row
  <2>1. CASE n \in NodesOf(p)
    BY <2>1 DEF Coherent, FrozenQuiet, TypeOK
  <2>2. CASE n \notin NodesOf(p)
    BY <2>2 DEF Coherent, LeaseHeld, Held, NodesOf, Absent, TypeOK
  <2> QED
    BY <2>1, <2>2
<1>4. [node[n] EXCEPT !.ttl = Less(@)] = node[n]
  BY <1>3 DEF Less, Row
<1> QED
  BY <1>1, <1>2, <1>4 DEF Kept

\* A project is at rest when an operation on it is prepared.
LEMMA PreparedAtRest ==
  ASSUME TypeOK, Coherent, NEW n \in Node, PreparePromotion(n) \/ PrepareRollback(n),
         NEW m \in NodesOf(ProjectOfNode(n))
  PROVE  /\ node[m].lease = 0 /\ node[m].ttl = 0
         /\ \/ node[m].state \notin UnderJudgement
            \/ PreparePromotion(n) /\ m = n
<1> DEFINE p == ProjectOfNode(n)
<1>1. m \in Node /\ BaselineCoherent(p)
  BY DEF NodesOf, PreparePromotion, PrepareRollback
<1>2. CASE node[m].state = "INTEGRATED"
  BY <1>1, <1>2 DEF Coherent, LeaseHeld, Held, UnderJudgement
<1>3. CASE node[m].state # "INTEGRATED"
  <2>1. m \in Affected(p)
    BY <1>1, <1>3 DEF BaselineCoherent, Affected
  <2>2. CASE PreparePromotion(n) /\ m = n
    BY <2>2 DEF PreparePromotion, Coherent, LeaseHeld
  <2>3. CASE ~(PreparePromotion(n) /\ m = n)
    <3>1. Quiescent(m)
      BY <2>1, <2>3 DEF PreparePromotion, PrepareRollback
    <3> QED
      BY <1>1, <3>1 DEF Quiescent, Coherent, LeaseHeld, UnderJudgement
  <2> QED
    BY <2>2, <2>3
<1> QED
  BY <1>2, <1>3

LEMMA FrozenQuietNext ==
  ASSUME TypeOK, Coherent, TypeOK', [Next]_vars PROVE FrozenQuiet'
<1> SUFFICES ASSUME NEW p \in Project, publication'[p] # None
             PROVE  LET origin == publication'[p].node IN
               /\ ProjectOfNode(origin) = p
               /\ publication'[p].kind = "PROMOTION" => node'[origin].state = "PASSED"
               /\ \A n \in NodesOf(p)' :
                    /\ node'[n].lease = 0 /\ node'[n].ttl = 0
                    /\ \/ node'[n].state \notin UnderJudgement
                       \/ publication'[p].kind = "PROMOTION" /\ n = origin
  BY DEF FrozenQuiet, ProjectOfNode, UnderJudgement
<1>1. CASE publication'[p] = publication[p]
  <2>1. \A n \in Node : ProjectOfNode(n) = p => node'[n] = node[n]
    BY <1>1, FrozenRows
  <2>2. publication'[p].node \in Node
    BY DEF TypeOK, Publication
  <2>3. NodesOf(p)' = NodesOf(p)
    BY <2>1 DEF NodesOf, ProjectOfNode
  <2> QED
    BY <1>1, <2>1, <2>2, <2>3 DEF Coherent, FrozenQuiet, NodesOf
<1>2. ASSUME NEW n \in Node, ProjectOfNode(n) = p, node' = node,
             PreparePromotion(n) \/ PrepareRollback(n)
      PROVE  LET origin == publication'[p].node IN
               /\ ProjectOfNode(origin) = p
               /\ publication'[p].kind = "PROMOTION" => node'[origin].state = "PASSED"
               /\ \A m \in NodesOf(p)' :
                    /\ node'[m].lease = 0 /\ node'[m].ttl = 0
                    /\ \/ node'[m].state \notin UnderJudgement
                       \/ publication'[p].kind = "PROMOTION" /\ m = origin
  <2>1. NodesOf(p)' = NodesOf(p)
    BY <1>2 DEF NodesOf, ProjectOfNode
  <2>2. CASE PreparePromotion(n)
    <3>1. publication'[p].kind = "PROMOTION" /\ publication'[p].node = n
          /\ node[n].state = "PASSED"
      BY <1>2, <2>2 DEF PreparePromotion, Promotable, TypeOK
    <3> QED
      BY <1>2, <2>1, <3>1, PreparedAtRest
  <2>3. CASE PrepareRollback(n)
    <3>1. publication'[p].kind = "ROLLBACK" /\ publication'[p].node = n
          /\ node[n].state = "INTEGRATED"
      BY <1>2, <2>3 DEF PrepareRollback, TypeOK
    <3>2. node[n].state \notin UnderJudgement
      BY <3>1 DEF UnderJudgement
    <3> QED
      BY <1>2, <2>1, <3>1, <3>2, PreparedAtRest
  <2> QED
    BY <1>2, <2>2, <2>3
<1> QED
  BY <1>1, <1>2, PublicationSteps DEF PublicationStep

LEMMA BaselineSharedNext ==
  ASSUME TypeOK, Coherent, [Next]_vars PROVE BaselineShared'
<1> SUFFICES ASSUME NEW p \in Project, NEW n \in Node, ProjectOfNode(n) = p,
                    node'[n].state # Absent, node'[n].state # "INTEGRATED"
             PROVE  node'[n].base = head'[p].sha
  BY DEF BaselineShared, BaselineCoherent, NodesOf, ProjectOfNode
<1>0. PublicationStep(p) /\ RowStep(n)
  BY PublicationSteps, RowSteps
<1>1. ASSUME n \in NodesOf(p), node[n].state # "INTEGRATED"
      PROVE  node[n].base = head[p].sha
  BY <1>1 DEF Coherent, BaselineShared, BaselineCoherent
<1>2. CASE Published(n)
  BY <1>2 DEF Published
<1>3. CASE ~Published(n) /\ Kept(n)
  <2>1. node[n].base = head[p].sha /\ node'[n].base = node[n].base /\ n \in NodesOf(p)
    BY <1>1, <1>3, KeptFields DEF NodesOf
  <2>2. head'[p] = head[p]
    BY <1>0, <1>3, <2>1 DEF PublicationStep
  <2> QED
    BY <2>1, <2>2
<1>4. CASE Planned(n) \/ Worked(n)
  <2>1. publication[p] = None
    BY <1>4 DEF Planned, Worked
  <2>2. head'[p] = head[p]
    BY <1>0, <2>1 DEF PublicationStep
  <2>3. node'[n].base = head[p].sha
    BY <1>1, <1>4 DEF Planned, Worked, NodesOf, Transitions, Absent
  <2> QED
    BY <2>2, <2>3
<1> QED
  BY <1>0, <1>2, <1>3, <1>4 DEF RowStep

LEMMA CoherentNext == TypeOK /\ Coherent /\ [Next]_vars => Coherent'
<1> SUFFICES ASSUME TypeOK, Coherent, [Next]_vars PROVE Coherent'
  OBVIOUS
<1>1. TypeOK'
  BY NextType
<1> QED
  BY <1>1, LeaseHeldNext, StaleHeldNext, WriterOwnsNext, FrozenQuietNext,
     BaselineSharedNext DEF Coherent

LEMMA AlwaysCoherent == Spec => [](TypeOK /\ Coherent)
<1>1. Init => TypeOK /\ Coherent
  BY InitType, InitCoherent
<1>2. TypeOK /\ Coherent /\ [Next]_vars => (TypeOK /\ Coherent)'
  BY NextType, CoherentNext
<1> QED
  BY <1>1, <1>2, PTL DEF Spec

-----------------------------------------------------------------------------
(* Theorems *)

\* Whatever is planned, promoted or taken back, and in whatever order: every
\* node of a project that is not integrated works on the published commit.
THEOREM SharedBaseline == Spec => []BaselineShared
BY AlwaysCoherent, PTL DEF Coherent

\* An operation that is PREPARED can always be completed: no client changes a
\* row it recorded.
THEOREM PreparedStands == Spec => []PreparedGraphStands
<1>1. Init => PreparedGraphStands
  BY DEF Init, PreparedGraphStands
<1>2. TypeOK /\ Coherent /\ PreparedGraphStands /\ [Next]_vars => PreparedGraphStands'
  <2> SUFFICES ASSUME TypeOK, Coherent, PreparedGraphStands, [Next]_vars,
                      NEW p \in Project, publication'[p] # None
               PROVE  AffectedGraph(p)' = publication'[p].graph
    BY DEF PreparedGraphStands
  <2>1. CASE publication'[p] = publication[p] /\ head'[p] = head[p]
    <3>1. \A n \in Node : ProjectOfNode(n) = p => node'[n] = node[n]
      BY <2>1, FrozenRows
    <3>2. Affected(p)' = Affected(p)
      BY <2>1, <3>1 DEF Affected, NodesOf, ProjectOfNode
    <3>3. AffectedGraph(p)' = AffectedGraph(p)
      BY <3>1, <3>2 DEF AffectedGraph, Affected, NodesOf
    <3> QED
      BY <2>1, <3>3 DEF PreparedGraphStands
  <2>2. ASSUME NEW n \in Node, ProjectOfNode(n) = p, node' = node, head' = head,
               PreparePromotion(n) \/ PrepareRollback(n)
        PROVE  AffectedGraph(p)' = publication'[p].graph
    <3>1. AffectedGraph(p)' = AffectedGraph(p)
      BY <2>2 DEF AffectedGraph, Affected, NodesOf, ProjectOfNode
    <3>2. publication'[p].graph = AffectedGraph(p)
      BY <2>2 DEF PreparePromotion, PrepareRollback, TypeOK
    <3> QED
      BY <3>1, <3>2
  <2> QED
    BY <2>1, <2>2, PublicationSteps DEF PublicationStep
<1> QED
  BY <1>1, <1>2, AlwaysCoherent, PTL DEF Spec

LEMMA NoOverlap ==
  ASSUME NEW S, NEW T, ~Overlap(S, T) PROVE Apart(S, T) /\ Apart(T, S)
BY DEF Overlap, Apart, MayWrite

\* Two workers of one repository never hold overlapping write sets.
THEOREM ExclusiveWriteSets == Spec => []WriteSetsExclusive
<1>1. Init => WriteSetsExclusive
  BY DEF Init, WriteSetsExclusive, NoRow
<1>2. TypeOK /\ Coherent /\ WriteSetsExclusive /\ [Next]_vars => WriteSetsExclusive'
  <2> SUFFICES ASSUME TypeOK, Coherent, WriteSetsExclusive, [Next]_vars,
                      NEW m \in Node, NEW n \in Node, m # n,
                      ProjectOfNode(m) = ProjectOfNode(n),
                      node'[m].lease # 0, node'[n].lease # 0
               PROVE  Apart(WriteSet[m], WriteSet[n])
    BY DEF WriteSetsExclusive, ProjectOfNode
  <2>1. ASSUME NEW k \in Node, node'[k].lease # 0
        PROVE  node[k].lease # 0 \/ \E ttl \in 1..MaxTTL : Lease(k, ttl)
    <3>1. RowStep(k)
      BY RowSteps
    <3> QED
      BY <2>1, <3>1, KeptFields DEF RowStep, Planned, Worked, Published
  \* A new lease was compared with every holder.
  <2>2. ASSUME NEW k \in Node, NEW j \in Node, k # j, node'[j].lease # 0,
               ProjectOfNode(j) = ProjectOfNode(k),
               NEW ttl \in 1..MaxTTL, Lease(k, ttl)
        PROVE  ~Overlap(WriteSet[k], WriteSet[j])
    <3>1. node'[j] = node[j]
      BY <2>2 DEF Lease, TypeOK
    <3>2. j \in Holders(ProjectOfNode(k)) \ {k}
      BY <2>2, <3>1 DEF Coherent, LeaseHeld, Held, Holders, NodesOf, Absent
    <3> QED
      BY <2>2, <3>2 DEF Lease
  <2>3. CASE node[m].lease # 0 /\ node[n].lease # 0
    BY <2>3 DEF WriteSetsExclusive
  <2>4. CASE \E ttl \in 1..MaxTTL : Lease(m, ttl)
    BY <2>2, <2>4, NoOverlap
  <2>5. CASE \E ttl \in 1..MaxTTL : Lease(n, ttl)
    BY <2>2, <2>5, NoOverlap
  <2> QED
    BY <2>1, <2>3, <2>4, <2>5
<1> QED
  BY <1>1, <1>2, AlwaysCoherent, PTL DEF Spec

LEMMA IntegratedStays ==
  ASSUME TypeOK, Coherent, [Next]_vars, NEW n \in Node, node[n].state = "INTEGRATED"
  PROVE  node'[n].state = "INTEGRATED"
<1>1. RowStep(n)
  BY RowSteps
<1> QED
  BY <1>1, KeptFields DEF RowStep, Planned, Worked, Published, Transitions, Absent

\* No node is worked on before all it depends on was integrated.
THEOREM DependenciesFirst == Spec => []DependenciesIntegrated
<1>1. Init => DependenciesIntegrated
  BY DEF Init, DependenciesIntegrated, NoRow
<1>2. TypeOK /\ Coherent /\ DependenciesIntegrated /\ [Next]_vars
        => DependenciesIntegrated'
  <2> SUFFICES ASSUME TypeOK, Coherent, DependenciesIntegrated, [Next]_vars,
                      NEW n \in Node, NEW d \in Dependencies[n],
                      node'[n].state \notin {Absent, "BLOCKED", "CANCELLED"}
               PROVE  node'[d].state = "INTEGRATED"
    BY DEF DependenciesIntegrated
  <2>1. d \in Node /\ RowStep(n)
    BY GraphAssumption, RowSteps
  <2>2. ASSUME node[n].state \notin {Absent, "BLOCKED", "CANCELLED"}
        PROVE  node'[d].state = "INTEGRATED"
    BY <2>1, <2>2, IntegratedStays DEF DependenciesIntegrated
  <2>3. CASE Kept(n)
    BY <2>2, <2>3, KeptFields
  <2>4. CASE Planned(n)
    BY <2>4 DEF Planned
  <2>5. CASE Worked(n)
    BY <2>2, <2>5 DEF Worked, Transitions, Absent
  <2>6. CASE Published(n)
    BY <2>2, <2>6 DEF Published, Absent
  <2> QED
    BY <2>1, <2>3, <2>4, <2>5, <2>6 DEF RowStep
<1> QED
  BY <1>1, <1>2, AlwaysCoherent, PTL DEF Spec

LEMMA ArtifactsGrow == ASSUME [Next]_vars PROVE artifacts \subseteq artifacts'
BY DEF Next, Operator, PlanGoal, Cancel, Resume, Worker, Lease, HeartbeatBegin, Start,
   Reconcile, BeginIngest, CommitIngest, AbandonIngest, HeartbeatCommit, Evaluator,
   ClaimEvidence, ReclaimEvidence, ClaimHeartbeatBegin, VerifyEvaluation,
   RejectEvidence, CommitEvaluation, AbandonEvaluation, ClaimHeartbeatCommit, Recovery,
   ScanClaims, RecoverClaims, AbandonClaimRecovery, ScanLeases, RecoverLease,
   AbandonLeaseRecovery, Coordinator, PreparePromotion, PrepareRollback,
   CompletePromotion, CompleteRollback, HeartbeatAbort, Tick, vars, records

\* What is judged was made by the current attempt on the current base.
THEOREM BoundEvidence == Spec => []EvidenceBound
<1>1. Init => EvidenceBound
  BY DEF Init, EvidenceBound, NoRow, Absent
<1>2. TypeOK /\ Coherent /\ EvidenceBound /\ [Next]_vars => EvidenceBound'
  <2> SUFFICES ASSUME TypeOK, Coherent, EvidenceBound, [Next]_vars,
                      NEW n \in Node, node'[n].state \in UnderJudgement
               PROVE  [node |-> n, attempt |-> node'[n].attempt,
                       base |-> node'[n].base] \in artifacts'
    BY DEF EvidenceBound, UnderJudgement
  <2>1. RowStep(n) /\ artifacts \subseteq artifacts'
    BY RowSteps, ArtifactsGrow
  <2>2. ASSUME node[n].state \in UnderJudgement, node'[n].attempt = node[n].attempt,
               node'[n].base = node[n].base
        PROVE  [node |-> n, attempt |-> node'[n].attempt,
                base |-> node'[n].base] \in artifacts'
    BY <2>1, <2>2 DEF EvidenceBound, UnderJudgement
  <2>3. CASE Kept(n)
    BY <2>2, <2>3, KeptFields
  <2>4. CASE Planned(n)
    BY <2>4 DEF Planned, UnderJudgement
  <2>5. CASE Worked(n)
    BY <2>2, <2>5 DEF Worked
  <2>6. CASE Published(n)
    BY <2>6 DEF Published
  <2> QED
    BY <2>1, <2>3, <2>4, <2>5, <2>6 DEF RowStep
<1> QED
  BY <1>1, <1>2, AlwaysCoherent, PTL DEF Spec
=============================================================================
