---------------------------- MODULE ProjectGraph ----------------------------
(***************************************************************************)
(* The authoritative goal graph: control_plane/project_graph.py with the   *)
(* claim primitives of evidence_store.py, reached through graph_service.py *)
(* (workers, evaluator, root) and buzz_router.py (the operator).  The      *)
(* publication transactions of project_coordinator.py are the ones that    *)
(* change the graph; the files and Git refs between them are not here.     *)
(*                                                                         *)
(* An SQLite transaction is one action.  An operation that reads rows in   *)
(* one transaction and writes in a later one is two actions with what it   *)
(* read kept in between, so every other client may run between them.       *)
(*                                                                         *)
(* Time is relative: a lease or a claim keeps the time it has left, which  *)
(* Tick takes down, and is expired when none is left.                      *)
(***************************************************************************)
EXTENDS GraphState, Integers, FiniteSets, SequencesExt

CONSTANTS
  Node,         \* node ids
  Goal,         \* goal ids
  Project,      \* routes
  None,         \* SQL NULL
  GoalOf,       \* [Node -> Goal]
  ProjectOf,    \* [Goal -> Project]
  Dependencies, \* [Node -> SUBSET Node], the dependencies table
  WriteSet,     \* [Node -> SUBSET Path]; a path is the sequence of its parts
  MaxTTL,       \* bound: the longest lease or claim a request asks for
  MaxAttempt,   \* bound: leases a node is given
  MaxVersion,   \* bound: no claim is taken from this version on
  MaxInFlight,  \* bound: two-phase calls of one kind in progress at once
  Dispositions, \* the non-PASS verdicts the evaluator uses
  Forced        \* the force_startup flags lease recovery is called with

ASSUME GraphAssumption ==
  /\ None \notin Node
  /\ GoalOf \in [Node -> Goal]
  /\ ProjectOf \in [Goal -> Project]
  /\ Dependencies \in [Node -> SUBSET Node]
  /\ \A n \in Node : \A d \in Dependencies[n] : GoalOf[d] = GoalOf[n]

ASSUME BoundAssumption ==
  /\ MaxTTL \in Nat \ {0}
  /\ MaxAttempt \in Nat
  /\ MaxVersion \in Nat
  /\ MaxInFlight \in Nat
  /\ Dispositions \subseteq {"RETRY", "FAILED_GATE", "NEEDS_HUMAN"}
  /\ Forced \subseteq BOOLEAN

VARIABLES
  node,        \* the nodes table
  artifacts,   \* evidence_artifacts: at most one per node and attempt
  claims,      \* evaluation_claims
  ledger,      \* evaluation_ledger with its outcome, in sequence order
  head,        \* publication_heads, and the baseline before the first one
  publication, \* the incomplete promotion or rollback of a project, if any
  writer,      \* the heartbeat that holds SQLite's write lock, if any
  ingesting,   \* ingest calls between the row they read and their transaction
  verifying,   \* evaluate calls between their reads and their transaction
  overdue,     \* claims recovery: the expired claims its scan selected
  stale        \* lease recovery: the rows its scan selected, still to do

records == <<node, artifacts, claims, ledger>>
published == <<head, publication>>
inflight == <<ingesting, verifying, overdue, stale>>
vars == <<records, published, writer, inflight>>

-----------------------------------------------------------------------------
(* Rows *)

TTL == 0..MaxTTL

\* A commit of the project's accepted line: the nodes promoted onto the
\* initial baseline, oldest first.
Commit == Seq(Node)

\* lease is the attempt the lease was issued for (the code draws a new lease
\* id for each), and artifact the attempt the active artifact was made by; 0
\* is NULL in both.
Row == [state : NodeState, version : Nat, attempt : Nat, lease : Nat,
        ttl : TTL, artifact : Nat, base : Commit]

Artifact == [node : Node, attempt : Nat, base : Commit]

ClaimStatus == {"ACTIVE", "EVALUATED", "DISPOSED", "EXPIRED"}

\* claim_id is derived from the artifact, the node and the version.
Claim == [node : Node, attempt : Nat, version : Nat,
          status : ClaimStatus, left : TTL]

\* previous is the node of the preceding entry, whose hash the evaluator signed.
LedgerEntry == [node : Node, attempt : Nat, version : Nat,
                previous : Node \cup {None}]

NoRow == [state |-> Absent, version |-> 0, attempt |-> 0, lease |-> 0,
          ttl |-> 0, artifact |-> 0, base |-> <<>>]

ProjectOfNode(n) == ProjectOf[GoalOf[n]]

NodesOf(p) ==
  {n \in Node : ProjectOfNode(n) = p /\ node[n].state # Absent}

NodesOfGoal(g) == {n \in Node : GoalOf[n] = g}

\* The commit an artifact proposes: its work on top of the base it was given.
Candidate(n) == Append(node[n].base, n)

LedgerNodes == {ledger[i].node : i \in DOMAIN ledger}

LedgerTail == IF ledger = <<>> THEN None ELSE ledger[Len(ledger)].node

SameClaim(c, d) == c.node = d.node /\ c.attempt = d.attempt /\ c.version = d.version

ActiveClaims(n) == {c \in claims : c.node = n /\ c.status = "ACTIVE"}

\* Fault: an expired claim still counts.
ClaimsOfAnyAge(n) ==
  {c \in ActiveClaims(n) : /\ c.attempt = node[n].artifact
                           /\ c.version = node[n].version - 1}

\* The active claim the node's artifact points to, unexpired and taken at the
\* version before this one.
LiveClaims(n) ==
  {c \in ActiveClaims(n) : /\ c.attempt = node[n].artifact
                           /\ c.version = node[n].version - 1
                           /\ c.left > 0}

LeaseIsLive(n) == node[n].lease # 0 /\ node[n].ttl > 0

-----------------------------------------------------------------------------
(* What every operation checks first *)

PointerClosed ==
  \A n \in Node : node[n].artifact # 0 =>
    /\ node[n].artifact = node[n].attempt
    /\ \E a \in artifacts : a.node = n /\ a.attempt = node[n].attempt

ActiveClaimsClosed ==
  \A n \in Node : \A c \in ActiveClaims(n) :
    /\ node[n].state = "EVALUATING"
    /\ node[n].version = c.version + 1
    /\ node[n].artifact = c.attempt

LedgerClosed ==
  /\ \A i \in DOMAIN ledger :
       /\ ledger[i].previous = IF i = 1 THEN None ELSE ledger[i - 1].node
       /\ node[ledger[i].node].artifact = ledger[i].attempt
       /\ node[ledger[i].node].attempt = ledger[i].attempt
       /\ ActiveClaims(ledger[i].node) = {}
       /\ \E c \in claims :
            /\ c.node = ledger[i].node /\ c.status = "EVALUATED"
            /\ c.attempt = ledger[i].attempt /\ c.version = ledger[i].version
            /\ \A d \in claims :
                 d.node = c.node /\ d.status = "EVALUATED" => d = c
  /\ {c.node : c \in {d \in claims : d.status = "EVALUATED"}} = LedgerNodes
  /\ {n \in Node : node[n].state \in {"PASSED", "INTEGRATED"}} = LedgerNodes

\* assert_static_integrity: an operation that finds it false raises, so once
\* false nothing moves any more.
StaticIntegrity == PointerClosed /\ ActiveClaimsClosed /\ LedgerClosed

Unlocked == writer = None

\* Fault: a pending publication does not freeze its project.
MutableWhilePending(p) == Unlocked

\* A mutation of project p passes: BEGIN IMMEDIATE gets the write lock and no
\* publication of p is pending.
Mutable(p) == Unlocked /\ publication[p] = None

-----------------------------------------------------------------------------
(* Planning *)

\* Fault: the head is not consulted.
AcceptsAny(p, accepted) == TRUE

\* The accepted SHA a new goal names must be the project's baseline.
Accepts(p, accepted) == accepted = head[p].sha

\* plan_goal inserts the goal and its whole chain of nodes in one transaction.
PlanGoal(g, accepted) ==
  LET p == ProjectOf[g] IN
  /\ StaticIntegrity /\ Mutable(p)
  /\ \A n \in NodesOfGoal(g) : node[n].state = Absent
  /\ Accepts(p, accepted)
  /\ node' = [n \in Node |->
       IF n \notin NodesOfGoal(g) THEN node[n]
       ELSE [NoRow EXCEPT
               !.state = IF Dependencies[n] = {} THEN "READY" ELSE "BLOCKED",
               !.base = accepted]]
  /\ UNCHANGED <<artifacts, claims, ledger, published, writer, inflight>>

-----------------------------------------------------------------------------
(* Transitions *)

\* The row after one recorded transition.
Advanced(row, target) == [row EXCEPT !.state = target, !.version = @ + 1]

\* Fault: a lease given up also gives its attempt back.
Refunded(row) == [row EXCEPT !.lease = 0, !.ttl = 0, !.attempt = @ - 1]

Unleased(row) == [row EXCEPT !.lease = 0, !.ttl = 0]

\* _transition_locked: every target but LEASED and RUNNING gives the lease up.
Moved(row, target) ==
  IF target \in {"LEASED", "RUNNING"} THEN Advanced(row, target)
  ELSE Unleased(Advanced(row, target))

MayMove(n, target) ==
  /\ target \in Successors(node[n].state)
  /\ node[n].state = "EVALUATING" => ActiveClaims(n) = {}

MoveTo(n, target) ==
  /\ MayMove(n, target)
  /\ node' = [node EXCEPT ![n] = Moved(@, target)]

\* buzz_router: reject and cancel both end a node the table lets end.
Cancel(n) ==
  /\ StaticIntegrity /\ Mutable(ProjectOfNode(n))
  /\ MoveTo(n, "CANCELLED")
  /\ UNCHANGED <<artifacts, claims, ledger, published, writer, inflight>>

\* Fault: the table alone decides what may be resumed.
ResumeByTable(n) ==
  /\ StaticIntegrity /\ Mutable(ProjectOfNode(n))
  /\ MoveTo(n, "READY")
  /\ UNCHANGED <<artifacts, claims, ledger, published, writer, inflight>>

\* buzz_router: approve and resume both return a paused node to the queue.
Resume(n) ==
  /\ StaticIntegrity /\ Mutable(ProjectOfNode(n))
  /\ node[n].state = "NEEDS_HUMAN"
  /\ MoveTo(n, "READY")
  /\ UNCHANGED <<artifacts, claims, ledger, published, writer, inflight>>

-----------------------------------------------------------------------------
(* Worker leases *)

\* Fault: only equal paths collide.
SharedPath(S, T) == S \cap T # {}

\* Paths collide when they are equal or one is an ancestor of the other.
Overlap(S, T) == \E a \in S, b \in T : IsPrefix(a, b) \/ IsPrefix(b, a)

Holders(p) == {n \in NodesOf(p) : node[n].state \in {"LEASED", "RUNNING"}}

Leased(row, ttl) ==
  [Advanced(row, "LEASED") EXCEPT !.attempt = @ + 1, !.lease = row.attempt + 1,
                                  !.ttl = ttl]

Lease(n, ttl) ==
  /\ StaticIntegrity /\ Mutable(ProjectOfNode(n))
  /\ node[n].state = "READY" /\ node[n].attempt < MaxAttempt
  /\ \A m \in Holders(ProjectOfNode(n)) \ {n} : ~Overlap(WriteSet[n], WriteSet[m])
  /\ node' = [node EXCEPT ![n] = Leased(@, ttl)]
  /\ UNCHANGED <<artifacts, claims, ledger, published, writer, inflight>>

Start(n) ==
  /\ StaticIntegrity /\ Mutable(ProjectOfNode(n))
  /\ node[n].state = "LEASED" /\ LeaseIsLive(n)
  /\ MoveTo(n, "RUNNING")
  /\ UNCHANGED <<artifacts, claims, ledger, published, writer, inflight>>

\* The lease owner reports the end of a run; no exit makes it a success here.
Reconcile(n) ==
  /\ StaticIntegrity /\ Mutable(ProjectOfNode(n))
  /\ node[n].lease # 0
  /\ MoveTo(n, "READY")
  /\ UNCHANGED <<artifacts, claims, ledger, published, writer, inflight>>

\* Both heartbeats take the write lock, read the clock, find the lease or the
\* claim live, and only then write an expiry counted from that reading: time
\* passes and readers run in between, no writer does.
HeartbeatBegin(n, ttl) ==
  /\ StaticIntegrity /\ Mutable(ProjectOfNode(n))
  /\ node[n].state \in {"LEASED", "RUNNING"} /\ LeaseIsLive(n)
  /\ writer' = [kind |-> "lease", node |-> n, left |-> ttl]
  /\ UNCHANGED <<records, published, inflight>>

\* A claim heartbeat must extend the expiry it finds.
ClaimHeartbeatBegin(n, ttl) ==
  /\ StaticIntegrity /\ Mutable(ProjectOfNode(n))
  /\ node[n].state = "EVALUATING"
  /\ \E c \in LiveClaims(n) : ttl > c.left
  /\ writer' = [kind |-> "claim", node |-> n, left |-> ttl]
  /\ UNCHANGED <<records, published, inflight>>

HeartbeatCommit ==
  /\ ~Unlocked /\ writer.kind = "lease"
  /\ node' = [node EXCEPT ![writer.node].ttl = writer.left]
  /\ writer' = None
  /\ UNCHANGED <<artifacts, claims, ledger, published, inflight>>

ClaimHeartbeatCommit ==
  /\ ~Unlocked /\ writer.kind = "claim"
  /\ claims' = {IF c \in ActiveClaims(writer.node)
                THEN [c EXCEPT !.left = writer.left] ELSE c : c \in claims}
  /\ writer' = None
  /\ UNCHANGED <<node, artifacts, ledger, published, inflight>>

\* The transaction rolls back: an error, or the process dies.
HeartbeatAbort ==
  /\ ~Unlocked
  /\ writer' = None
  /\ UNCHANGED <<records, published, inflight>>

-----------------------------------------------------------------------------
(* Evidence ingress *)

\* The service reads the row, and builds the immutable generation from it,
\* before record_ingressed_evidence opens its transaction.
BeginIngest(n) ==
  /\ StaticIntegrity /\ publication[ProjectOfNode(n)] = None
  /\ Cardinality(ingesting) < MaxInFlight
  /\ node[n].state = "RUNNING" /\ LeaseIsLive(n)
  /\ ingesting' = ingesting \cup
       {[node |-> n, version |-> node[n].version,
         attempt |-> node[n].attempt, base |-> node[n].base]}
  /\ UNCHANGED <<records, published, writer, verifying, overdue, stale>>

\* register_artifact: one immutable artifact for each attempt, made by it.
Registrable(i) ==
  /\ i.attempt = node[i.node].attempt
  /\ \A a \in artifacts : a.node # i.node \/ a.attempt # i.attempt

\* Fault: the lease is checked when the row is read only.
AwaitsIngestLeased(i) ==
  node[i.node].state = "RUNNING" /\ node[i.node].version = i.version

\* The row is still the one the call read, and its lease still runs.
AwaitsIngest(i) ==
  /\ node[i.node].state = "RUNNING" /\ node[i.node].version = i.version
  /\ LeaseIsLive(i.node)

Evidenced(row, attempt) ==
  [Unleased(Advanced(row, "EVIDENCE_PENDING")) EXCEPT !.artifact = attempt]

CommitIngest(i) ==
  LET n == i.node IN
  /\ StaticIntegrity /\ Mutable(ProjectOfNode(n))
  /\ AwaitsIngest(i)
  /\ i.base = node[n].base
  /\ Registrable(i)
  /\ artifacts' = artifacts \cup
       {[node |-> n, attempt |-> i.attempt, base |-> i.base]}
  /\ node' = [node EXCEPT ![n] = Evidenced(@, i.attempt)]
  /\ ingesting' = ingesting \ {i}
  /\ UNCHANGED <<claims, ledger, published, writer, verifying, overdue, stale>>

AbandonIngest(i) ==
  /\ ingesting' = ingesting \ {i}
  /\ UNCHANGED <<records, published, writer, verifying, overdue, stale>>

-----------------------------------------------------------------------------
(* Evaluator claims *)

NewClaim(n, version, ttl) ==
  [node |-> n, attempt |-> node[n].artifact, version |-> version,
   status |-> "ACTIVE", left |-> ttl]

\* The claims after c has ended with this status.  Its expiry is history then.
Ended(c, status) == (claims \ {c}) \cup {[c EXCEPT !.status = status, !.left = 0]}

ClaimEvidence(n, ttl) ==
  /\ StaticIntegrity /\ Mutable(ProjectOfNode(n))
  /\ node[n].state = "EVIDENCE_PENDING"
  /\ node[n].attempt = node[n].artifact
  /\ node[n].version < MaxVersion
  /\ claims' = claims \cup {NewClaim(n, node[n].version, ttl)}
  /\ node' = [node EXCEPT ![n] = Advanced(@, "EVALUATING")]
  /\ UNCHANGED <<artifacts, ledger, published, writer, inflight>>

\* A claim request that finds an expired claim recovers it and takes the next
\* one in the same transaction.
ReclaimEvidence(n, ttl) ==
  /\ StaticIntegrity /\ Mutable(ProjectOfNode(n))
  /\ node[n].state = "EVALUATING"
  /\ node[n].version < MaxVersion
  /\ \E c \in ActiveClaims(n) :
       /\ c.version = node[n].version - 1 /\ c.left = 0
       /\ claims' = Ended(c, "EXPIRED") \cup {NewClaim(n, node[n].version + 1, ttl)}
  /\ node' = [node EXCEPT ![n].version = @ + 2]
  /\ UNCHANGED <<artifacts, ledger, published, writer, inflight>>

\* record_evaluation first reads the row, the claim and the ledger tail and
\* verifies the signed evaluation against them, outside any transaction.
VerifyEvaluation(n) ==
  /\ StaticIntegrity /\ publication[ProjectOfNode(n)] = None
  /\ Cardinality(verifying) < MaxInFlight
  /\ node[n].state = "EVALUATING" /\ node[n].attempt = node[n].artifact
  /\ \E c \in LiveClaims(n) :
       verifying' = verifying \cup
         {[node |-> n, attempt |-> c.attempt, version |-> c.version,
           previous |-> LedgerTail]}
  /\ UNCHANGED <<records, published, writer, ingesting, overdue, stale>>

\* Fault: the tail is checked when the evaluation is verified only.
TailAsVerified(e) == TRUE

\* The ledger tail the evaluator signed is still the tail.
TailUnmoved(e) == e.previous = LedgerTail

CommitEvaluation(e) ==
  LET n == e.node IN
  /\ Mutable(ProjectOfNode(n))
  /\ node[n].state = "EVALUATING" /\ node[n].version = e.version + 1
  /\ TailUnmoved(e)
  /\ node[n].artifact = e.attempt
  /\ \E c \in LiveClaims(n) : claims' = Ended(c, "EVALUATED")
  /\ ledger' = Append(ledger, e)
  /\ node' = [node EXCEPT ![n] = Advanced(@, "PASSED")]
  /\ verifying' = verifying \ {e}
  /\ UNCHANGED <<artifacts, published, writer, ingesting, overdue, stale>>

AbandonEvaluation(e) ==
  /\ verifying' = verifying \ {e}
  /\ UNCHANGED <<records, published, writer, ingesting, overdue, stale>>

DispositionTarget ==
  [RETRY |-> "READY", FAILED_GATE |-> "FAILED_GATE", NEEDS_HUMAN |-> "NEEDS_HUMAN"]

\* Only RETRY lets the artifact go.
Rejected(row, disposition) ==
  LET moved == Unleased(Advanced(row, DispositionTarget[disposition])) IN
  IF disposition = "RETRY" THEN [moved EXCEPT !.artifact = 0] ELSE moved

RejectEvidence(n, disposition) ==
  /\ StaticIntegrity /\ Mutable(ProjectOfNode(n))
  /\ node[n].state = "EVALUATING"
  /\ \E c \in LiveClaims(n) : claims' = Ended(c, "DISPOSED")
  /\ node' = [node EXCEPT ![n] = Rejected(@, disposition)]
  /\ UNCHANGED <<artifacts, ledger, published, writer, inflight>>

-----------------------------------------------------------------------------
(* Recovery *)

\* recover_evaluator_claims selects the expired claims, then recovers all of
\* them in one transaction or none.
ScanClaims ==
  /\ StaticIntegrity
  /\ overdue = {}
  /\ overdue' = {c \in claims : c.status = "ACTIVE" /\ c.left = 0}
  /\ UNCHANGED <<records, published, writer, ingesting, verifying, stale>>

\* Fault: the expiry the scan read is trusted.
RecoverableAsScanned(c) ==
  /\ publication[ProjectOfNode(c.node)] = None
  /\ node[c.node].state = "EVALUATING"
  /\ node[c.node].artifact = c.attempt
  /\ c.version = node[c.node].version - 1

\* _recover_claim_locked and expire_claim look at the rows again.
Recoverable(c) ==
  /\ publication[ProjectOfNode(c.node)] = None
  /\ node[c.node].state = "EVALUATING"
  /\ node[c.node].artifact = c.attempt
  /\ c.version = node[c.node].version - 1
  /\ \E d \in claims : SameClaim(c, d) /\ d.status = "ACTIVE" /\ d.left = 0

RecoverClaims ==
  /\ Unlocked
  /\ overdue # {}
  /\ \A c \in overdue : Recoverable(c)
  /\ claims' = {IF \E o \in overdue : SameClaim(c, o)
                THEN [c EXCEPT !.status = "EXPIRED", !.left = 0] ELSE c : c \in claims}
  /\ node' = [n \in Node |->
       IF \E o \in overdue : o.node = n
       THEN Advanced(node[n], "EVIDENCE_PENDING")
       ELSE node[n]]
  /\ overdue' = {}
  /\ UNCHANGED <<artifacts, ledger, published, writer, ingesting, verifying, stale>>

AbandonClaimRecovery ==
  /\ overdue # {}
  /\ overdue' = {}
  /\ UNCHANGED <<records, published, writer, ingesting, verifying, stale>>

\* Fault: a started worker's lease is left alone.
LapsedUnstarted(n, force) ==
  node[n].state = "LEASED" /\ (force \/ node[n].ttl = 0)

\* A held row whose lease is over, or any held row when recovery is forced.
Lapsed(n, force) ==
  node[n].state \in {"LEASED", "RUNNING"} /\ (force \/ node[n].ttl = 0)

\* recover_leases selects the rows to give back.
ScanLeases(force) ==
  /\ StaticIntegrity
  /\ stale = {}
  /\ stale' = {[node |-> n, version |-> node[n].version] :
                 n \in {m \in Node : Lapsed(m, force)}}
  /\ UNCHANGED <<records, published, writer, ingesting, verifying, overdue>>

\* One transaction for each row it selected.
RecoverLease(r) ==
  /\ StaticIntegrity /\ Mutable(ProjectOfNode(r.node))
  /\ node[r.node].version = r.version
  /\ MoveTo(r.node, "READY")
  /\ stale' = stale \ {r}
  /\ UNCHANGED <<artifacts, claims, ledger, published, writer,
                 ingesting, verifying, overdue>>

\* The row is not the one that was selected, or its project is frozen now.
Outdated(r) ==
  node[r.node].version # r.version \/ publication[ProjectOfNode(r.node)] # None

\* An outdated row raises, and the rest of the rows are dropped.
AbandonLeaseRecovery ==
  /\ stale # {}
  /\ stale' = {}
  /\ UNCHANGED <<records, published, writer, ingesting, verifying, overdue>>

-----------------------------------------------------------------------------
(* Publication: the coordinator's transactions on the graph *)

\* Every row bound to the commit the operation starts from.
Affected(p) == {n \in NodesOf(p) : node[n].base = head[p].sha}

AffectedGraph(p) == [n \in Node |-> IF n \in Affected(p) THEN node[n] ELSE NoRow]

BaselineCoherent(p) ==
  \A n \in NodesOf(p) : node[n].state # "INTEGRATED" => node[n].base = head[p].sha

\* Fault: a row is left alone by its worker and its evaluator, whatever it
\* waits for.
Unattended(n) == ActiveClaims(n) = {} /\ node[n].lease = 0

\* No row may be in work, hold a lease or a claim, or keep an artifact, unless
\* it was integrated before.
Quiescent(n) ==
  /\ node[n].state \notin {"LEASED", "RUNNING", "EVIDENCE_PENDING",
                           "EVALUATING", "PASSED", "INTEGRATING"}
  /\ ActiveClaims(n) = {} /\ node[n].lease = 0
  /\ node[n].state # "INTEGRATED" => node[n].artifact = 0

\* validate_recorded_outcome and the head check: the origin passed, on the
\* commit the head is at.
Promotable(n) ==
  /\ node[n].state = "PASSED"
  /\ [node |-> n, attempt |-> node[n].artifact, base |-> node[n].base] \in artifacts
  /\ node[n].base = head[ProjectOfNode(n)].sha

PreparePromotion(n) ==
  LET p == ProjectOfNode(n) IN
  /\ StaticIntegrity /\ Mutable(p)
  /\ Promotable(n)
  /\ BaselineCoherent(p)
  /\ ActiveClaims(n) = {} /\ node[n].lease = 0
  /\ \A m \in Affected(p) \ {n} : Quiescent(m)
  /\ publication' = [publication EXCEPT ![p] =
       [kind |-> "PROMOTION", node |-> n, graph |-> AffectedGraph(p)]]
  /\ UNCHANGED <<records, head, writer, inflight>>

\* Fault: the rebind is not recorded by an event of its own.
ReboundSilently(row, sha) ==
  IF row.state = "INTEGRATED" THEN row ELSE [row EXCEPT !.base = sha]

\* Rebinds one affected row to the commit the operation publishes.
Rebound(row, sha) ==
  IF row.state = "INTEGRATED" THEN row
  ELSE [row EXCEPT !.base = sha, !.version = @ + 1]

\* _release_dependencies_locked on a row that may just have been rebound.
Released(n, rows) ==
  IF /\ rows[n].state = "BLOCKED"
     /\ \A d \in Dependencies[n] : rows[d].state = "INTEGRATED"
  THEN Advanced(rows[n], "READY")
  ELSE rows[n]

\* PASSED -> INTEGRATING -> INTEGRATED in the completion transaction.
Integrated(row) == [row EXCEPT !.state = "INTEGRATED", !.version = @ + 2]

\* Every affected row still is what PREPARED recorded, or the operation
\* raises and stays pending.
CompletePromotion(p) ==
  /\ StaticIntegrity /\ Unlocked
  /\ publication[p] # None /\ publication[p].kind = "PROMOTION"
  /\ AffectedGraph(p) = publication[p].graph
  /\ LET origin  == publication[p].node
         sha     == Candidate(origin)
         rebound == [n \in Node |-> IF n = origin THEN Integrated(node[n])
                                    ELSE IF n \in Affected(p) THEN Rebound(node[n], sha)
                                    ELSE node[n]]
     IN /\ node' = [n \in Node |-> IF n \in NodesOf(p) THEN Released(n, rebound)
                                   ELSE node[n]]
        /\ head' = [head EXCEPT ![p] =
             [version |-> @.version + 1, sha |-> sha, origin |-> origin]]
  /\ publication' = [publication EXCEPT ![p] = None]
  /\ UNCHANGED <<artifacts, claims, ledger, writer, inflight>>

\* Only the promotion the head names can be taken back, once.
PrepareRollback(n) ==
  LET p == ProjectOfNode(n) IN
  /\ StaticIntegrity /\ Mutable(p)
  /\ node[n].state = "INTEGRATED"
  /\ head[p].origin = n /\ head[p].sha = Candidate(n)
  /\ BaselineCoherent(p)
  /\ \A m \in Affected(p) : Quiescent(m)
  /\ publication' = [publication EXCEPT ![p] =
       [kind |-> "ROLLBACK", node |-> n, graph |-> AffectedGraph(p)]]
  /\ UNCHANGED <<records, head, writer, inflight>>

\* Fault: a rollback returns to the project's first baseline.
FirstBaseline(n) == <<>>

\* The predecessor the origin's attempt recorded.
RollbackTarget(n) == node[n].base

\* The head goes back to the origin's base and still names the attempt.
CompleteRollback(p) ==
  /\ StaticIntegrity /\ Unlocked
  /\ publication[p] # None /\ publication[p].kind = "ROLLBACK"
  /\ AffectedGraph(p) = publication[p].graph
  /\ LET sha == RollbackTarget(publication[p].node)
     IN /\ node' = [n \in Node |-> IF n \in Affected(p) THEN Rebound(node[n], sha)
                                   ELSE node[n]]
        /\ head' = [head EXCEPT ![p] =
             [version |-> @.version + 1, sha |-> sha, origin |-> @.origin]]
  /\ publication' = [publication EXCEPT ![p] = None]
  /\ UNCHANGED <<artifacts, claims, ledger, writer, inflight>>

-----------------------------------------------------------------------------
(* Time *)

Less(t) == IF t > 0 THEN t - 1 ELSE 0

Tick ==
  /\ node' = [n \in Node |-> [node[n] EXCEPT !.ttl = Less(@)]]
  /\ claims' = {[c EXCEPT !.left = Less(@)] : c \in claims}
  /\ writer' = IF Unlocked THEN None ELSE [writer EXCEPT !.left = Less(@)]
  /\ UNCHANGED <<artifacts, ledger, published, inflight>>

-----------------------------------------------------------------------------
(* The system *)

Init ==
  /\ node = [n \in Node |-> NoRow]
  /\ artifacts = {} /\ claims = {} /\ ledger = <<>>
  /\ head = [p \in Project |-> [version |-> 0, sha |-> <<>>, origin |-> None]]
  /\ publication = [p \in Project |-> None]
  /\ writer = None
  /\ ingesting = {} /\ verifying = {} /\ overdue = {} /\ stale = {}

\* The commits a client can name as the accepted one.
KnownCommits == {head[p].sha : p \in Project} \cup {node[n].base : n \in Node}

Operator ==
  \/ \E g \in Goal, sha \in KnownCommits : PlanGoal(g, sha)
  \/ \E n \in Node : Cancel(n) \/ Resume(n)

Worker ==
  \/ \E n \in Node, ttl \in 1..MaxTTL : Lease(n, ttl) \/ HeartbeatBegin(n, ttl)
  \/ \E n \in Node : Start(n) \/ Reconcile(n) \/ BeginIngest(n)
  \/ \E i \in ingesting : CommitIngest(i) \/ AbandonIngest(i)
  \/ HeartbeatCommit

Evaluator ==
  \/ \E n \in Node, ttl \in 1..MaxTTL :
       \/ ClaimEvidence(n, ttl) \/ ReclaimEvidence(n, ttl)
       \/ ClaimHeartbeatBegin(n, ttl)
  \/ \E n \in Node : VerifyEvaluation(n)
  \/ \E n \in Node, d \in Dispositions : RejectEvidence(n, d)
  \/ \E e \in verifying : CommitEvaluation(e) \/ AbandonEvaluation(e)
  \/ ClaimHeartbeatCommit

Recovery ==
  \/ ScanClaims \/ RecoverClaims \/ AbandonClaimRecovery
  \/ \E force \in Forced : ScanLeases(force)
  \/ \E r \in stale : RecoverLease(r)
  \/ AbandonLeaseRecovery

Coordinator ==
  \/ \E n \in Node : PreparePromotion(n) \/ PrepareRollback(n)
  \/ \E p \in Project : CompletePromotion(p) \/ CompleteRollback(p)

Next ==
  \/ Operator \/ Worker \/ Evaluator \/ Recovery \/ Coordinator
  \/ HeartbeatAbort \/ Tick

Spec == Init /\ [][Next]_vars

-----------------------------------------------------------------------------
(* Types *)

Publication ==
  [kind : {"PROMOTION", "ROLLBACK"}, node : Node, graph : [Node -> Row]]

\* Every table holds rows of the shape the schema gives it.
TypeOK ==
  /\ node \in [Node -> Row]
  /\ artifacts \subseteq Artifact
  /\ claims \subseteq Claim
  /\ ledger \in Seq(LedgerEntry)
  /\ head \in [Project -> [version : Nat, sha : Commit, origin : Node \cup {None}]]
  /\ publication \in [Project -> Publication \cup {None}]
  /\ writer \in [kind : {"lease", "claim"}, node : Node, left : TTL] \cup {None}
  /\ ingesting \subseteq [node : Node, version : Nat, attempt : Nat, base : Commit]
  /\ verifying \subseteq LedgerEntry
  /\ overdue \subseteq Claim
  /\ stale \subseteq [node : Node, version : Nat]

-----------------------------------------------------------------------------
(* Safety *)

\* The program's own closure check of claims and evaluator ledger never fails
\* by what its operations do: an active claim always belongs to the evaluating
\* node at the version after it, and the ledger lists exactly the passed nodes,
\* each under its one evaluated claim, each naming the entry before it
\* (_assert_evaluation_integrity).
EvaluationClosed == ActiveClaimsClosed /\ LedgerClosed

\* A worker may write what a path of its write set names, and all below it.
MayWrite(S, path) == \E a \in S : IsPrefix(a, path)

Apart(S, T) == ~\E path \in S \cup T : MayWrite(S, path) /\ MayWrite(T, path)

\* There is no path that two leased workers of one repository may both write,
\* directly or through an ancestor directory (the conflict query of lease).
WriteSetsExclusive ==
  \A m, n \in Node :
    /\ m # n /\ ProjectOfNode(m) = ProjectOfNode(n)
    /\ node[m].lease # 0 /\ node[n].lease # 0
    => Apart(WriteSet[m], WriteSet[n])

\* While evidence is waited for, judged or passed, the artifact under judgement
\* was made by the node's current attempt on the node's current base: no
\* publication moves the base under it, and no late ingest lands on a later
\* attempt (record_ingressed_evidence, _assert_promotion_quiescent).
EvidenceBound ==
  \A n \in Node : node[n].state \in {"EVIDENCE_PENDING", "EVALUATING", "PASSED"} =>
    [node |-> n, attempt |-> node[n].attempt, base |-> node[n].base] \in artifacts

\* From PREPARED to COMPLETED nothing any client does changes a row the
\* operation recorded, so its completion is never refused
\* (_assert_project_has_no_pending_publication, "affected graph changed after
\* PREPARED").
PreparedGraphStands ==
  \A p \in Project :
    publication[p] # None => AffectedGraph(p) = publication[p].graph

\* Every node of a project that is not integrated works on the project's
\* published commit, through every plan, promotion and rollback
\* (_assert_project_graph_baseline_coherent).
BaselineShared == \A p \in Project : BaselineCoherent(p)

\* A node leaves BLOCKED for work only when all it depends on was integrated
\* (_release_dependencies_locked).
DependenciesIntegrated ==
  \A n \in Node : node[n].state \notin {Absent, "BLOCKED", "CANCELLED"} =>
    \A d \in Dependencies[n] : node[d].state = "INTEGRATED"

-----------------------------------------------------------------------------
(* Action properties *)

Edge(s, t) == t \in Successors(s) \/ <<s, t>> \in ExceptionalTransitions

\* Every durable change of a row but a new expiry is recorded by as many events
\* as its version advances, each along an edge the event chain accepts
\* (_event, verify_event_chain).  The compare-and-swap on versions that every
\* two-phase operation relies on is sound because of it.
RecordedChange(n) ==
  LET old == node[n]
      new == node'[n]
  IN \/ [old EXCEPT !.ttl = 0] = [new EXCEPT !.ttl = 0]
     \/ old.state = Absent /\ new.state \in InitialNodeStates /\ new.version = 0
     \/ new.version = old.version + 1 /\ Edge(old.state, new.state)
     \/ /\ new.version = old.version + 2
        /\ \E s \in KnownNodeStates : Edge(old.state, s) /\ Edge(s, new.state)

ChangesRecorded == [][\A n \in Node : RecordedChange(n)]_vars

\* An artifact is registered only while the lease of the attempt that made it
\* still runs, on the base the attempt was given, however long its generation
\* took to build (record_ingressed_evidence).
IngestUnderLiveLease ==
  [][\A a \in artifacts' \ artifacts :
       /\ node[a.node].lease = a.attempt /\ node[a.node].ttl > 0
       /\ node[a.node].base = a.base]_vars

\* A PASS is recorded only while the claim it was verified under is still
\* active and unexpired, whatever happened since the verification
\* (record_evaluation's second get_active_claim).
PassUnderLiveClaim ==
  [][ledger' # ledger =>
       \E c \in claims :
         LET e == ledger'[Len(ledger')] IN
         /\ c.node = e.node /\ c.attempt = e.attempt /\ c.version = e.version
         /\ c.status = "ACTIVE" /\ c.left > 0]_vars

\* A claim its evaluator keeps alive is never expired, by recovery or by the
\* next claimant, even when a scan saw it expired before the heartbeat landed
\* (expire_claim reads the expiry again).
LiveClaimKept ==
  [][\A c \in claims : c.status = "ACTIVE" /\ c.left > 0 =>
       ~\E d \in claims' : SameClaim(c, d) /\ d.status = "EXPIRED"]_vars

-----------------------------------------------------------------------------
(* The accepted line this graph implements *)

Undoable(p) ==
  IF head[p].sha # <<>> /\ head[p].sha[Len(head[p].sha)] = head[p].origin
  THEN head[p].origin ELSE None

Line == INSTANCE AcceptedLine WITH
  LineOf     <- [n \in Node |-> ProjectOfNode(n)],
  ChangeOf   <- [n \in Node |-> n],
  line       <- [p \in Project |-> head[p].sha],
  judged     <- {[node |-> a.node, base |-> a.base] :
                   a \in {b \in artifacts : \E i \in DOMAIN ledger :
                            ledger[i].node = b.node /\ ledger[i].attempt = b.attempt}},
  integrated <- {n \in Node : node[n].state = "INTEGRATED"},
  undo       <- [p \in Project |-> Undoable(p)]

\* What reaches a project's baseline was judged once, on the very commit it is
\* added to, and only the last promotion is ever undone.
LineSpec == Line!Spec

-----------------------------------------------------------------------------
(* Liveness *)

\* Start-up and the root operator repeat recovery and the completion of what
\* was prepared until they succeed; an SQLite transaction ends; time passes.
\* Nothing is assumed of workers, the evaluator or the operator.
\*
\* A transaction takes milliseconds, a lease at least ten seconds, and a call
\* waits for the write lock: from some time on no lease runs out inside a
\* heartbeat, and a recovery fails only over an outdated row or claim.
Prompt ==
  <>[][/\ Tick => writer = None
       /\ AbandonClaimRecovery => \E c \in overdue : ~Recoverable(c)
       /\ AbandonLeaseRecovery => \E r \in stale : Outdated(r)]_vars

RecoveryFairness ==
  /\ Prompt
  /\ WF_vars(Tick)
  /\ WF_vars(HeartbeatCommit) /\ WF_vars(ClaimHeartbeatCommit)
  /\ WF_vars(ScanClaims) /\ SF_vars(RecoverClaims) /\ WF_vars(AbandonClaimRecovery)
  /\ WF_vars(\E force \in Forced : ScanLeases(force))
  /\ \A n \in Node : SF_vars(\E r \in stale : r.node = n /\ RecoverLease(r))
  /\ WF_vars(AbandonLeaseRecovery)
  /\ \A p \in Project : /\ SF_vars(CompletePromotion(p))
                        /\ SF_vars(CompleteRollback(p))

FairSpec == Spec /\ RecoveryFairness

\* A lease that ran out does not hold its node for ever, and neither does an
\* expired claim.
ExpiredHoldEnds ==
  /\ \A n \in Node : []<>(node[n].lease = 0 \/ node[n].ttl > 0)
  /\ \A n \in Node : []<>(\A c \in ActiveClaims(n) : c.left > 0)

\* A project does not stay frozen: what was prepared is completed.
PublicationEnds == \A p \in Project : []<>(publication[p] = None)

\* Every stage of the pipeline that can run does: the coordinator too.
PipelineFairness ==
  /\ RecoveryFairness
  /\ \A n \in Node :
       /\ WF_vars(\E ttl \in 1..MaxTTL : Lease(n, ttl)) /\ WF_vars(Start(n))
       /\ WF_vars(BeginIngest(n))
       /\ WF_vars(\E i \in ingesting : i.node = n /\ CommitIngest(i))
       /\ WF_vars(\E ttl \in 1..MaxTTL : ClaimEvidence(n, ttl))
       /\ WF_vars(VerifyEvaluation(n))
       /\ WF_vars(\E e \in verifying : e.node = n /\ CommitEvaluation(e))
       /\ SF_vars(PreparePromotion(n))

PipelineSpec == Spec /\ PipelineFairness

\* Of two nodes of one repository that have both passed, one is integrated.
PassedPeersProgress ==
  \A m, n \in Node : m # n /\ ProjectOfNode(m) = ProjectOfNode(n) =>
    (node[m].state = "PASSED" /\ node[n].state = "PASSED")
      ~> (node[m].state = "INTEGRATED" \/ node[n].state = "INTEGRATED")

\* A node that passed is integrated although another one failed its gate.
PassedBesideFailedProgress ==
  \A m, n \in Node : m # n /\ ProjectOfNode(m) = ProjectOfNode(n) =>
    (node[m].state = "PASSED" /\ node[n].state = "FAILED_GATE")
      ~> node[m].state = "INTEGRATED"
=============================================================================
