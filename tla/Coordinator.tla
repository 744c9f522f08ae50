---------------------------- MODULE Coordinator -----------------------------
(***************************************************************************)
(* The physical publication of one project: project_coordinator.py and     *)
(* project_integrator.py between the transaction that prepares a promotion *)
(* or a rollback and the one that completes it.                            *)
(*                                                                         *)
(* A publication changes three things that no transaction spans: the       *)
(* accepted Git ref, the binding file that workers read, and the database. *)
(* Each durable change is an action of its own, and a call can be cut off  *)
(* between any two (Abort).  What it left is finished, or found to have    *)
(* had no effect, by a repeated request or by the next start-up.           *)
(*                                                                         *)
(* Of the goal graph the module keeps what the publication looks at: which *)
(* nodes have passed and which are integrated (see ProjectGraph).  A       *)
(* commit is the sequence of changes put onto the first baseline; two      *)
(* nodes may make the same change, and so produce the same commit.         *)
(***************************************************************************)
EXTENDS Naturals, Sequences, FiniteSetsExt

CONSTANTS
  Node,
  Caller,    \* threads and processes that call the coordinator
  Change,
  ChangeOf,  \* [Node -> Change], the one commit a node's evidence holds
  None

ASSUME PublicationAssumption ==
  /\ ChangeOf \in [Node -> Change]
  /\ None \notin Node \cup Caller \cup Seq(Change)

VARIABLES
  \* the database
  state,      \* [Node -> READY, PASSED, INTEGRATED]
  attempt,    \* integration_attempts, one of a node, or NoAttempt
  journal,    \* publication_journal
  head,       \* publication_heads; version 0 stands for no row
  \* outside the database
  generation, \* the commits that have an immutable worktree
  accepted,   \* the accepted ref, or None
  rollbackRef, \* the rollback refs: commit and predecessor
  binding,    \* base_sha of the binding file
  \* the calls in progress
  call,       \* [Caller -> where a call is and what it has read]
  writer      \* who holds the publication writer lock, or None

database == <<state, attempt, journal, head>>
physical == <<generation, accepted, rollbackRef, binding>>
vars == <<state, attempt, journal, head, generation, accepted, rollbackRef,
          binding, call, writer>>

-----------------------------------------------------------------------------
(* Records *)

NoAttempt == [status |-> "NONE"]
Idle == [pc |-> "idle"]

Baseline == <<>>

\* The rows a publication would rebind or looks at: those on the head's commit.
OnHead(n) == IF state[n] = "INTEGRATED" THEN attempt[n].graph.head.sha = head.sha
                                        ELSE TRUE

\* _promotion_affected_graph, _rollback_affected_graph
AffectedGraph ==
  [head |-> head, rows |-> [n \in {m \in Node : OnHead(m)} |-> state[n]]]

Base(n) == attempt[n].graph.head.sha
Candidate(n) == Append(Base(n), ChangeOf[n])

RollbackOf(c) == {r.to : r \in {s \in rollbackRef : s.of = c}}

\* _journal_entries of a rollback, by their sequence numbers
Rollback(n) == {i \in DOMAIN journal : journal[i].kind = "ROLLBACK" /\ journal[i].node = n}
Prepared(n) == journal[Min(Rollback(n))]
Phase(n)    == journal[Max(Rollback(n))].phase

PendingPromotions == {n \in Node : attempt[n].status \in {"PREPARED", "BINDING_UPDATED"}}
PendingRollbacks  == {n \in Node : Rollback(n) # {} /\ Phase(n) # "COMPLETED"}
Pending == PendingPromotions \cup PendingRollbacks

\* Fault: peers are not looked at.
NeverBusy(origin) == TRUE

\* _assert_promotion_quiescent, _assert_quiescent_affected_graph
Quiescent(origin) == \A m \in Node \ origin : OnHead(m) => state[m] # "PASSED"

-----------------------------------------------------------------------------
(* The integrity check in front of every operation *)

Completed == {i \in DOMAIN journal : journal[i].phase = "COMPLETED"}

\* The head that a completed entry leaves, and the head before there is one.
HeadAfter(e) == [version |-> e.graph.head.version + 1, sha |-> e.to, attempt |-> e.node]
NoHead == [version |-> 0, sha |-> Baseline, attempt |-> None]
HeadOf(entries) == IF entries = {} THEN NoHead ELSE HeadAfter(journal[Max(entries)])

\* Where a pending operation may have left the accepted ref and the binding.
Reached(before, after) == {<<before, before>>, <<after, before>>, <<after, after>>}

PromotionFits(n) ==
  /\ <<accepted, binding>> \in
       IF attempt[n].status = "PREPARED"
       THEN Reached(Base(n), Candidate(n)) \cup
              (IF head.version = 0 THEN {<<None, Base(n)>>} ELSE {})
       ELSE {<<Candidate(n), Candidate(n)>>}
  /\ Candidate(n) \in {accepted, binding} => Candidate(n) \in generation

RollbackFits(n) ==
  LET before == Prepared(n).graph.head.sha  after == Prepared(n).to IN
  /\ RollbackOf(before) = {after}
  /\ <<accepted, binding>> \in
       IF Phase(n) = "PREPARED" THEN Reached(before, after) ELSE {<<after, after>>}
  /\ after \in generation

HeadFits ==
  /\ binding = head.sha
  /\ accepted = head.sha \/ (head.version = 0 /\ accepted = None)

\* _assert_physical_publication_integrity
PhysicalIntegrity ==
  /\ Cardinality(PendingPromotions) + Cardinality(PendingRollbacks) <= 1
  /\ head.version > 0 => head.sha \in generation
  /\ \A n \in PendingPromotions : PromotionFits(n)
  /\ \A n \in PendingRollbacks : RollbackFits(n)
  /\ Pending = {} => HeadFits

\* The completed entries of a project follow each other, and the head is the
\* last of them.
Continuous ==
  /\ \A i \in Completed : journal[i].graph.head = HeadOf({j \in Completed : j < i})
  /\ head = HeadOf(Completed)

\* _assert_completed_database_closure
Closure ==
  /\ \A i \in Completed :
       LET e == journal[i]  n == e.node IN
       /\ attempt[n].status = "COMPLETED" /\ state[n] = "INTEGRATED"
       /\ IF e.kind = "PROMOTION"
          THEN e.graph = attempt[n].graph /\ e.to = Candidate(n)
          ELSE /\ e.graph.head.attempt = n
               /\ e.graph.head.sha = Candidate(n) /\ e.to = Base(n)
  /\ \A n \in Node : attempt[n].status = "COMPLETED" =>
       Cardinality({i \in Completed :
                      journal[i].kind = "PROMOTION" /\ journal[i].node = n}) = 1
  /\ \A n \in Node : state[n] = "INTEGRATED" => attempt[n].status = "COMPLETED"

Phases == <<"PREPARED", "PUBLISHED", "COMPLETED">>

\* assert_graph_publication_integrity
JournalIntegrity ==
  /\ \A n \in Node : \A i \in Rollback(n) :
       journal[i] = [Prepared(n) EXCEPT
         !.phase = Phases[Cardinality({j \in Rollback(n) : j <= i})]]
  /\ \A n \in PendingRollbacks : Prepared(n).graph.head = head
  /\ Continuous
  /\ Closure

\* assert_publication_integrity
Integrity == PhysicalIntegrity /\ JournalIntegrity

-----------------------------------------------------------------------------
(* Calls *)

At(c, pc) == call[c].pc = pc
Return(c) == call' = [call EXCEPT ![c] = Idle]
Goto(c, pc) ==
  call' = [call EXCEPT ![c] = IF pc = "idle" THEN Idle ELSE [pc |-> pc, node |-> @.node]]

\* _publication_writer_lock: BEGIN IMMEDIATE on a connection of its own.
Lock(c, pc) == writer = None /\ writer' = c /\ Goto(c, pc)
Unlock(c, pc) == writer' = None /\ Goto(c, pc)

\* _assert_prepared_promotion_ready: nothing moved since PREPARED.
PromotionReady(n) == AffectedGraph = attempt[n].graph /\ Quiescent({n})

\* A change made inside the lock to what is outside the database.
Holds(c, pc) == At(c, pc) /\ writer = c

-----------------------------------------------------------------------------
(* Promotion: integrate and reconcile *)

\* ProjectGraph judges a node against the commit all unfinished rows share, and
\* not while a publication of the project is pending.
Judge(n) ==
  /\ Pending = {} /\ state[n] = "READY"
  /\ state' = [state EXCEPT ![n] = "PASSED"]
  /\ UNCHANGED <<attempt, journal, head, physical, call, writer>>

\* A request for a node nobody has tried to promote reads the head's version.
Admit(c, n) ==
  /\ At(c, "idle") /\ Integrity
  /\ attempt[n] = NoAttempt /\ state[n] = "PASSED"
  /\ call' = [call EXCEPT ![c] = [pc |-> "preparing", node |-> n, version |-> head.version]]
  /\ UNCHANGED <<database, physical, writer>>

\* _prepare_attempt.  Another call may have prepared the same attempt since.
PrepareAttempt(c, n) ==
  /\ At(c, "preparing") /\ call[c].node = n /\ writer = None
  /\ \/ /\ attempt[n] = NoAttempt
        /\ Integrity /\ Pending = {}
        /\ head.version = call[c].version
        /\ Quiescent({n})
        /\ attempt' = [attempt EXCEPT ![n] = [status |-> "PREPARED", graph |-> AffectedGraph]]
        /\ Goto(c, "publishing")
     \/ /\ attempt[n] # NoAttempt
        /\ attempt[n].graph.head.version = call[c].version
        /\ IF attempt[n].status = "COMPLETED" THEN Return(c) ELSE Goto(c, "publishing")
        /\ UNCHANGED attempt
  /\ UNCHANGED <<state, journal, head, physical, writer>>

\* Fault: an attempt whose binding was updated is recovered like a new one.
RecoveringAny(n, then) == [pc |-> "recovering", node |-> n, then |-> then]

\* What reconcile reads of the attempt before it takes the writer lock.  If it
\* finds that nothing has happened yet the call goes on at "then".
Recovering(n, then) ==
  [pc   |-> IF attempt[n].status = "PREPARED" THEN "recovering" ELSE "finalizing",
   node |-> n, then |-> then]

\* A request for a node with an unfinished attempt, or start-up, reconciles first.
Reconcile(c, n, then) ==
  /\ At(c, "idle") /\ Integrity
  /\ n \in PendingPromotions
  /\ call' = [call EXCEPT ![c] = Recovering(n, then)]
  /\ UNCHANGED <<database, physical, writer>>

\* Fault: a repeated request takes a recorded attempt for a finished one.
RetryReturns(c, n) ==
  /\ At(c, "retrying") /\ call[c].node = n /\ writer = None
  /\ Return(c)
  /\ UNCHANGED <<database, physical, writer>>

\* integrate meets the attempt again in _prepare_attempt and reconciles once more.
Retry(c, n) ==
  /\ At(c, "retrying") /\ call[c].node = n /\ writer = None
  /\ IF attempt[n].status = "COMPLETED" THEN Return(c)
     ELSE call' = [call EXCEPT ![c] = Recovering(n, "publishing")]
  /\ UNCHANGED <<database, physical, writer>>

\* reconcile_promotion.  The accepted ref decides whether the promotion happened.
RecoverNothing(c, n) ==
  /\ At(c, "recovering") /\ call[c].node = n /\ writer = None
  /\ Integrity /\ PromotionReady(n)
  /\ Candidate(n) \notin {accepted, binding}
  /\ Goto(c, call[c].then)
  /\ UNCHANGED <<database, physical, writer>>

RecoverPromotion(c, n) ==
  /\ At(c, "recovering") /\ call[c].node = n
  /\ Integrity /\ PromotionReady(n)
  /\ accepted = Candidate(n) /\ binding \in {Base(n), Candidate(n)}
  /\ Lock(c, "binding")
  /\ generation' = generation \cup {Candidate(n)}
  /\ UNCHANGED <<database, accepted, rollbackRef, binding>>

\* Fault: start-up is trusted to have made the generation of the base.
BeginWithoutBase(c, n) ==
  /\ At(c, "publishing") /\ call[c].node = n
  /\ Integrity /\ PromotionReady(n) /\ state[n] = "PASSED"
  /\ Lock(c, "generation")
  /\ UNCHANGED <<database, physical>>

\* _promote_locked: its checks and the base generation, then each later change.
BeginPromotion(c, n) ==
  /\ At(c, "publishing") /\ call[c].node = n
  /\ Integrity /\ PromotionReady(n) /\ state[n] = "PASSED"
  /\ binding \in {Base(n), Candidate(n)}
  /\ accepted \in {None, Base(n), Candidate(n)}
  /\ Lock(c, "generation")
  /\ generation' = generation \cup {Base(n)}
  /\ UNCHANGED <<database, accepted, rollbackRef, binding>>

EnsureCandidate(c, n) ==
  /\ Holds(c, "generation") /\ call[c].node = n
  /\ generation' = generation \cup {Candidate(n)}
  /\ Goto(c, IF accepted = None THEN "first ref" ELSE "rollback ref")
  /\ UNCHANGED <<database, accepted, rollbackRef, binding, writer>>

CreateAccepted(c, n) ==
  /\ Holds(c, "first ref") /\ call[c].node = n
  /\ accepted' = Base(n)
  /\ Goto(c, "rollback ref")
  /\ UNCHANGED <<database, generation, rollbackRef, binding, writer>>

\* Fault: only the first promotion of all saves its predecessor.
SaveFirstRollbackRef(c, n) ==
  /\ Holds(c, "rollback ref") /\ call[c].node = n
  /\ rollbackRef' = IF rollbackRef # {} THEN rollbackRef
                    ELSE {[of |-> Candidate(n), to |-> Base(n)]}
  /\ Goto(c, "accepted ref")
  /\ UNCHANGED <<database, generation, accepted, binding, writer>>

SaveRollbackRef(c, n) ==
  /\ Holds(c, "rollback ref") /\ call[c].node = n
  /\ RollbackOf(Candidate(n)) \subseteq {Base(n)}
  /\ rollbackRef' = rollbackRef \cup {[of |-> Candidate(n), to |-> Base(n)]}
  /\ Goto(c, "accepted ref")
  /\ UNCHANGED <<database, generation, accepted, binding, writer>>

AdvanceAccepted(c, n) ==
  /\ Holds(c, "accepted ref") /\ call[c].node = n
  /\ accepted' = Candidate(n)
  /\ Goto(c, "binding")
  /\ UNCHANGED <<database, generation, rollbackRef, binding, writer>>

AdvanceBinding(c, n) ==
  /\ Holds(c, "binding") /\ call[c].node = n
  /\ binding' = Candidate(n)
  /\ Goto(c, "marking")
  /\ UNCHANGED <<database, generation, accepted, rollbackRef, writer>>

\* The one write of the locked transaction, and its commit.
MarkBound(c, n) ==
  /\ Holds(c, "marking") /\ call[c].node = n
  /\ attempt[n].status = "PREPARED"
  /\ attempt' = [attempt EXCEPT ![n].status = "BINDING_UPDATED"]
  /\ Unlock(c, "finalizing")
  /\ UNCHANGED <<state, journal, head, physical>>

Entry(kind, n, phase, to, graph) ==
  [kind |-> kind, node |-> n, phase |-> phase, to |-> to, graph |-> graph]

\* _finalize_promotion: node, journal, head and attempt in one transaction.
FinalizePromotion(c, n) ==
  /\ At(c, "finalizing") /\ call[c].node = n /\ writer = None
  /\ Integrity
  /\ attempt[n].status = "BINDING_UPDATED"
  /\ PromotionReady(n) /\ state[n] = "PASSED"
  /\ state' = [state EXCEPT ![n] = "INTEGRATED"]
  /\ journal' = Append(journal,
       Entry("PROMOTION", n, "COMPLETED", Candidate(n), attempt[n].graph))
  /\ head' = [version |-> head.version + 1, sha |-> Candidate(n), attempt |-> n]
  /\ attempt' = [attempt EXCEPT ![n].status = "COMPLETED"]
  /\ Return(c)
  /\ UNCHANGED <<physical, writer>>

-----------------------------------------------------------------------------
(* Rollback *)

\* Fault: the head is recognised by its commit, not by the attempt it names.
PrepareRollbackOfCommit(c, n) ==
  /\ At(c, "idle") /\ writer = None /\ Integrity /\ Pending = {}
  /\ Rollback(n) = {} /\ attempt[n].status = "COMPLETED"
  /\ head.sha = Candidate(n) /\ Quiescent({})
  /\ journal' = Append(journal,
       Entry("ROLLBACK", n, "PREPARED", Base(n), AffectedGraph))
  /\ call' = [call EXCEPT ![c] = [pc |-> "undoing", node |-> n]]
  /\ UNCHANGED <<state, attempt, head, physical, writer>>

\* rollback, up to its PREPARED entry.  The head must name this very attempt.
PrepareRollback(c, n) ==
  /\ At(c, "idle") /\ writer = None
  /\ Integrity /\ Pending = {}
  /\ Rollback(n) = {}
  /\ attempt[n].status = "COMPLETED" /\ state[n] = "INTEGRATED"
  /\ head.attempt = n /\ head.sha = Candidate(n)
  /\ Quiescent({})
  /\ Base(n) \in generation
  /\ journal' = Append(journal,
       Entry("ROLLBACK", n, "PREPARED", Base(n), AffectedGraph))
  /\ call' = [call EXCEPT ![c] = [pc |-> "undoing", node |-> n]]
  /\ UNCHANGED <<state, attempt, head, physical, writer>>

\* A repeated request, or start-up, takes up a prepared rollback.
ReconcileRollback(c, n) ==
  /\ At(c, "idle") /\ Integrity
  /\ n \in PendingRollbacks /\ head.attempt = n
  /\ call' = [call EXCEPT ![c] = [pc |-> "undoing", node |-> n]]
  /\ UNCHANGED <<database, physical, writer>>

\* _assert_prepared_affected_graph and the comparison with the head.
RollbackReady(n) == AffectedGraph = Prepared(n).graph /\ Quiescent({})

From(n) == Prepared(n).graph.head.sha
To(n)   == Prepared(n).to

\* ProjectIntegrator.reconcile_rollback: its checks and the generation, then each
\* later change.
BeginRollback(c, n) ==
  /\ At(c, "undoing") /\ call[c].node = n
  /\ Integrity /\ RollbackReady(n)
  /\ RollbackOf(From(n)) = {To(n)}
  /\ {accepted, binding} \subseteq {From(n), To(n)}
  /\ accepted = From(n) => binding = From(n)
  /\ Lock(c, "undo ref")
  /\ generation' = generation \cup {To(n)}
  /\ UNCHANGED <<database, accepted, rollbackRef, binding>>

ReturnAccepted(c, n) ==
  /\ Holds(c, "undo ref") /\ call[c].node = n
  /\ accepted' = To(n)
  /\ Goto(c, "undo binding")
  /\ UNCHANGED <<database, generation, rollbackRef, binding, writer>>

ReturnBinding(c, n) ==
  /\ Holds(c, "undo binding") /\ call[c].node = n
  /\ binding' = To(n)
  /\ Goto(c, "undo marking")
  /\ UNCHANGED <<database, generation, accepted, rollbackRef, writer>>

\* Fault: the PUBLISHED entry is appended by every call that gets here.
MarkPublishedAgain(c, n) ==
  /\ Holds(c, "undo marking") /\ call[c].node = n
  /\ JournalIntegrity
  /\ journal' = Append(journal, [Prepared(n) EXCEPT !.phase = "PUBLISHED"])
  /\ Unlock(c, "completing")
  /\ UNCHANGED <<state, attempt, head, physical>>

\* The PUBLISHED entry, once, and the commit of the locked transaction.
MarkPublished(c, n) ==
  /\ Holds(c, "undo marking") /\ call[c].node = n
  /\ JournalIntegrity
  /\ journal' = IF Phase(n) # "PREPARED" THEN journal
                ELSE Append(journal, [Prepared(n) EXCEPT !.phase = "PUBLISHED"])
  /\ Unlock(c, "completing")
  /\ UNCHANGED <<state, attempt, head, physical>>

\* _complete_rollback: journal and head in one transaction.
CompleteRollback(c, n) ==
  /\ At(c, "completing") /\ call[c].node = n /\ writer = None
  /\ Integrity
  /\ attempt[n].status = "COMPLETED" /\ state[n] = "INTEGRATED"
  /\ RollbackReady(n)
  /\ journal' = Append(journal, [Prepared(n) EXCEPT !.phase = "COMPLETED"])
  /\ head' = [version |-> head.version + 1, sha |-> To(n), attempt |-> n]
  /\ Return(c)
  /\ UNCHANGED <<state, attempt, physical, writer>>

-----------------------------------------------------------------------------
(* Start-up and failure *)

\* ensure_bound_publication, the last step of start-up before leases.
EnsureBound ==
  /\ writer = None /\ Integrity
  /\ accepted \in {None, binding}
  /\ generation' = generation \cup {binding}
  /\ UNCHANGED <<database, accepted, rollbackRef, binding, call, writer>>

\* Fault: a call that raises leaves the writer lock behind.
AbortInsideLock(c) ==
  /\ ~At(c, "idle") /\ Return(c)
  /\ UNCHANGED <<database, physical, writer>>

\* The process dies, or the call raises: its transaction and locks are gone,
\* what it did outside the database stays.
Abort(c) ==
  /\ ~At(c, "idle")
  /\ Return(c)
  /\ writer' = IF writer = c THEN None ELSE writer
  /\ UNCHANGED <<database, physical>>

Init ==
  /\ state = [n \in Node |-> "READY"]
  /\ attempt = [n \in Node |-> NoAttempt]
  /\ journal = <<>>
  /\ head = NoHead
  /\ generation = {} /\ accepted = None /\ rollbackRef = {}
  /\ binding = Baseline
  /\ call = [c \in Caller |-> Idle] /\ writer = None

Promotion(c, n) ==
  \/ Admit(c, n) \/ PrepareAttempt(c, n)
  \/ Reconcile(c, n, "retrying") \/ Reconcile(c, n, "idle")
  \/ Retry(c, n) \/ RecoverNothing(c, n) \/ RecoverPromotion(c, n)
  \/ BeginPromotion(c, n) \/ EnsureCandidate(c, n)
  \/ CreateAccepted(c, n) \/ SaveRollbackRef(c, n) \/ AdvanceAccepted(c, n)
  \/ AdvanceBinding(c, n) \/ MarkBound(c, n) \/ FinalizePromotion(c, n)

Undoing(c, n) ==
  \/ PrepareRollback(c, n) \/ ReconcileRollback(c, n) \/ BeginRollback(c, n)
  \/ ReturnAccepted(c, n) \/ ReturnBinding(c, n)
  \/ MarkPublished(c, n) \/ CompleteRollback(c, n)

Next ==
  \/ \E n \in Node : Judge(n)
  \/ \E c \in Caller : \E n \in Node : Promotion(c, n) \/ Undoing(c, n)
  \/ \E c \in Caller : Abort(c)
  \/ EnsureBound

Spec == Init /\ [][Next]_vars

-----------------------------------------------------------------------------
(* Properties *)

CommitOf == Seq(Change)
HeadRow == [version : Nat, sha : CommitOf, attempt : Node \cup {None}]
GraphOf == [head : HeadRow,
            rows : UNION {[M -> {"READY", "PASSED", "INTEGRATED"}] : M \in SUBSET Node}]
AttemptRow == [status : {"PREPARED", "BINDING_UPDATED", "COMPLETED"}, graph : GraphOf]
JournalRow ==
  [kind : {"PROMOTION", "ROLLBACK"}, node : Node,
   phase : {"PREPARED", "PUBLISHED", "COMPLETED"}, to : CommitOf, graph : GraphOf]

\* Where a call holds the writer lock, and where it does not.
Locked == {"generation", "first ref", "rollback ref", "accepted ref", "binding",
           "marking", "undo ref", "undo binding", "undo marking"}
Loose == {"publishing", "retrying", "finalizing", "undoing", "completing"}

InCall ==
  [pc : {"preparing"}, node : Node, version : Nat]
    \cup [pc : {"recovering", "finalizing"}, node : Node,
          then : {"publishing", "retrying", "idle"}]
    \cup [pc : Locked \cup Loose, node : Node]

\* Every table and every file holds values of its shape; only a call that is in
\* the middle of a locked transaction holds the writer lock.
TypeOK ==
  /\ state \in [Node -> {"READY", "PASSED", "INTEGRATED"}]
  /\ attempt \in [Node -> AttemptRow \cup {NoAttempt}]
  /\ journal \in Seq(JournalRow)
  /\ head \in HeadRow
  /\ generation \subseteq CommitOf /\ binding \in CommitOf
  /\ accepted \in CommitOf \cup {None}
  /\ rollbackRef \subseteq [of : CommitOf, to : CommitOf]
  /\ call \in [Caller -> InCall \cup {Idle}]
  /\ writer \in Caller \cup {None}
  /\ \A c \in Caller : call[c].pc \in Locked <=> writer = c

\* Wherever calls are cut off, and whoever takes up what they left, the ref, the
\* binding and the journal are in a state the next integrity check accepts: the
\* project never ends up refusing every operation.
NeverLocksOut == PhysicalIntegrity

\* The journal, the attempts, the nodes and the head tell one story: every
\* completed entry follows the one before it, every promotion completed once, and
\* a rollback has its phases once and in order.
HistoryClosed == JournalIntegrity

\* A rollback in progress is of the attempt the head names, and the head stands:
\* no old request undoes a later promotion of the same commit.
RollbackOwnsHead ==
  \A n \in PendingRollbacks : head.attempt = n /\ head.sha = Candidate(n)

\* A worker reads the binding and then opens the generation it names; a recovery
\* does the same with the accepted ref.  Once there is an accepted ref, both name
\* a generation that is complete.
GenerationFirst == accepted # None => {accepted, binding} \subseteq generation

\* The accepted line as workers see it, through the binding: what a promotion
\* has put there counts although the database does not know yet.
Moved == {n \in PendingPromotions : binding = Candidate(n)}
Undone == {n \in PendingRollbacks : binding = To(n)}

Undoable ==
  IF Moved # {} THEN CHOOSE n \in Moved : TRUE
  ELSE IF Undone = {} /\ head.attempt # None /\ head.sha = Candidate(head.attempt)
       THEN head.attempt ELSE None

Line == INSTANCE AcceptedLine WITH
  Project    <- {"project"},
  LineOf     <- [n \in Node |-> "project"],
  line       <- [p \in {"project"} |-> binding],
  judged     <- {[node |-> n,
                  base |-> IF state[n] = "INTEGRATED" THEN Base(n) ELSE head.sha] :
                   n \in {m \in Node : state[m] # "READY"}},
  integrated <- {n \in Node : state[n] = "INTEGRATED"} \cup Moved,
  undo       <- [p \in {"project"} |-> Undoable]

\* What workers see changes by whole publications only: a node that was judged on
\* what they saw is added, once, or the last one added is taken back, once.
BindingLine == Line!Spec

-----------------------------------------------------------------------------
(* Liveness *)

\* A step of a call in progress.
Carry(c) == ~At(c, "idle") /\ \E n \in Node : Promotion(c, n) \/ Undoing(c, n)

\* Calls go on, and some time they are no longer cut off where they could go on.
\* A call that cannot go on raises, and its caller is free again.
CallFairness ==
  /\ \A c \in Caller : WF_vars(Carry(c)) /\ SF_vars(~ENABLED Carry(c) /\ Abort(c))
  /\ <>[][\A c \in Caller : Abort(c) => Carry(c) \/ ~ENABLED Carry(c)]_vars

CallSpec == Spec /\ CallFairness

\* reconcile_startup runs again and again, and takes up what is pending.
StartupRepeats ==
  \A c \in Caller : SF_vars(\E n \in Node : Reconcile(c, n, "idle") \/ ReconcileRollback(c, n))

\* Root repeats its integrate and rollback requests.
RequestsRepeat ==
  \A c \in Caller : SF_vars(\E n \in Node : Reconcile(c, n, "retrying") \/ ReconcileRollback(c, n))

\* Start-up alone completes every rollback that was prepared, and every promotion
\* whose accepted ref has moved: workers are never left on a commit that the
\* database does not record.
StartupCompletes ==
  StartupRepeats =>
    \A n \in Node :
      /\ n \in PendingRollbacks ~> n \notin PendingRollbacks
      /\ n \in PendingPromotions /\ accepted = Candidate(n) ~> attempt[n].status = "COMPLETED"

\* A repeated request completes what was prepared, wherever the first one was cut
\* off, also before it had any effect; so no project stays frozen.
RetriesComplete == RequestsRepeat => (Pending # {} ~> Pending = {})

=============================================================================
