----------------------------- MODULE BuzzLedger -----------------------------
(***************************************************************************)
(* What the Buzz ingress promises: an event is answered at most once, for  *)
(* ever, and what it does to the graph, to its thread and to the audit     *)
(* happens with that answer or not at all.                                 *)
(***************************************************************************)
EXTENDS Naturals, Sequences

CONSTANTS Event, Node, Thread, NodeState, None

VARIABLES answered, row, bound, trail

ledger == <<answered, row, bound, trail>>

OnlyOne(f, g) == \A x, y \in DOMAIN f : f[x] # g[x] /\ f[y] # g[y] => x = y

Kept(f, g) == \A x \in DOMAIN f : f[x] # None => g[x] = f[x]

\* An event that was allowed changes its thread or one node; one that was
\* denied changes neither; both are audited at most once.
Answer(e) ==
  /\ answered[e] = None
  /\ answered'[e] # None
  /\ \A d \in Event \ {e} : answered'[d] = answered[d]
  /\ Len(trail') \in {Len(trail), Len(trail) + 1}
  /\ SubSeq(trail', 1, Len(trail)) = trail
  /\ IF answered'[e].ok
     THEN /\ Len(trail') = Len(trail) + 1
          /\ Kept(bound, bound') /\ OnlyOne(bound, bound')
          /\ bound' = bound => OnlyOne(row, row')
     ELSE UNCHANGED <<row, bound>>

\* The graph goes on by itself.
Move == UNCHANGED <<answered, bound, trail>>

Init ==
  /\ answered = [e \in Event |-> None]
  /\ bound = [t \in Thread |-> None]
  /\ trail = <<>>
  /\ row \in [Node -> NodeState]

Spec == Init /\ [][Move \/ \E e \in Event : Answer(e)]_ledger
=============================================================================
