---------------------------- MODULE AcceptedLine ----------------------------
(***************************************************************************)
(* What the control plane promises about a project's accepted line of      *)
(* commits, with no leases, claims, transactions or retries in it:         *)
(*   - a node is judged good at most once, and against the line as it      *)
(*     stands;                                                             *)
(*   - only judged work grows the line, by one commit, on the very line it *)
(*     was judged against, and only once;                                  *)
(*   - only the last promotion can be taken back, and that once.           *)
(***************************************************************************)
EXTENDS Naturals, Sequences

CONSTANTS
  Node, Project, None,
  LineOf,   \* [Node -> Project]
  ChangeOf  \* the change a node makes

VARIABLES
  line,      \* of a project, the promoted changes, oldest first
  judged,    \* what was judged good: a node and the line it was judged on
  integrated, \* nodes promoted at some time
  undo       \* [Project -> Node \cup {None}], the promotion that can be undone

vars == <<line, judged, integrated, undo>>

Judge(n) ==
  /\ \A j \in judged : j.node # n
  /\ judged' = judged \cup {[node |-> n, base |-> line[LineOf[n]]]}
  /\ UNCHANGED <<line, integrated, undo>>

Promote(n) ==
  LET p == LineOf[n] IN
  /\ [node |-> n, base |-> line[p]] \in judged
  /\ n \notin integrated
  /\ line' = [line EXCEPT ![p] = Append(@, ChangeOf[n])]
  /\ integrated' = integrated \cup {n}
  /\ undo' = [undo EXCEPT ![p] = n]
  /\ UNCHANGED judged

TakeBack(p) ==
  /\ undo[p] # None
  /\ line' = [line EXCEPT ![p] = SubSeq(@, 1, Len(@) - 1)]
  /\ undo' = [undo EXCEPT ![p] = None]
  /\ UNCHANGED <<judged, integrated>>

Init ==
  /\ line = [p \in Project |-> <<>>]
  /\ judged = {} /\ integrated = {}
  /\ undo = [p \in Project |-> None]

Next ==
  \/ \E n \in Node : Judge(n) \/ Promote(n)
  \/ \E p \in Project : TakeBack(p)

Spec == Init /\ [][Next]_vars
=============================================================================
