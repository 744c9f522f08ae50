----------------------------- MODULE GraphState -----------------------------
(***************************************************************************)
(* The node-state contract of control_plane/graph_state.py: the states a   *)
(* graph node can be in, the transitions an ordinary operation may record, *)
(* and the exceptional ones only recovery and publication may record.      *)
(***************************************************************************)

\* A node that no goal plan has inserted yet.  It has no row, so the code has
\* no name for it.
Absent == "ABSENT"

InitialNodeStates == {"BLOCKED", "READY"}

Terminal == {"INTEGRATED", "CANCELLED", "FAILED_GATE"}

Transitions ==
  [ BLOCKED          |-> {"READY", "CANCELLED"},
    READY            |-> {"LEASED", "CANCELLED", "NEEDS_HUMAN"},
    LEASED           |-> {"RUNNING", "READY", "CANCELLED"},
    RUNNING          |-> {"EVIDENCE_PENDING", "READY", "FAILED_GATE", "CANCELLED"},
    EVIDENCE_PENDING |-> {"EVALUATING", "FAILED_GATE", "READY"},
    EVALUATING       |-> {"PASSED", "READY", "FAILED_GATE", "NEEDS_HUMAN"},
    PASSED           |-> {"INTEGRATING", "FAILED_GATE"},
    INTEGRATING      |-> {"INTEGRATED", "PASSED", "FAILED_GATE"},
    NEEDS_HUMAN      |-> {"READY", "CANCELLED", "FAILED_GATE"} ]

KnownNodeStates ==
  InitialNodeStates \cup Terminal \cup DOMAIN Transitions
    \cup UNION {Transitions[s] : s \in DOMAIN Transitions}

NodeState == KnownNodeStates \cup {Absent}

\* TRANSITIONS.get(state, set()): a terminal state has no row in the table.
Successors(s) == IF s \in DOMAIN Transitions THEN Transitions[s] ELSE {}

\* The states a publication rebind may leave a node in while it moves the
\* node's base; each is a self-loop that TRANSITIONS does not list.
RebindStates == {"BLOCKED", "READY", "NEEDS_HUMAN", "CANCELLED", "FAILED_GATE"}

ExceptionalTransitions ==
  {<<"EVALUATING", "EVIDENCE_PENDING">>} \cup {<<s, s>> : s \in RebindStates}
=============================================================================
