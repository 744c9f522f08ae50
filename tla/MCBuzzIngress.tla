--------------------------- MODULE MCBuzzIngress ----------------------------
EXTENDS BuzzIngress, TLC

CONSTANTS
  a1, a2, plan, again, resume, n1, g1, g2, t1, t2, op, o1, o2, c1, c2

Signed(command) ==
  [sender |-> op, thread |-> t1, command |-> command, goal |-> g1,
   objective |-> o1, accepted |-> c1, node |-> n1,
   at |-> 0, routed |-> TRUE, valid |-> TRUE]

\* The operator plans a goal, asks for the same goal from a second thread, and
\* resumes its node.
Bodies ==
  [e \in Event |->
     CASE e = plan -> Signed("goal")
       [] e = again -> [Signed("goal") EXCEPT !.thread = t2]
       [] e = resume -> [Signed("resume") EXCEPT !.at = 1]]

OneNode == n1 :> g1

Identities == op :> Command

\* The service creates another goal, whose key is that of the first or is not.
OtherGoals == [goal : {g2}, objective : Objective, accepted : {c1}]
=============================================================================
