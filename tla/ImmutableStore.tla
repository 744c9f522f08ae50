--------------------------- MODULE ImmutableStore ---------------------------
(***************************************************************************)
(* What a content-addressed store promises: a name holds nothing or, for   *)
(* ever, the one value it stands for.                                      *)
(***************************************************************************)
CONSTANTS Name, ValueOf, None

VARIABLE held

Init == held = [n \in Name |-> None]

Publish(n) ==
  /\ held[n] = None
  /\ held' = [held EXCEPT ![n] = ValueOf[n]]

Next == \E n \in Name : Publish(n)

Spec == Init /\ [][Next]_held
=============================================================================
