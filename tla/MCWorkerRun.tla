---------------------------- MODULE MCWorkerRun -----------------------------
(* Small instances of WorkerRun. *)
EXTENDS WorkerRun, TLC

CONSTANTS w1, w2, a, b

\* Two contracts with one idempotency key, each naming a task of its own.
OneKey == a :> "k" @@ b :> "k"
OwnTask == a :> "t1" @@ b :> "t2"

\* The contracts are alike, so the first run is given the first of them.
MCInit == Init /\ given[w1] = a

MCSpec == MCInit /\ [][Next]_vars /\ Fairness
=============================================================================
