---------------------------- MODULE ArtifactFlow ----------------------------
(***************************************************************************)
(* From the worker's directory to a published generation.  The graph       *)
(* service copies what the worker claims into its store (EvidenceIngress); *)
(* once the graph has registered a manifest, the commit it names may be    *)
(* promoted, and is published first (PublicationStore).                    *)
(*                                                                         *)
(* Ingests and the integrator run in the graph service and die with it;    *)
(* another publisher is a process of its own.  MaxFaults bounds the        *)
(* failures, MaxWrites what the worker rewrites.                           *)
(***************************************************************************)
EXTENDS EvidenceIngress, PublicationStore

CONSTANTS
  CandidateOf,  \* [Manifest -> Commit]
  Integrator,   \* the publishers that run in the graph service
  MaxFaults,
  MaxWrites

ASSUME FlowAssumption ==
  /\ CandidateOf \in [Manifest -> Commit]
  /\ Integrator \subseteq Publisher
  /\ MaxFaults \in Nat /\ MaxWrites \in Nat

VARIABLES faults, writes

vars == <<ingress, publication, faults, writes>>

-----------------------------------------------------------------------------

\* A candidate comes with evidence that still resolves.
Promotable(g) == \E m \in recorded : CandidateOf[m] = g /\ Valid(m)

Ingests(c) == IngestStep(c) /\ UNCHANGED <<publication, faults, writes>>

Publishes(p) ==
  /\ \E g \in Commit : Promotable(g) /\ Publish(p, g)
  /\ UNCHANGED <<ingress, faults, writes>>

Works ==
  /\ writes < MaxWrites /\ writes' = writes + 1
  /\ \/ \E f \in File, v \in Content : Write(f, v)
     \/ \E m \in Manifest : Claim(m)
  /\ UNCHANGED <<publication, faults>>

Faulty == faults < MaxFaults /\ faults' = faults + 1 /\ UNCHANGED writes

IngestFails == Faulty /\ (\E c \in Call : Fail(c)) /\ UNCHANGED publication

PublishFails ==
  /\ Faulty /\ \E p \in Publisher, g \in Commit : BuildFails(p, g)
  /\ UNCHANGED ingress

ServiceDies == Faulty /\ IngressCrash /\ Die(Integrator)

OtherDies ==
  /\ Faulty /\ \E p \in Publisher \ Integrator : Die({p})
  /\ UNCHANGED ingress

Init ==
  /\ IngressInit /\ PublicationInit
  /\ faults = 0 /\ writes = 0

Next ==
  \/ \E c \in Call : Ingests(c)
  \/ \E p \in Publisher : Publishes(p)
  \/ Works \/ IngestFails \/ PublishFails \/ ServiceDies \/ OtherDies

\* A caller that was not answered asks again: the service accepts the replay
\* (graph_service.py, ingress_replay) and the coordinator keeps the promotion
\* it prepared until promote is called again.
Fairness ==
  /\ \A c \in Call : WF_vars(Ingests(c))
  /\ \A p \in Publisher : WF_vars(Publishes(p))

Spec == Init /\ [][Next]_vars /\ Fairness

-----------------------------------------------------------------------------

TypeOK ==
  /\ IngressTypeOK /\ PublicationTypeOK
  /\ faults \in 0..MaxFaults /\ writes \in 0..MaxWrites

\* Once the worker has left its directory as its manifest says, some artifact
\* is registered, whatever failed, died or was left behind before
\* (EvidenceIngress.ingest, record_ingressed_evidence).
Settles == <>[]Consistent => <>(recorded # {})

\* A build that was cut short does not stop the commit from being published
\* (PublicationStore.ensure).
Republished == \A g \in Commit : (g \in debris) ~> Verified(g)
=============================================================================
