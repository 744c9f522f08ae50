-------------------------- MODULE EvidenceIngress ---------------------------
(***************************************************************************)
(* control_plane/evidence_ingress.py: the closure of a worker's manifest   *)
(* is copied into a store only root writes, under the hash of the manifest.*)
(*                                                                         *)
(* The worker owns the source and may rewrite any of it between two reads  *)
(* of a call.  A call works in a staging directory of its own and renames  *)
(* it into place without replacing anything; calls may race for the name,  *)
(* fail at any step, or die with their process.                            *)
(***************************************************************************)
EXTENDS Naturals, FiniteSets

CONSTANTS
  Call,      \* ingests in progress at once
  File,      \* the files a manifest binds
  Checked,   \* the files validate_manifest_v4 reads: path check and outputs
  Content,   \* what a file may hold
  Manifest,  \* SUBSET [File -> Content], what the worker may claim
  None

ASSUME IngressAssumption ==
  /\ Checked \subseteq File
  /\ Manifest \subseteq [File -> Content]
  /\ None \notin Content

VARIABLES
  claimed,   \* the manifest.json in the worker's directory
  files,     \* [File -> Content], the files beside it
  store,     \* [Manifest -> directory or None], by the hash of the manifest
  leftover,  \* manifests with a staging directory nobody will finish
  recorded,  \* the artifacts the graph has registered for the attempt
  call       \* [Call -> Ingest]

source == <<claimed, files>>
ingress == <<claimed, files, store, leftover, recorded, call>>

-----------------------------------------------------------------------------

\* A directory that is being filled, or was.
Directory == [File -> Content \cup {None}]

Empty == [f \in File |-> None]

\* read: the manifest; looked: validated; copying: into the staging directory;
\* sealed: read-only and synced; placed: the name is taken, by this call or
\* another.
Ingest == [phase : {"idle", "read", "looked", "copying", "sealed", "placed"},
           manifest : Manifest \cup {None}, staging : Directory]

Idle == [phase |-> "idle", manifest |-> None, staging |-> Empty]

\* validate_destination_inventory: exactly the files of the manifest, with
\* exactly its bytes.
Valid(m) == store[m] = m

Ingesting(c, phase, m) == call[c].phase = phase /\ call[c].manifest = m

Becomes(c, ingest) == call' = [call EXCEPT ![c] = ingest]

-----------------------------------------------------------------------------
(* ingest, read by read *)

\* The manifest is read once.
Read(c) ==
  /\ call[c] = Idle
  /\ Becomes(c, [Idle EXCEPT !.phase = "read", !.manifest = claimed])
  /\ UNCHANGED <<source, store, leftover, recorded>>

\* validate_manifest_v4 reads some of the files the manifest binds.
Look(c, m) ==
  /\ Ingesting(c, "read", m)
  /\ \A f \in Checked : files[f] = m[f]
  /\ Becomes(c, [call[c] EXCEPT !.phase = "looked"])
  /\ UNCHANGED <<source, store, leftover, recorded>>

\* The name is taken already: an exact replay.
Accept(c, m) ==
  /\ Ingesting(c, "looked", m) /\ store[m] # None /\ Valid(m)
  /\ Becomes(c, [call[c] EXCEPT !.phase = "placed"])
  /\ UNCHANGED <<source, store, leftover, recorded>>

\* Fault: the staging directory has a fixed name.
UnusedName(m) == m \notin leftover

\* mkdtemp: whatever an earlier call left behind has another name.
FreshName(m) == TRUE

Stage(c, m) ==
  /\ Ingesting(c, "looked", m) /\ store[m] = None
  /\ FreshName(m)
  /\ Becomes(c, [call[c] EXCEPT !.phase = "copying"])
  /\ UNCHANGED <<source, store, leftover, recorded>>

\* Fault: what was validated before is not looked at again.
BoundOnce(m, f) == f \in Checked \/ files[f] = m[f]

\* The bytes copied are the bytes hashed.
Bound(m, f) == files[f] = m[f]

Copy(c, m, f) ==
  /\ Ingesting(c, "copying", m) /\ call[c].staging[f] = None
  /\ Bound(m, f)
  /\ Becomes(c, [call[c] EXCEPT !.staging[f] = files[f]])
  /\ UNCHANGED <<source, store, leftover, recorded>>

Filled(c) == \A f \in File : call[c].staging[f] # None

\* The manifest is copied last, and must not have changed either.
Seal(c, m) ==
  /\ Ingesting(c, "copying", m) /\ Filled(c)
  /\ claimed = m
  /\ Becomes(c, [call[c] EXCEPT !.phase = "sealed"])
  /\ UNCHANGED <<source, store, leftover, recorded>>

\* renameat2 with RENAME_NOREPLACE.
Place(c, m) ==
  /\ Ingesting(c, "sealed", m) /\ store[m] = None
  /\ store' = [store EXCEPT ![m] = call[c].staging]
  /\ Becomes(c, [call[c] EXCEPT !.phase = "placed"])
  /\ UNCHANGED <<source, leftover, recorded>>

\* Another call took the name: its directory is accepted, this one removed.
LoseRace(c, m) ==
  /\ Ingesting(c, "sealed", m) /\ store[m] # None /\ Valid(m)
  /\ Becomes(c, [call[c] EXCEPT !.phase = "placed"])
  /\ UNCHANGED <<source, store, leftover, recorded>>

\* Fault: registered before the rename.
Sealed(c, m) == Ingesting(c, "sealed", m)

\* ingest returns what it has found complete under its name.
Answered(c, m) == Ingesting(c, "placed", m) /\ Valid(m)

\* record_ingressed_evidence: one artifact for the attempt, and no other.
Record(c, m) ==
  /\ Answered(c, m)
  /\ recorded \subseteq {m}
  /\ recorded' = {m}
  /\ Becomes(c, Idle)
  /\ UNCHANGED <<source, store, leftover>>

\* What the worker changed under the call no longer fits.
Refuse(c, m) ==
  /\ \/ Ingesting(c, "read", m) /\ \E f \in Checked : files[f] # m[f]
     \/ /\ Ingesting(c, "copying", m)
        /\ \/ \E f \in File : call[c].staging[f] = None /\ ~Bound(m, f)
           \/ Filled(c) /\ claimed # m
     \/ Ingesting(c, "placed", m) /\ ~(recorded \subseteq {m})
  /\ Becomes(c, Idle)
  /\ UNCHANGED <<source, store, leftover, recorded>>

-----------------------------------------------------------------------------
(* The worker, and what goes wrong *)

Write(f, x) ==
  /\ files[f] # x
  /\ files' = [files EXCEPT ![f] = x]
  /\ UNCHANGED <<claimed, store, leftover, recorded, call>>

Claim(m) ==
  /\ claimed # m
  /\ claimed' = m
  /\ UNCHANGED <<files, store, leftover, recorded, call>>

\* An error at any step: the staging directory is removed.
Fail(c) ==
  /\ call[c] # Idle
  /\ Becomes(c, Idle)
  /\ UNCHANGED <<source, store, leftover, recorded>>

\* The process dies: staging directories stay where they are.
IngressCrash ==
  /\ leftover' = leftover \cup
       {call[c].manifest : c \in {d \in Call : call[d].phase \in {"copying", "sealed"}}}
  /\ call' = [c \in Call |-> Idle]
  /\ UNCHANGED <<source, store, recorded>>

-----------------------------------------------------------------------------

\* An ingest is asked for once the worker has run and left its evidence.
IngressInit ==
  /\ claimed \in Manifest /\ files = claimed
  /\ store = [m \in Manifest |-> None]
  /\ leftover = {} /\ recorded = {}
  /\ call = [c \in Call |-> Idle]

IngestStep(c) ==
  \/ Read(c)
  \/ \E m \in Manifest :
       \/ Look(c, m) \/ Accept(c, m) \/ Stage(c, m) \/ (\E f \in File : Copy(c, m, f))
       \/ Seal(c, m) \/ Place(c, m) \/ LoseRace(c, m) \/ Record(c, m) \/ Refuse(c, m)

IngressTypeOK ==
  /\ claimed \in Manifest
  /\ files \in [File -> Content]
  /\ store \in [Manifest -> Directory \cup {None}]
  /\ leftover \subseteq Manifest /\ recorded \subseteq Manifest
  /\ call \in [Call -> Ingest]

\* The store is immutable and complete: a name holds the whole closure of its
\* manifest or nothing, whatever the worker rewrites and whoever else publishes
\* it (EvidenceIngress.ingest).
Evidence == INSTANCE ImmutableStore WITH
  Name <- Manifest, ValueOf <- [m \in Manifest |-> m], held <- store

EvidenceImmutable == Evidence!Spec

\* What the graph has registered can be resolved (resolve_manifest).
RecordedResolves == \A m \in recorded : Valid(m)

\* The worker's directory is what its manifest says.
Consistent == files = claimed
=============================================================================
