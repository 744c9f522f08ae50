------------------------- MODULE ArtifactFlowProofs -------------------------
(***************************************************************************)
(* Both stores of ArtifactFlow keep what they promise, for any number of   *)
(* calls, publishers, files, manifests and failures.                       *)
(***************************************************************************)
EXTENDS ArtifactFlow, TLAPS

\* What a call has copied is what its manifest says.
Faithful(c) ==
  \A m \in Manifest :
    /\ call[c].manifest = m /\ call[c].phase \in {"read", "looked", "copying"} =>
         \A f \in File : call[c].staging[f] \in {None, m[f]}
    /\ Ingesting(c, "sealed", m) => call[c].staging = m

\* Every staging directory is a part of what its manifest says.
CallsFaithful == call \in [Call -> Ingest] /\ \A c \in Call : Faithful(c)

\* Every name holds nothing or its manifest, and what is registered is there.
StoreClosed ==
  /\ store \in [Manifest -> Directory \cup {None}]
  /\ recorded \subseteq Manifest
  /\ RecordedResolves

SourceOK == claimed \in Manifest /\ files \in [File -> Content]

IngressInvariant == SourceOK /\ CallsFaithful /\ StoreClosed

\* What a staging directory holds once it is filled.
LEMMA FilledFaithfully ==
  ASSUME NEW c \in Call, NEW m \in Manifest,
         CallsFaithful,
         Ingesting(c, "copying", m), Filled(c)
  PROVE  call[c].staging = m
<1>1. /\ call[c].staging \in [File -> Content \cup {None}]
      /\ m \in [File -> Content]
  BY IngressAssumption DEF CallsFaithful, Ingest, Directory
<1>2. \A f \in File : call[c].staging[f] = m[f]
  BY DEF CallsFaithful, Faithful, Filled, Ingesting
<1> QED
  BY <1>1, <1>2

\* A step of the ingress, whatever it is part of.
IngressStep ==
  \/ \E c \in Call : IngestStep(c)
  \/ \E f \in File, x \in Content : Write(f, x)
  \/ \E m \in Manifest : Claim(m)
  \/ \E c \in Call : Fail(c)
  \/ IngressCrash

LEMMA StepsOfIngress ==
  ASSUME [Next]_vars
  PROVE  IngressStep \/ UNCHANGED ingress
BY DEF Next, vars, Ingests, Publishes, Works, IngestFails, PublishFails, ServiceDies,
       OtherDies, IngressStep

\* A call that becomes another one keeps what all calls have in common.
LEMMA OneCall ==
  ASSUME NEW c \in Call, NEW ingest \in Ingest, CallsFaithful, Becomes(c, ingest),
         \A m \in Manifest :
           /\ ingest.manifest = m /\ ingest.phase \in {"read", "looked", "copying"} =>
                \A f \in File : ingest.staging[f] \in {None, m[f]}
           /\ ingest.phase = "sealed" /\ ingest.manifest = m => ingest.staging = m
  PROVE  CallsFaithful'
<1>1. call' \in [Call -> Ingest]
  BY DEF Becomes, CallsFaithful
<1>2. ASSUME NEW d \in Call PROVE Faithful(d)'
  <2>1. CASE d = c
    <3>1. call'[c] = ingest
      BY DEF Becomes, CallsFaithful
    <3> QED
      BY <2>1, <3>1 DEF Faithful, Ingesting
  <2>2. CASE d # c
    <3>1. call'[d] = call[d]
      BY <2>2 DEF Becomes, CallsFaithful
    <3> QED
      BY <3>1 DEF CallsFaithful, Faithful, Ingesting
  <2> QED
    BY <2>1, <2>2
<1> QED
  BY <1>1, <1>2 DEF CallsFaithful

LEMMA IdleIngest == Idle \in Ingest /\ Idle.phase = "idle"
BY DEF Idle, Ingest, Empty, Directory

\* A call that goes back to rest.
LEMMA OneCallRests ==
  ASSUME NEW c \in Call, CallsFaithful, Becomes(c, Idle)
  PROVE  CallsFaithful'
BY IdleIngest, OneCall

\* A call whose staging directory does not matter any more.
LEMMA OneCallElsewhere ==
  ASSUME NEW c \in Call, NEW ingest \in Ingest, CallsFaithful, Becomes(c, ingest),
         ingest.phase \in {"idle", "placed"}
  PROVE  CallsFaithful'
BY OneCall

LEMMA StoreUntouched ==
  ASSUME StoreClosed, UNCHANGED <<store, recorded>>
  PROVE  StoreClosed'
BY DEF StoreClosed, RecordedResolves, Valid

LEMMA InitialIngress == Init => IngressInvariant
<1> SUFFICES ASSUME Init PROVE IngressInvariant
  OBVIOUS
<1>1. call \in [Call -> Ingest] /\ \A c \in Call : call[c].phase = "idle"
  BY IdleIngest DEF Init, IngressInit
<1>2. SourceOK /\ StoreClosed
  BY IngressAssumption DEF Init, IngressInit, SourceOK, StoreClosed, RecordedResolves
<1> QED
  BY <1>1, <1>2 DEF IngressInvariant, CallsFaithful, Faithful, Ingesting

\* What is renamed into place is the manifest whose name it gets.
LEMMA Placed ==
  ASSUME IngressInvariant, NEW c \in Call, NEW m \in Manifest, Place(c, m)
  PROVE  store' = [store EXCEPT ![m] = m]
BY DEF Place, IngressInvariant, CallsFaithful, Faithful

LEMMA IngestKeepsCalls ==
  ASSUME IngressInvariant, NEW c \in Call, IngestStep(c)
  PROVE  CallsFaithful'
<1> USE DEF Ingesting
<1>0. call[c] \in Ingest /\ CallsFaithful /\ SourceOK
  BY DEF IngressInvariant, CallsFaithful
<1>1. CASE Read(c)
  <2> DEFINE ingest == [Idle EXCEPT !.phase = "read", !.manifest = claimed]
  <2>1. /\ ingest \in Ingest /\ ingest.phase = "read"
        /\ \A f \in File : ingest.staging[f] = None
    BY <1>0 DEF Idle, Ingest, Empty, Directory, SourceOK
  <2> QED
    BY <1>0, <1>1, <2>1, OneCall DEF Read
<1>2. ASSUME NEW m \in Manifest, Look(c, m) \/ Stage(c, m)
      PROVE  CallsFaithful'
  <2>1. PICK phase \in {"looked", "copying"} :
          /\ Becomes(c, [call[c] EXCEPT !.phase = phase])
          /\ call[c].manifest = m /\ call[c].phase \in {"read", "looked"}
    BY <1>2 DEF Look, Stage
  <2> DEFINE ingest == [call[c] EXCEPT !.phase = phase]
  <2>2. /\ ingest \in Ingest /\ ingest.phase = phase
        /\ ingest.manifest = m /\ ingest.staging = call[c].staging
    BY <1>0, <2>1 DEF Ingest
  <2>3. \A f \in File : ingest.staging[f] \in {None, m[f]}
    BY <1>0, <2>1, <2>2 DEF CallsFaithful, Faithful
  <2> HIDE DEF ingest
  <2>4. Becomes(c, ingest)
    BY <2>1 DEF ingest
  <2> QED
    BY <1>0, <2>2, <2>3, <2>4, OneCall
<1>3. ASSUME NEW m \in Manifest, Accept(c, m) \/ Place(c, m) \/ LoseRace(c, m)
      PROVE  CallsFaithful'
  <2>1. Becomes(c, [call[c] EXCEPT !.phase = "placed"])
    BY <1>3 DEF Accept, Place, LoseRace
  <2>2. /\ [call[c] EXCEPT !.phase = "placed"] \in Ingest
        /\ [call[c] EXCEPT !.phase = "placed"].phase = "placed"
    BY <1>0 DEF Ingest
  <2> QED
    BY <1>0, <2>1, <2>2, OneCallElsewhere
<1>4. ASSUME NEW m \in Manifest, NEW f \in File, Copy(c, m, f)
      PROVE  CallsFaithful'
  <2> DEFINE ingest == [call[c] EXCEPT !.staging[f] = files[f]]
  <2>1. /\ call[c].phase = "copying" /\ call[c].manifest = m /\ files[f] = m[f]
        /\ Becomes(c, ingest)
    BY <1>4 DEF Copy, Bound
  <2>2. /\ ingest \in Ingest /\ ingest.phase = "copying" /\ ingest.manifest = m
        /\ \A g \in File : ingest.staging[g] = IF g = f THEN m[f] ELSE call[c].staging[g]
    BY <1>0, <2>1 DEF Ingest, Directory, SourceOK
  <2>3. \A g \in File : ingest.staging[g] \in {None, m[g]}
    BY <1>0, <2>1, <2>2 DEF CallsFaithful, Faithful
  <2> HIDE DEF ingest
  <2> QED
    BY <1>0, <2>1, <2>2, <2>3, OneCall
<1>5. ASSUME NEW m \in Manifest, Seal(c, m)
      PROVE  CallsFaithful'
  <2>1. call[c].staging = m /\ call[c].manifest = m
    BY <1>0, <1>5, FilledFaithfully DEF Seal
  <2>2. Becomes(c, [call[c] EXCEPT !.phase = "sealed"])
    BY <1>5 DEF Seal
  <2>3. /\ [call[c] EXCEPT !.phase = "sealed"] \in Ingest
        /\ [call[c] EXCEPT !.phase = "sealed"].phase = "sealed"
        /\ [call[c] EXCEPT !.phase = "sealed"].manifest = m
        /\ [call[c] EXCEPT !.phase = "sealed"].staging = m
    BY <1>0, <2>1 DEF Ingest
  <2> QED
    BY <1>0, <2>2, <2>3, OneCall
<1>6. ASSUME NEW m \in Manifest, Record(c, m) \/ Refuse(c, m)
      PROVE  CallsFaithful'
  BY <1>0, <1>6, OneCallRests DEF Record, Refuse
<1> QED
  BY <1>1, <1>2, <1>3, <1>4, <1>5, <1>6 DEF IngestStep

LEMMA IngestKeepsStore ==
  ASSUME IngressInvariant, NEW c \in Call, IngestStep(c)
  PROVE  StoreClosed' /\ SourceOK'
<1>0. StoreClosed /\ SourceOK
  BY DEF IngressInvariant
<1>1. CASE UNCHANGED <<store, recorded>> /\ UNCHANGED source
  BY <1>0, <1>1, StoreUntouched DEF SourceOK, source
<1>2. ASSUME NEW m \in Manifest, Place(c, m)
      PROVE  StoreClosed' /\ SourceOK'
  <2>1. store' = [store EXCEPT ![m] = m] /\ UNCHANGED <<source, recorded>>
    BY <1>2, Placed DEF Place
  <2>2. m \in Directory
    BY IngressAssumption DEF Directory
  <2>3. \A n \in Manifest : store'[n] = IF n = m THEN m ELSE store[n]
    BY <1>0, <2>1 DEF StoreClosed
  <2> QED
    BY <1>0, <2>1, <2>2, <2>3 DEF StoreClosed, SourceOK, RecordedResolves, Valid, source
<1>3. ASSUME NEW m \in Manifest, Record(c, m)
      PROVE  StoreClosed' /\ SourceOK'
  BY <1>0, <1>3 DEF Record, Answered, StoreClosed, SourceOK, RecordedResolves, Valid, source
<1> QED
  BY <1>1, <1>2, <1>3
  DEF IngestStep, Read, Look, Accept, Stage, Copy, Seal, LoseRace, Refuse

LEMMA IngressStepKeeps ==
  ASSUME IngressInvariant, IngressStep \/ UNCHANGED ingress
  PROVE  IngressInvariant'
<1> USE DEF IngressInvariant
<1>1. ASSUME NEW c \in Call, IngestStep(c)
      PROVE  IngressInvariant'
  BY <1>1, IngestKeepsCalls, IngestKeepsStore
<1>2. CASE UNCHANGED call /\ UNCHANGED <<store, recorded>> /\ SourceOK'
  BY <1>2, StoreUntouched DEF CallsFaithful, Faithful, Ingesting
<1>3. ASSUME NEW f \in File, NEW x \in Content, Write(f, x)
      PROVE  IngressInvariant'
  BY <1>2, <1>3 DEF Write, SourceOK
<1>4. ASSUME NEW m \in Manifest, Claim(m)
      PROVE  IngressInvariant'
  BY <1>2, <1>4 DEF Claim, SourceOK
<1>5. ASSUME NEW c \in Call, Fail(c)
      PROVE  IngressInvariant'
  BY <1>5, OneCallRests, StoreUntouched DEF Fail, SourceOK, source
<1>6. CASE IngressCrash
  <2>1. CallsFaithful'
    BY <1>6, IdleIngest DEF IngressCrash, CallsFaithful, Faithful, Ingesting
  <2> QED
    BY <1>6, <2>1, StoreUntouched DEF IngressCrash, SourceOK, source
<1>7. CASE UNCHANGED ingress
  BY <1>2, <1>7 DEF ingress, source, SourceOK
<1> QED
  BY <1>1, <1>3, <1>4, <1>5, <1>6, <1>7 DEF IngressStep

LEMMA IngressAlways == Spec => []IngressInvariant
<1>1. Init => IngressInvariant
  BY InitialIngress
<1>2. IngressInvariant /\ [Next]_vars => IngressInvariant'
  BY StepsOfIngress, IngressStepKeeps
<1> QED
  BY <1>1, <1>2, PTL DEF Spec

\* Whatever the worker rewrites and whichever call fails or dies, a manifest the
\* graph has registered can be resolved (resolve_manifest).
THEOREM Resolves == Spec => []RecordedResolves
<1>1. IngressInvariant => RecordedResolves
  BY DEF IngressInvariant, StoreClosed
<1> QED
  BY <1>1, IngressAlways, PTL

\* Each step of the ingress leaves the store alone or publishes one manifest under
\* its own name, which was free (EvidenceIngress.ingest).
THEOREM EvidenceStays == Spec => EvidenceImmutable
<1>1. Init => Evidence!Init
  BY DEF Init, IngressInit, Evidence!Init
<1>2. IngressInvariant /\ [Next]_vars => [Evidence!Next]_store
  <2> SUFFICES ASSUME IngressInvariant, IngressStep PROVE [Evidence!Next]_store
    BY StepsOfIngress DEF ingress
  <2>1. ASSUME NEW c \in Call, NEW m \in Manifest, Place(c, m)
        PROVE  Evidence!Publish(m)
    BY <2>1, Placed DEF Place, Evidence!Publish
  <2>2. CASE UNCHANGED store
    BY <2>2
  <2>3. ASSUME NEW c \in Call, IngestStep(c)
        PROVE  [Evidence!Next]_store
    BY <2>1, <2>3 DEF IngestStep, Read, Look, Accept, Stage, Copy, Seal, LoseRace, Record,
                      Refuse, Evidence!Next
  <2> QED
    BY <2>2, <2>3 DEF IngressStep, Write, Claim, Fail, IngressCrash
<1> QED
  BY <1>1, <1>2, IngressAlways, PTL DEF Spec, EvidenceImmutable, Evidence!Spec

\* Each step of a publisher leaves the generations alone or puts one complete
\* clone under a name that was free (PublicationStore.ensure).
THEOREM GenerationsStay == Spec => GenerationImmutable
<1>1. Init => Generations!Init
  BY DEF Init, PublicationInit, Generations!Init
<1>2. [Next]_vars => [Generations!Next]_generation
  <2> SUFFICES ASSUME [Next]_vars PROVE [Generations!Next]_generation
    OBVIOUS
  <2>1. ASSUME NEW p \in Publisher, NEW g \in Commit, PlaceGeneration(p, g)
        PROVE  Generations!Publish(g)
    BY <2>1 DEF PlaceGeneration, Renamable, Generations!Publish
  <2>2. ASSUME NEW p \in Publisher, NEW g \in Commit, Publish(p, g)
        PROVE  [Generations!Next]_generation
    BY <2>1, <2>2 DEF Publish, MakeRoom, Build, Yield, Generations!Next
  <2>3. CASE UNCHANGED generation
    BY <2>3
  <2> QED
    BY <2>2, <2>3 DEF Next, vars, publication, Ingests, Publishes, Works, IngestFails,
                      PublishFails, ServiceDies, OtherDies, BuildFails, Die
<1> QED
  BY <1>1, <1>2, PTL DEF Spec, GenerationImmutable, Generations!Spec
=============================================================================
