-------------------------- MODULE PublicationStore --------------------------
(***************************************************************************)
(* control_plane/publication_store.py: a generation is a complete, read-   *)
(* only clone of one accepted commit, built beside its name and renamed    *)
(* into place.  ensure takes no lock: two publishers may build the same    *)
(* commit, fail at any step, or die.                                       *)
(***************************************************************************)
EXTENDS Naturals, Sequences

CONSTANTS
  Publisher,
  Commit,
  Absent      \* no directory at the name

\* What ensure adds to the directory it builds, in this order: the detached
\* clone with its marker, then the permissions of the readers.
Parts == <<"clone", "readers">>

Built == 0..Len(Parts)

\* verify: the clone, its marker and its permissions are all there.
Complete == Len(Parts)

ASSUME PublicationAssumption == Absent \notin Built \cup Commit

VARIABLES
  generation,  \* [Commit -> Built or Absent], the directories by their name
  debris,      \* commits with a .building- directory nobody will finish
  publisher    \* [Publisher -> Publishing]

publication == <<generation, debris, publisher>>

-----------------------------------------------------------------------------

Publishing == [commit : Commit \cup {Absent}, built : Built]

Resting == [commit |-> Absent, built |-> 0]

Building(p, g) == publisher[p].commit = g

Goes(p, publishing) == publisher' = [publisher EXCEPT ![p] = publishing]

Verified(g) == generation[g] = Complete

-----------------------------------------------------------------------------
(* ensure.  A generation that is there already is only verified. *)

\* Fault: the build directory has a fixed name.
FixedName(g) == g \notin debris /\ \A p \in Publisher : ~Building(p, g)

\* mkdtemp under .building-: nobody else's directory is in the way.
OwnName(g) == TRUE

MakeRoom(p, g) ==
  /\ publisher[p] = Resting /\ generation[g] = Absent
  /\ OwnName(g)
  /\ Goes(p, [Resting EXCEPT !.commit = g])
  /\ UNCHANGED <<generation, debris>>

Unfinished(built) == built < Complete

Build(p, g) ==
  /\ Building(p, g) /\ Unfinished(publisher[p].built)
  /\ Goes(p, [publisher[p] EXCEPT !.built = @ + 1])
  /\ UNCHANGED <<generation, debris>>

\* Fault: the permissions are set after the rename.
OnceMarked(built) == built >= 1

\* Everything is in the directory, and synced, before it gets its name.
Renamable(built) == built = Complete

PlaceGeneration(p, g) ==
  /\ Building(p, g) /\ Renamable(publisher[p].built)
  /\ generation[g] = Absent
  /\ generation' = [generation EXCEPT ![g] = publisher[p].built]
  /\ Goes(p, Resting)
  /\ UNCHANGED debris

\* EEXIST: another publisher won; its generation is kept, this one removed.
Yield(p, g) ==
  /\ Building(p, g) /\ Renamable(publisher[p].built)
  /\ generation[g] # Absent
  /\ Goes(p, Resting)
  /\ UNCHANGED <<generation, debris>>

\* An error while building: the directory is removed.
BuildFails(p, g) ==
  /\ Building(p, g)
  /\ Goes(p, Resting)
  /\ UNCHANGED <<generation, debris>>

\* Publishers that die with their process; nobody removes what they built.
Die(dead) ==
  /\ debris' = debris \cup {g \in Commit : \E p \in dead : Building(p, g)}
  /\ publisher' = [p \in Publisher |-> IF p \in dead THEN Resting ELSE publisher[p]]
  /\ UNCHANGED generation

-----------------------------------------------------------------------------

PublicationInit ==
  /\ generation = [g \in Commit |-> Absent]
  /\ debris = {}
  /\ publisher = [p \in Publisher |-> Resting]

Publish(p, g) ==
  \/ MakeRoom(p, g) \/ Build(p, g) \/ PlaceGeneration(p, g) \/ Yield(p, g)

PublicationTypeOK ==
  /\ generation \in [Commit -> Built \cup {Absent}]
  /\ debris \subseteq Commit
  /\ publisher \in [Publisher -> Publishing]

\* A generation is immutable and complete: its name holds nothing, or for ever
\* the whole clone, however many publishers race to build it and wherever they
\* die (PublicationStore.ensure).
Generations == INSTANCE ImmutableStore WITH
  Name <- Commit, ValueOf <- [g \in Commit |-> Complete],
  None <- Absent, held <- generation

GenerationImmutable == Generations!Spec
=============================================================================
