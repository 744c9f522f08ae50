------------------------- MODULE CoordinatorProofs --------------------------
(***************************************************************************)
(* Proofs about Coordinator, for any set of nodes and callers.             *)
(***************************************************************************)
EXTENDS Coordinator, FiniteSetTheorems, WellFoundedInduction, TLAPS

-----------------------------------------------------------------------------
(* The journal *)

\* The last of some of the entries.
LEMMA LastExists ==
  ASSUME NEW k \in Nat, NEW S, S \subseteq 1..k, S # {}
  PROVE  Max(S) \in S /\ \A y \in S : y <= Max(S)
<1> DEFINE T == {x \in Nat : k - x \in S}
<1>1. PICK a \in S : TRUE
  OBVIOUS
<1>2. k - a \in T
  <2>1. a \in 1..k
    BY <1>1
  <2>2. k - a \in Nat /\ k - (k - a) = a
    BY <2>1
  <2> QED
    BY <1>1, <2>2
<1>3. PICK t \in T : \A x \in T : t <= x
  <2> DEFINE R == OpToRel(<, Nat)
  <2>1. \A x, y \in Nat : <<y, x>> \in R <=> y < x
    BY DEF OpToRel
  <2>2. IsWellFoundedOn(R, Nat)
    BY NatLessThanWellFounded
  <2> HIDE DEF R
  <2>3. T \subseteq Nat /\ T # {}
    BY <1>2
  <2> HIDE DEF T
  <2>4. PICK t \in T : \A x \in T : ~(<<x, t>> \in R)
    BY <2>2, <2>3, WFMin
  <2>5. ASSUME NEW x \in T
        PROVE  t <= x
    <3>1. x \in Nat /\ t \in Nat /\ ~(<<x, t>> \in R)
      BY <2>3, <2>4
    <3>2. ~(x < t)
      BY <2>1, <3>1
    <3> QED
      BY <3>1, <3>2
  <2> QED
    BY <2>5
<1>4. k - t \in S /\ \A y \in S : y <= k - t
  <2>1. ASSUME NEW y \in S
        PROVE  y <= k - t
    <3>1. y \in 1..k
      OBVIOUS
    <3>2. k - y \in Nat /\ k - (k - y) = y
      BY <3>1
    <3>3. t <= k - y
      BY <1>3, <3>2
    <3> QED
      BY <3>1, <3>3
  <2> QED
    BY <2>1
<1> QED
  BY <1>4 DEF Max

\* The last is the only one that no other exceeds.
LEMMA LastIs ==
  ASSUME NEW S, S \subseteq Nat, NEW x \in S, \A y \in S : y <= x
  PROVE  Max(S) = x
<1>1. \A z \in S : (\A y \in S : z >= y) <=> z = x
  OBVIOUS
<1> QED
  BY <1>1 DEF Max

LEMMA FirstIs ==
  ASSUME NEW S, S \subseteq Nat, NEW x \in S, \A y \in S : x <= y
  PROVE  Min(S) = x
<1>1. \A z \in S : (\A y \in S : z =< y) <=> z = x
  OBVIOUS
<1> QED
  BY <1>1 DEF Min

\* The ends of three, two and one rows.
LEMMA EndsOfThree ==
  ASSUME NEW i \in Nat, NEW j \in Nat, NEW k \in Nat, i < j, j < k
  PROVE  Min({i, j, k}) = i /\ Max({i, j, k}) = k
<1>1. Min({i, j, k}) = i
  <2>1. \A y \in {i, j, k} : i <= y
    OBVIOUS
  <2> QED
    BY <2>1, FirstIs
<1>2. Max({i, j, k}) = k
  <2>1. \A y \in {i, j, k} : y <= k
    OBVIOUS
  <2> QED
    BY <2>1, LastIs
<1> QED
  BY <1>1, <1>2

LEMMA EndsOfTwo ==
  ASSUME NEW i \in Nat, NEW j \in Nat, i < j
  PROVE  Min({i, j}) = i /\ Max({i, j}) = j
<1>1. Min({i, j}) = i
  <2>1. \A y \in {i, j} : i <= y
    OBVIOUS
  <2> QED
    BY <2>1, FirstIs
<1>2. Max({i, j}) = j
  <2>1. \A y \in {i, j} : y <= j
    OBVIOUS
  <2> QED
    BY <2>1, LastIs
<1> QED
  BY <1>1, <1>2

LEMMA EndsOfOne ==
  ASSUME NEW i \in Nat
  PROVE  Min({i}) = i /\ Max({i}) = i
BY DEF Min, Max

\* What an appended row leaves of the journal.
LEMMA Appended ==
  ASSUME journal \in Seq(JournalRow), NEW e \in JournalRow, journal' = Append(journal, e)
  PROVE  LET k == Len(journal) + 1 IN
         /\ k \in Nat \ {0} /\ DOMAIN journal = 1..(k - 1) /\ k \notin DOMAIN journal
         /\ DOMAIN journal' = (DOMAIN journal) \cup {k}
         /\ journal'[k] = e
         /\ \A i \in DOMAIN journal : journal'[i] = journal[i] /\ i < k
<1>1. /\ journal' \in Seq(JournalRow) /\ Len(journal) \in Nat
      /\ Len(journal') = Len(journal) + 1 /\ journal'[Len(journal) + 1] = e
      /\ \A i \in 1..Len(journal) : journal'[i] = journal[i]
  OBVIOUS
<1>2. DOMAIN journal = 1..Len(journal) /\ DOMAIN journal' = 1..(Len(journal) + 1)
  BY <1>1
<1> QED
  BY <1>1, <1>2

-----------------------------------------------------------------------------
(* The phases of a rollback *)

Again(e, phase) == [e EXCEPT !.phase = phase]

\* The rows of a rollback: none, or the same row in one phase after the other.
One(n) ==
  \E i \in DOMAIN journal : Rollback(n) = {i} /\ journal[i].phase = "PREPARED"

Two(n) ==
  \E i, j \in DOMAIN journal :
    /\ i < j /\ Rollback(n) = {i, j} /\ journal[i].phase = "PREPARED"
    /\ journal[j] = Again(journal[i], "PUBLISHED")

Three(n) ==
  \E i, j, k \in DOMAIN journal :
    /\ i < j /\ j < k /\ Rollback(n) = {i, j, k} /\ journal[i].phase = "PREPARED"
    /\ journal[j] = Again(journal[i], "PUBLISHED")
    /\ journal[k] = Again(journal[i], "COMPLETED")

InPhases(n) == Rollback(n) = {} \/ One(n) \/ Two(n) \/ Three(n)

\* The rows of a rollback by the phase it has reached.
LEMMA PhaseRows ==
  ASSUME journal \in Seq(JournalRow), NEW n \in Node, InPhases(n), Rollback(n) # {}
  PROVE  /\ Min(Rollback(n)) \in Rollback(n) /\ Max(Rollback(n)) \in Rollback(n)
         /\ Prepared(n) \in JournalRow /\ Prepared(n).phase = "PREPARED"
         /\ Prepared(n).kind = "ROLLBACK" /\ Prepared(n).node = n
         /\ Phase(n) \in {"PREPARED", "PUBLISHED", "COMPLETED"}
<1>1. DOMAIN journal \subseteq Nat /\ \A i \in DOMAIN journal : journal[i] \in JournalRow
  OBVIOUS
<1>2. CASE One(n)
  <2>1. PICK i \in DOMAIN journal : Rollback(n) = {i} /\ journal[i].phase = "PREPARED"
    BY <1>2 DEF One
  <2>2. Min(Rollback(n)) = i /\ Max(Rollback(n)) = i
    BY <1>1, <2>1, EndsOfOne
  <2> QED
    BY <1>1, <2>1, <2>2 DEF Prepared, Phase, Rollback
<1>3. CASE Two(n)
  <2>1. PICK i, j \in DOMAIN journal :
               /\ i < j /\ Rollback(n) = {i, j} /\ journal[i].phase = "PREPARED"
    BY <1>3 DEF Two
  <2>2. Min({i, j}) = i /\ Max({i, j}) = j
    BY <1>1, <2>1, EndsOfTwo
  <2>4. journal[j].phase \in {"PREPARED", "PUBLISHED", "COMPLETED"}
    BY <1>1 DEF JournalRow
  <2> QED
    BY <1>1, <2>1, <2>2, <2>4 DEF Prepared, Phase, Rollback
<1>4. CASE Three(n)
  <2>1. PICK i, j, k \in DOMAIN journal :
               /\ i < j /\ j < k /\ Rollback(n) = {i, j, k} /\ journal[i].phase = "PREPARED"
    BY <1>4 DEF Three
  <2>2. Min({i, j, k}) = i /\ Max({i, j, k}) = k
    BY <1>1, <2>1, EndsOfThree
  <2>4. journal[k].phase \in {"PREPARED", "PUBLISHED", "COMPLETED"}
    BY <1>1 DEF JournalRow
  <2> QED
    BY <1>1, <2>1, <2>2, <2>4 DEF Prepared, Phase, Rollback
<1> QED
  BY <1>2, <1>3, <1>4 DEF InPhases

LEMMA EarlierRows ==
  ASSUME journal \in Seq(JournalRow), NEW n \in Node, InPhases(n), Rollback(n) # {}
  PROVE  /\ Phase(n) = "PREPARED" => One(n)
         /\ Phase(n) = "PUBLISHED" => Two(n)
         /\ Phase(n) = "COMPLETED" => Three(n)
<1>1. DOMAIN journal \subseteq Nat /\ \A i \in DOMAIN journal : journal[i] \in JournalRow
  OBVIOUS
<1>2. ASSUME NEW i \in DOMAIN journal, Rollback(n) = {i}, journal[i].phase = "PREPARED"
      PROVE  Phase(n) = "PREPARED"
  BY <1>1, <1>2, EndsOfOne DEF Phase
<1>3. ASSUME NEW i \in DOMAIN journal, NEW j \in DOMAIN journal, i < j, Rollback(n) = {i, j},
             journal[j] = Again(journal[i], "PUBLISHED")
      PROVE  Phase(n) = "PUBLISHED"
  <2>1. i \in Nat /\ j \in Nat
    BY <1>1
  <2>2. journal[j].phase = "PUBLISHED"
    BY <1>1, <1>3 DEF JournalRow, Again
  <2>3. Max({i, j}) = j
    BY <1>3, <2>1, EndsOfTwo
  <2> QED
    BY <1>3, <2>2, <2>3 DEF Phase
<1>4. ASSUME NEW i \in DOMAIN journal, NEW j \in DOMAIN journal, NEW k \in DOMAIN journal,
             i < j, j < k, Rollback(n) = {i, j, k},
             journal[k] = Again(journal[i], "COMPLETED")
      PROVE  Phase(n) = "COMPLETED"
  <2>1. i \in Nat /\ j \in Nat /\ k \in Nat
    BY <1>1
  <2>2. journal[k].phase = "COMPLETED"
    BY <1>1, <1>4 DEF JournalRow, Again
  <2>3. Max({i, j, k}) = k
    BY <1>4, <2>1, EndsOfThree
  <2> QED
    BY <1>4, <2>2, <2>3 DEF Phase
<1> QED
  BY <1>2, <1>3, <1>4 DEF InPhases, One, Two, Three

\* Another row of the journal is not one of this rollback.
LEMMA OtherRow ==
  ASSUME journal \in Seq(JournalRow), NEW e \in JournalRow, journal' = Append(journal, e),
         NEW n \in Node, e.kind = "ROLLBACK" => e.node # n, InPhases(n)
  PROVE  /\ Rollback(n)' = Rollback(n) /\ InPhases(n)'
         /\ Rollback(n) # {} => Prepared(n)' = Prepared(n) /\ Phase(n)' = Phase(n)
<1>1. Rollback(n)' = Rollback(n)
  BY Appended DEF Rollback
<1>2. \A i \in DOMAIN journal : i \in DOMAIN journal' /\ journal'[i] = journal[i]
  BY Appended
<1>3. InPhases(n)'
  <2>1. CASE Rollback(n) = {}
    BY <1>1, <2>1 DEF InPhases
  <2>2. CASE One(n)
    BY <1>1, <1>2, <2>2 DEF InPhases, One
  <2>3. CASE Two(n)
    BY <1>1, <1>2, <2>3 DEF InPhases, Two
  <2>4. CASE Three(n)
    <3>1. PICK i, j, k \in DOMAIN journal :
               /\ i < j /\ j < k /\ Rollback(n) = {i, j, k} /\ journal[i].phase = "PREPARED"
               /\ journal[j] = Again(journal[i], "PUBLISHED")
               /\ journal[k] = Again(journal[i], "COMPLETED")
      BY <2>4 DEF Three
    <3>2. /\ i \in DOMAIN journal' /\ j \in DOMAIN journal' /\ k \in DOMAIN journal'
          /\ journal'[i] = journal[i] /\ journal'[j] = journal[j] /\ journal'[k] = journal[k]
      BY <1>2
    <3>3. /\ i < j /\ j < k /\ Rollback(n)' = {i, j, k} /\ journal'[i].phase = "PREPARED"
          /\ journal'[j] = Again(journal'[i], "PUBLISHED")
          /\ journal'[k] = Again(journal'[i], "COMPLETED")
      BY <1>1, <3>1, <3>2
    <3> QED
      BY <3>2, <3>3 DEF InPhases, Three
  <2> QED
    BY <2>1, <2>2, <2>3, <2>4 DEF InPhases
<1>4. Rollback(n) # {} => /\ Min(Rollback(n)) \in DOMAIN journal
                         /\ Max(Rollback(n)) \in DOMAIN journal
  BY PhaseRows DEF Rollback
<1> QED
  BY <1>1, <1>2, <1>3, <1>4 DEF Prepared, Phase

\* The row that prepares a rollback is its first.
LEMMA PreparedRow ==
  ASSUME journal \in Seq(JournalRow), NEW e \in JournalRow, journal' = Append(journal, e),
         NEW n \in Node, e.kind = "ROLLBACK", e.node = n, e.phase = "PREPARED", Rollback(n) = {}
  PROVE  /\ Rollback(n)' # {} /\ InPhases(n)' /\ Prepared(n)' = e /\ Phase(n)' = "PREPARED"
<1> DEFINE k == Len(journal) + 1
<1>1. /\ k \in Nat /\ k \in DOMAIN journal' /\ journal'[k] = e
      /\ Rollback(n)' = {k}
  BY Appended DEF Rollback
<1> HIDE DEF k
<1>2. Min({k}) = k /\ Max({k}) = k
  BY <1>1, EndsOfOne
<1>3. InPhases(n)'
  BY <1>1 DEF InPhases, One
<1> QED
  BY <1>1, <1>2, <1>3 DEF Prepared, Phase

\* The next row of a rollback is the first one again, in the next phase.
LEMMA NextRow ==
  ASSUME journal \in Seq(JournalRow), NEW n \in Node, InPhases(n), Rollback(n) # {},
         NEW phase, <<Phase(n), phase>> \in {<<"PREPARED", "PUBLISHED">>, <<"PUBLISHED", "COMPLETED">>},
         NEW e, e = Again(Prepared(n), phase), journal' = Append(journal, e)
  PROVE  /\ Rollback(n)' # {} /\ InPhases(n)' /\ Prepared(n)' = Prepared(n) /\ Phase(n)' = phase
<1> DEFINE k == Len(journal) + 1
<1>1. DOMAIN journal \subseteq Nat /\ Prepared(n) \in JournalRow
  BY PhaseRows
<1>2. /\ e \in JournalRow /\ e.phase = phase
      /\ e.kind = "ROLLBACK" /\ e.node = n
  <2>1. Prepared(n).kind = "ROLLBACK" /\ Prepared(n).node = n
    BY PhaseRows
  <2>2. phase \in {"PREPARED", "PUBLISHED", "COMPLETED"}
    OBVIOUS
  <2> QED
    BY <1>1, <2>1, <2>2 DEF JournalRow, Again
<1>3. /\ k \in Nat /\ k \in DOMAIN journal' /\ journal'[k] = e
      /\ Rollback(n)' = Rollback(n) \cup {k}
      /\ \A i \in DOMAIN journal :
            i \in DOMAIN journal' /\ journal'[i] = journal[i] /\ i < k
  BY <1>2, Appended DEF Rollback
<1>4. Rollback(n)' # {}
  BY <1>3
<1> HIDE DEF k
<1>5. CASE phase = "PUBLISHED"
  <2>1. PICK i \in DOMAIN journal : Rollback(n) = {i} /\ journal[i].phase = "PREPARED"
    BY <1>5, EarlierRows DEF One
  <2>2. Prepared(n) = journal[i]
    BY <1>1, <2>1, EndsOfOne DEF Prepared
  <2>3. i < k /\ Rollback(n)' = {i, k} /\ Min({i, k}) = i /\ Max({i, k}) = k
    BY <1>1, <1>3, <2>1, EndsOfTwo
  <2>4. journal'[i] = journal[i] /\ journal'[k] = Again(journal'[i], "PUBLISHED")
    BY <1>3, <1>5, <2>1, <2>2 DEF Again
  <2>5. InPhases(n)'
    BY <1>3, <2>1, <2>3, <2>4 DEF InPhases, Two
  <2>6. Prepared(n)' = Prepared(n)
    BY <2>2, <2>3, <2>4 DEF Prepared
  <2>7. Phase(n)' = journal'[k].phase
    BY <2>3 DEF Phase
  <2> QED
    BY <1>2, <1>3, <1>4, <2>5, <2>6, <2>7
<1>6. CASE phase = "COMPLETED"
  <2>1. PICK i, j \in DOMAIN journal :
               /\ i < j /\ Rollback(n) = {i, j} /\ journal[i].phase = "PREPARED"
               /\ journal[j] = Again(journal[i], "PUBLISHED")
    BY <1>6, EarlierRows DEF Two
  <2>2. i \in Nat /\ j \in Nat /\ k \in Nat /\ i < j /\ j < k
    BY <1>1, <1>3, <2>1
  <2>3. /\ Min({i, j}) = i /\ Min({i, j, k}) = i /\ Max({i, j, k}) = k
    BY <2>2, EndsOfTwo, EndsOfThree
  <2>4. Prepared(n) = journal[i] /\ Rollback(n)' = {i, j, k}
    BY <1>3, <2>1, <2>3 DEF Prepared
  <2>5. /\ i \in DOMAIN journal' /\ j \in DOMAIN journal'
        /\ journal'[i] = journal[i] /\ journal'[j] = journal[j]
    BY <1>3
  <2>6. /\ journal'[i].phase = "PREPARED"
        /\ journal'[j] = Again(journal'[i], "PUBLISHED")
        /\ journal'[k] = Again(journal'[i], "COMPLETED")
    BY <1>3, <1>6, <2>1, <2>4, <2>5 DEF Again
  <2>7. InPhases(n)'
    BY <1>3, <2>2, <2>4, <2>5, <2>6 DEF InPhases, Three
  <2>8. Prepared(n)' = Prepared(n)
    BY <2>3, <2>4, <2>5 DEF Prepared
  <2>9. Phase(n)' = journal'[k].phase
    BY <2>3, <2>4 DEF Phase
  <2> QED
    BY <1>2, <1>3, <1>4, <2>7, <2>8, <2>9
<1> QED
  BY <1>5, <1>6

\* Two and three rows count as two and three.
LEMMA TwoCounted ==
  ASSUME NEW x, NEW y, x # y
  PROVE  IsFiniteSet({x, y}) /\ Cardinality({x, y}) = 2
<1> DEFINE S == {x}
<1>1. IsFiniteSet(S) /\ Cardinality(S) = 1 /\ y \notin S
  BY FS_Singleton
<1>2. {x, y} = S \cup {y}
  OBVIOUS
<1> HIDE DEF S
<1>3. IsFiniteSet(S \cup {y}) /\ Cardinality(S \cup {y}) = Cardinality(S) + 1
  BY <1>1, FS_AddElement
<1>4. Cardinality(S \cup {y}) = 2
  BY <1>1, <1>3
<1> QED
  BY <1>2, <1>3, <1>4, Zenon

LEMMA ThreeCounted ==
  ASSUME NEW x, NEW y, NEW z, x # y, x # z, y # z
  PROVE  Cardinality({x, y, z}) = 3
<1> DEFINE S == {x, y}
<1>1. IsFiniteSet(S) /\ Cardinality(S) = 2 /\ z \notin S
  BY TwoCounted, Zenon
<1>2. {x, y, z} = S \cup {z}
  OBVIOUS
<1> HIDE DEF S
<1>3. Cardinality(S \cup {z}) = Cardinality(S) + 1
  BY <1>1, FS_AddElement
<1>4. Cardinality(S \cup {z}) = 3
  BY <1>1, <1>3
<1> QED
  BY <1>2, <1>4, Zenon

\* The rows of a rollback are the first one in the phases' order.
LEMMA PhasesCounted ==
  ASSUME journal \in Seq(JournalRow), NEW n \in Node, InPhases(n), NEW r \in Rollback(n)
  PROVE  journal[r] = [Prepared(n) EXCEPT
                         !.phase = Phases[Cardinality({x \in Rollback(n) : x <= r})]]
<1> DEFINE upto == {x \in Rollback(n) : x <= r}
<1> SUFFICES journal[r] = Again(Prepared(n), Phases[Cardinality(upto)])
  BY DEF Again
<1>1. \A x : x \in upto <=> x \in Rollback(n) /\ x <= r
  OBVIOUS
<1> HIDE DEF upto
<1>2. /\ DOMAIN journal \subseteq Nat
      /\ \A i \in DOMAIN journal : journal[i].phase = "PREPARED" =>
            journal[i] = Again(journal[i], "PREPARED")
  <2>1. \A i \in DOMAIN journal : journal[i] \in JournalRow
    OBVIOUS
  <2> QED
    BY <2>1 DEF Again, JournalRow
<1>3. Phases[1] = "PREPARED" /\ Phases[2] = "PUBLISHED" /\ Phases[3] = "COMPLETED"
  BY DEF Phases
<1>4. CASE One(n)
  <2>1. PICK i \in DOMAIN journal : Rollback(n) = {i} /\ journal[i].phase = "PREPARED"
    BY <1>4 DEF One
  <2>2. r = i /\ Prepared(n) = journal[i]
    BY <1>2, <2>1, EndsOfOne DEF Prepared
  <2>3. upto = {i}
    BY <1>1, <1>2, <2>1, <2>2
  <2>4. Cardinality(upto) = 1
    BY <2>3, FS_Singleton, Zenon
  <2> QED
    BY <1>2, <1>3, <2>1, <2>2, <2>4
<1>5. CASE Two(n)
  <2>1. PICK i, j \in DOMAIN journal :
               /\ i < j /\ Rollback(n) = {i, j} /\ journal[i].phase = "PREPARED"
               /\ journal[j] = Again(journal[i], "PUBLISHED")
    BY <1>5 DEF Two
  <2>2. Prepared(n) = journal[i]
    BY <1>2, <2>1, EndsOfTwo DEF Prepared
  <2>3. CASE r = i
    <3>1. upto = {i}
      BY <1>1, <1>2, <2>1, <2>3
    <3>2. Cardinality(upto) = 1
      BY <3>1, FS_Singleton, Zenon
    <3> QED
      BY <1>2, <1>3, <2>1, <2>2, <2>3, <3>2
  <2>4. CASE r = j
    <3>1. upto = {i, j} /\ i # j
      BY <1>1, <1>2, <2>1, <2>4
    <3>2. Cardinality(upto) = 2
      BY <3>1, TwoCounted, Zenon
    <3> QED
      BY <1>3, <2>1, <2>2, <2>4, <3>2
  <2> QED
    BY <2>1, <2>3, <2>4
<1>6. CASE Three(n)
  <2>1. PICK i, j, k \in DOMAIN journal :
               /\ i < j /\ j < k /\ Rollback(n) = {i, j, k} /\ journal[i].phase = "PREPARED"
               /\ journal[j] = Again(journal[i], "PUBLISHED")
               /\ journal[k] = Again(journal[i], "COMPLETED")
    BY <1>6 DEF Three
  <2>2. i \in Nat /\ j \in Nat /\ k \in Nat
    BY <1>2
  <2>3. Prepared(n) = journal[i]
    BY <2>1, <2>2, EndsOfThree DEF Prepared
  <2>4. CASE r = i
    <3>1. upto = {i}
      BY <1>1, <2>1, <2>2, <2>4
    <3>2. Cardinality(upto) = 1
      BY <3>1, FS_Singleton, Zenon
    <3> QED
      BY <1>2, <1>3, <2>1, <2>3, <2>4, <3>2
  <2>5. CASE r = j
    <3>1. upto = {i, j} /\ i # j
      BY <1>1, <2>1, <2>2, <2>5
    <3>2. Cardinality(upto) = 2
      BY <3>1, TwoCounted, Zenon
    <3> QED
      BY <1>3, <2>1, <2>3, <2>5, <3>2
  <2>6. CASE r = k
    <3>1. upto = {i, j, k} /\ i # j /\ i # k /\ j # k
      BY <1>1, <2>1, <2>2, <2>6
    <3>2. Cardinality(upto) = 3
      BY <3>1, ThreeCounted, Zenon
    <3> QED
      BY <1>3, <2>1, <2>3, <2>6, <3>2
  <2> QED
    BY <2>1, <2>4, <2>5, <2>6
<1> QED
  BY <1>4, <1>5, <1>6 DEF InPhases

\* A completed rollback has a completed row with the graph it was prepared on.
LEMMA CompletedRow ==
  ASSUME journal \in Seq(JournalRow), NEW n \in Node, InPhases(n), Rollback(n) # {},
         Phase(n) = "COMPLETED"
  PROVE  \E i \in Completed : journal[i].graph = Prepared(n).graph
<1>1. PICK i, j, k \in DOMAIN journal :
             /\ i < j /\ j < k /\ Rollback(n) = {i, j, k}
             /\ journal[k] = Again(journal[i], "COMPLETED")
  BY EarlierRows DEF Three
<1>2. i \in Nat /\ j \in Nat /\ k \in Nat /\ journal[i] \in JournalRow
  OBVIOUS
<1>3. Prepared(n) = journal[i]
  BY <1>1, <1>2, EndsOfThree DEF Prepared
<1>4. journal[k].phase = "COMPLETED" /\ journal[k].graph = journal[i].graph
  BY <1>1, <1>2 DEF Again, JournalRow
<1> QED
  BY <1>3, <1>4 DEF Completed

-----------------------------------------------------------------------------
(* The heads that completed rows leave *)

\* HeadOf, of any journal.
HeadIn(rows, entries) ==
  IF entries = {} THEN NoHead ELSE HeadAfter(rows[Max(entries)])

\* A row that completes nothing leaves the line of heads as it is.
LEMMA HeadOfIs ==
  ASSUME NEW S
  PROVE  HeadOf(S) = HeadIn(journal, S)
BY DEF HeadOf, HeadIn

LEMMA HeadInKept ==
  ASSUME journal \in Seq(JournalRow), NEW e \in JournalRow, journal' = Append(journal, e),
         NEW S, S \subseteq DOMAIN journal
  PROVE  HeadIn(journal', S) = HeadIn(journal, S)
<1>1. CASE S = {}
  BY <1>1 DEF HeadIn
<1>2. CASE S # {}
  <2>1. Max(S) \in DOMAIN journal
    <3>1. DOMAIN journal = 1..Len(journal) /\ Len(journal) \in Nat
      OBVIOUS
    <3>2. S \subseteq 1..Len(journal)
      BY <3>1
    <3> QED
      BY <1>2, <3>1, <3>2, LastExists
  <2>2. journal'[Max(S)] = journal[Max(S)]
    BY <2>1, Appended
  <2> QED
    BY <1>2, <2>2 DEF HeadIn
<1> QED
  BY <1>1, <1>2

\* Which rows are completed, and the line of heads they leave.
LEMMA ContinuousIs ==
  Continuous <=>
    /\ \A i \in Completed : journal[i].graph.head = HeadIn(journal, {j \in Completed : j < i})
    /\ head = HeadIn(journal, Completed)
BY DEF Continuous, HeadOf, HeadIn

\* A row that completes nothing leaves the line of heads as it is.
LEMMA HeadsKept ==
  ASSUME journal \in Seq(JournalRow), NEW e \in JournalRow, journal' = Append(journal, e),
         e.phase # "COMPLETED", Continuous, head' = head
  PROVE  Continuous' /\ Completed' = Completed /\ \A i \in Completed : journal'[i] = journal[i]
<1>1. Completed' = Completed /\ Completed \subseteq DOMAIN journal
  BY Appended DEF Completed
<1>2. \A i \in Completed : journal'[i] = journal[i]
  BY <1>1, Appended
<1>3. ASSUME NEW i \in Completed
      PROVE  journal'[i].graph.head = HeadIn(journal', {j \in Completed : j < i})
  <2> DEFINE S == {j \in Completed : j < i}
  <2>1. journal[i].graph.head = HeadIn(journal, S)
    BY ContinuousIs
  <2>2. S \subseteq DOMAIN journal
    BY <1>1
  <2> HIDE DEF S
  <2>3. HeadIn(journal', S) = HeadIn(journal, S)
    BY <2>2, HeadInKept
  <2>4. journal'[i].graph.head = HeadIn(journal', S)
    BY <1>2, <2>1, <2>3
  <2> QED
    BY <2>4 DEF S
<1>4. head = HeadIn(journal', Completed)
  BY <1>1, ContinuousIs, HeadInKept
<1>5. (Continuous <=>
        /\ \A i \in Completed : journal[i].graph.head = HeadIn(journal, {j \in Completed : j < i})
        /\ head = HeadIn(journal, Completed))'
  BY ContinuousIs, PTL
<1> QED
  BY <1>1, <1>2, <1>3, <1>4, <1>5

\* A row that completes a publication of the head goes on with that line.
LEMMA HeadsGrow ==
  ASSUME journal \in Seq(JournalRow), NEW e \in JournalRow, journal' = Append(journal, e),
         e.phase = "COMPLETED", Continuous, e.graph.head = head, head' = HeadAfter(e)
  PROVE  LET k == Len(journal) + 1 IN
         /\ Continuous'
         /\ Completed' = Completed \cup {k} /\ journal'[k] = e /\ k \notin Completed
         /\ \A i \in Completed : journal'[i] = journal[i]
<1> DEFINE k == Len(journal) + 1
<1>1. /\ k \in Nat /\ Completed' = Completed \cup {k} /\ journal'[k] = e
      /\ k \notin Completed /\ Completed \subseteq DOMAIN journal
      /\ \A i \in Completed : i \in Nat /\ i < k
  BY Appended DEF Completed
<1> HIDE DEF k
<1>2. \A i \in Completed : journal'[i] = journal[i]
  BY <1>1, Appended
<1>3. ASSUME NEW i \in Completed
      PROVE  journal'[i].graph.head = HeadIn(journal', {j \in Completed' : j < i})
  <2> DEFINE S == {j \in Completed : j < i}
             T == {j \in Completed' : j < i}
  <2>0. T = S
    BY <1>1
  <2>1. journal[i].graph.head = HeadIn(journal, S)
    BY ContinuousIs
  <2>2. S \subseteq DOMAIN journal
    BY <1>1
  <2> HIDE DEF S, T
  <2>3. HeadIn(journal', S) = HeadIn(journal, S)
    BY <2>2, HeadInKept
  <2>4. journal'[i].graph.head = HeadIn(journal', T)
    BY <1>2, <2>0, <2>1, <2>3
  <2> QED
    BY <2>4 DEF T
<1>4. journal'[k].graph.head = HeadIn(journal', {j \in Completed' : j < k})
  <2> DEFINE T == {j \in Completed' : j < k}
  <2>1. T = Completed
    BY <1>1
  <2> HIDE DEF T
  <2>2. journal'[k].graph.head = HeadIn(journal', T)
    BY <1>1, <2>1, ContinuousIs, HeadInKept
  <2> QED
    BY <2>2 DEF T
<1>5. head' = HeadIn(journal', Completed')
  <2>1. Max(Completed') = k
    <3> DEFINE S == Completed'
    <3>1. S \subseteq Nat /\ k \in S /\ \A y \in S : y <= k
      BY <1>1
    <3> HIDE DEF S
    <3>2. Max(S) = k
      BY <3>1, LastIs
    <3> QED
      BY <3>2 DEF S
  <2> QED
    BY <1>1, <2>1 DEF HeadIn
<1>6. (Continuous <=>
        /\ \A i \in Completed : journal[i].graph.head = HeadIn(journal, {j \in Completed : j < i})
        /\ head = HeadIn(journal, Completed))'
  BY ContinuousIs, PTL
<1>7. Continuous'
  BY <1>1, <1>3, <1>4, <1>5, <1>6
<1> QED
  BY <1>1, <1>2, <1>7 DEF k

-----------------------------------------------------------------------------
(* What the database says *)

\* A node has an attempt once it passed, and is integrated when that completed.
\* While it is pending, the head is the one the attempt was prepared on.
NodeFits(n) ==
  /\ attempt[n] # NoAttempt => state[n] # "READY"
  /\ state[n] = "INTEGRATED" <=> attempt[n].status = "COMPLETED"
  /\ n \in PendingPromotions => attempt[n].graph.head = head

\* A rollback is of a completed promotion; while it is pending, of the head's.
UndoFits(n) ==
  /\ attempt[n].status = "COMPLETED"
  /\ Prepared(n).to = Base(n)
  /\ n \in PendingRollbacks =>
       /\ Prepared(n).graph.head = head
       /\ head.attempt = n /\ head.sha = Candidate(n)

OneAtATime == \A m, n \in Pending : m = n

\* A completed row is of a completed attempt, and says what that says.
RowFits(e) ==
  /\ attempt[e.node].status = "COMPLETED" /\ state[e.node] = "INTEGRATED"
  /\ e.kind = "PROMOTION" => e.graph = attempt[e.node].graph /\ e.to = Candidate(e.node)
  /\ e.kind = "ROLLBACK" =>
       /\ e.graph.head.attempt = e.node /\ e.graph.head.sha = Candidate(e.node)
       /\ e.to = Base(e.node)

PromotionRows(n) == {i \in Completed : journal[i].kind = "PROMOTION" /\ journal[i].node = n}

History ==
  /\ Continuous
  /\ \A i \in Completed : journal[i].graph.head.version < head.version
  /\ \A i \in Completed : RowFits(journal[i])
  /\ \A n \in Node : attempt[n].status = "COMPLETED" => \E i \in Completed : PromotionRows(n) = {i}

Story ==
  /\ \A n \in Node : NodeFits(n) /\ InPhases(n) /\ (Rollback(n) # {} => UndoFits(n))
  /\ OneAtATime
  /\ History

-----------------------------------------------------------------------------
(* Rows and graphs *)

LEMMA Attempts ==
  ASSUME TypeOK, NEW n \in Node
  PROVE  /\ attempt[n] = NoAttempt <=> attempt[n].status = "NONE"
         /\ attempt[n].status \in {"NONE", "PREPARED", "BINDING_UPDATED", "COMPLETED"}
         /\ attempt[n] # NoAttempt =>
              /\ attempt[n] \in AttemptRow /\ attempt[n].graph \in GraphOf
              /\ Base(n) \in CommitOf
<1>1. attempt[n] \in AttemptRow \cup {NoAttempt}
  BY DEF TypeOK
<1>2. attempt[n] = NoAttempt => attempt[n].status = "NONE"
  BY DEF NoAttempt
<1>3. attempt[n] \in AttemptRow =>
        /\ attempt[n].status \in {"PREPARED", "BINDING_UPDATED", "COMPLETED"}
        /\ attempt[n].graph \in GraphOf /\ attempt[n].graph.head.sha \in CommitOf
  BY DEF AttemptRow, GraphOf, HeadRow
<1> QED
  BY <1>1, <1>2, <1>3 DEF Base

LEMMA Changed ==
  ASSUME NEW s \in CommitOf, NEW x \in Change
  PROVE  /\ Append(s, x) \in CommitOf /\ Append(s, x) # s /\ Append(s, x) # <<>>
         /\ SubSeq(Append(s, x), 1, Len(Append(s, x)) - 1) = s
<1>1. /\ Append(s, x) \in Seq(Change) /\ Len(Append(s, x)) = Len(s) + 1 /\ Len(s) \in Nat
  BY DEF CommitOf
<1>2. Len(Append(s, x)) # Len(s) /\ Len(Append(s, x)) # 0 /\ Len(Append(s, x)) - 1 = Len(s)
  BY <1>1
<1>3. Append(s, x) # <<>>
  <2>1. Len(<<>>) = 0
    OBVIOUS
  <2> QED
    BY <1>2, <2>1
<1>4. SubSeq(Append(s, x), 1, Len(s)) = s
  BY DEF CommitOf
<1> QED
  BY <1>1, <1>2, <1>3, <1>4 DEF CommitOf

LEMMA Candidates ==
  ASSUME TypeOK, NEW n \in Node, attempt[n] # NoAttempt
  PROVE  /\ Base(n) \in CommitOf /\ Candidate(n) \in CommitOf
         /\ Candidate(n) = Append(Base(n), ChangeOf[n]) /\ ChangeOf[n] \in Change
         /\ Candidate(n) # Base(n)
         /\ SubSeq(Candidate(n), 1, Len(Candidate(n)) - 1) = Base(n)
<1>1. Base(n) \in CommitOf /\ ChangeOf[n] \in Change
  BY Attempts, PublicationAssumption
<1> QED
  BY <1>1, Changed DEF Candidate

LEMMA GraphNow ==
  ASSUME TypeOK
  PROVE  AffectedGraph \in GraphOf /\ AffectedGraph.head = head
<1> DEFINE M == {m \in Node : OnHead(m)}
           f == [n \in M |-> state[n]]
<1>1. f \in [M -> {"READY", "PASSED", "INTEGRATED"}] /\ M \in SUBSET Node
  BY DEF TypeOK
<1>2. AffectedGraph = [head |-> head, rows |-> f]
  BY DEF AffectedGraph
<1>3. f \in UNION {[K -> {"READY", "PASSED", "INTEGRATED"}] : K \in SUBSET Node}
  BY <1>1
<1>4. head \in HeadRow
  BY DEF TypeOK
<1> HIDE DEF M, f
<1> QED
  BY <1>2, <1>3, <1>4 DEF GraphOf

LEMMA PreparedRows ==
  ASSUME TypeOK, Story, NEW n \in Node, Rollback(n) # {}
  PROVE  /\ Prepared(n) \in JournalRow /\ Prepared(n).kind = "ROLLBACK"
         /\ Prepared(n).node = n /\ Prepared(n).graph \in GraphOf
         /\ Phase(n) \in {"PREPARED", "PUBLISHED", "COMPLETED"}
         /\ n \in PendingRollbacks <=> Phase(n) # "COMPLETED"
         /\ UndoFits(n)
<1>1. journal \in Seq(JournalRow) /\ InPhases(n) /\ UndoFits(n)
  BY DEF TypeOK, Story
<1>2. /\ Prepared(n) \in JournalRow /\ Prepared(n).kind = "ROLLBACK" /\ Prepared(n).node = n
      /\ Phase(n) \in {"PREPARED", "PUBLISHED", "COMPLETED"}
  BY <1>1, PhaseRows
<1> QED
  BY <1>1, <1>2 DEF JournalRow, PendingRollbacks

-----------------------------------------------------------------------------
(* Steps of the database *)

LEMMA JournalKept ==
  ASSUME journal' = journal
  PROVE  /\ Completed' = Completed
         /\ \A n \in Node : /\ Rollback(n)' = Rollback(n) /\ Prepared(n)' = Prepared(n)
                             /\ Phase(n)' = Phase(n) /\ InPhases(n)' = InPhases(n)
BY DEF Completed, Rollback, Prepared, Phase, InPhases, One, Two, Three

LEMMA CompletedRows ==
  ASSUME TypeOK, NEW i \in Completed
  PROVE  /\ journal[i] \in JournalRow /\ journal[i].phase = "COMPLETED" /\ i \in DOMAIN journal
         /\ journal[i].graph.head \in HeadRow
<1>1. journal \in Seq(JournalRow) /\ i \in DOMAIN journal /\ journal[i].phase = "COMPLETED"
  BY DEF TypeOK, Completed
<1>2. journal[i] \in JournalRow
  BY <1>1
<1> QED
  BY <1>1, <1>2 DEF JournalRow, GraphOf

LEMMA StoryKept ==
  ASSUME Story, UNCHANGED database
  PROVE  Story'
<1>1. /\ state' = state /\ attempt' = attempt /\ journal' = journal /\ head' = head
  BY DEF database
<1>2. PendingPromotions' = PendingPromotions /\ PendingRollbacks' = PendingRollbacks
  BY <1>1, JournalKept DEF PendingPromotions, PendingRollbacks
<1>3. \A n \in Node : NodeFits(n)' = NodeFits(n) /\ UndoFits(n)' = UndoFits(n)
  BY <1>1, <1>2, JournalKept DEF NodeFits, UndoFits, Base, Candidate
<1>4. History' = History
  BY <1>1 DEF History, Continuous, Completed, RowFits, PromotionRows, HeadOf, Base, Candidate
<1>5. OneAtATime' = OneAtATime
  BY <1>2 DEF OneAtATime, Pending
<1> QED
  BY <1>3, <1>4, <1>5, JournalKept, <1>1 DEF Story

\* Rows that were completed stay as they are while no row joins them.
LEMMA HistoryStays ==
  ASSUME TypeOK, Story, Completed' = Completed, Continuous', head' = head,
         \A i \in Completed : journal'[i] = journal[i],
         \A n \in Node : attempt[n].status = "COMPLETED" =>
            attempt'[n] = attempt[n] /\ state'[n] = state[n],
         \A n \in Node : attempt'[n].status = "COMPLETED" => attempt[n].status = "COMPLETED"
  PROVE  History'
<1>1. \A i \in Completed : journal[i].node \in Node
  BY CompletedRows DEF JournalRow
<1>2. ASSUME NEW i \in Completed
      PROVE  RowFits(journal[i])'
  <2> DEFINE m == journal[i].node
  <2>1. m \in Node /\ journal'[i] = journal[i] /\ RowFits(journal[i])
    BY <1>1 DEF Story, History
  <2>2. attempt[m].status = "COMPLETED"
    BY <2>1 DEF RowFits
  <2>3. attempt'[m] = attempt[m] /\ state'[m] = state[m]
    BY <2>1, <2>2
  <2>4. Base(m)' = Base(m) /\ Candidate(m)' = Candidate(m)
    BY <2>3 DEF Base, Candidate
  <2> QED
    BY <2>1, <2>3, <2>4 DEF RowFits
<1>3. \A n \in Node : PromotionRows(n)' = PromotionRows(n)
  BY DEF PromotionRows
<1> QED
  BY <1>2, <1>3 DEF Story, History

\* Nor does a rollback, while the journal and the head stay.
LEMMA NodesMove ==
  ASSUME TypeOK, Story, journal' = journal, head' = head,
         \A n \in Node : attempt[n].status = "COMPLETED" =>
            attempt'[n] = attempt[n] /\ state'[n] = state[n],
         \A n \in Node : attempt'[n].status = "COMPLETED" => attempt[n].status = "COMPLETED",
         \A n \in Node : NodeFits(n)', OneAtATime'
  PROVE  Story'
<1>1. Continuous'
  BY DEF Story, History, Continuous, Completed, HeadOf
<1>2. History'
  BY <1>1, JournalKept, HistoryStays
<1>3. ASSUME NEW n \in Node, Rollback(n)' # {}
      PROVE  UndoFits(n)'
  <2>1. UndoFits(n) /\ Prepared(n)' = Prepared(n)
    BY <1>3, JournalKept DEF Story
  <2>2. attempt'[n] = attempt[n] /\ state'[n] = state[n]
    BY <2>1 DEF UndoFits
  <2>3. Base(n)' = Base(n) /\ Candidate(n)' = Candidate(n)
    BY <2>2 DEF Base, Candidate
  <2>4. n \in PendingRollbacks' <=> n \in PendingRollbacks
    BY JournalKept DEF PendingRollbacks
  <2> QED
    BY <2>1, <2>2, <2>3, <2>4 DEF UndoFits
<1>4. \A n \in Node : InPhases(n)'
  BY JournalKept DEF Story
<1> QED
  BY <1>2, <1>3, <1>4 DEF Story

LEMMA JudgeStory ==
  ASSUME TypeOK, Story, NEW n \in Node, Judge(n)
  PROVE  Story'
<1>1. /\ state[n] = "READY" /\ state' = [state EXCEPT ![n] = "PASSED"]
      /\ attempt' = attempt /\ journal' = journal /\ head' = head
  BY DEF Judge
<1>2. state'[n] = "PASSED" /\ \A m \in Node : m # n => state'[m] = state[m]
  BY <1>1 DEF TypeOK
<1>3. attempt[n] = NoAttempt /\ attempt[n].status = "NONE"
  BY <1>1, Attempts DEF Story, NodeFits
<1>4. PendingPromotions' = PendingPromotions /\ PendingRollbacks' = PendingRollbacks
  BY <1>1, JournalKept DEF PendingPromotions, PendingRollbacks
<1>5. \A m \in Node : NodeFits(m)'
  BY <1>1, <1>2, <1>3, <1>4 DEF Story, NodeFits
<1>6. OneAtATime'
  BY <1>4 DEF Story, OneAtATime, Pending
<1> QED
  BY <1>1, <1>2, <1>3, <1>5, <1>6, NodesMove

LEMMA PrepareAttemptStory ==
  ASSUME TypeOK, Story, NEW c \in Caller, NEW n \in Node, PrepareAttempt(c, n),
         attempt[n] = NoAttempt, state[n] # "READY"
  PROVE  Story'
<1>1. /\ Pending = {}
      /\ attempt' = [attempt EXCEPT ![n] = [status |-> "PREPARED", graph |-> AffectedGraph]]
      /\ state' = state /\ journal' = journal /\ head' = head
  <2>1. attempt[n].status = "NONE"
    BY Attempts
  <2> QED
    BY DEF PrepareAttempt
<1>2. /\ attempt'[n] = [status |-> "PREPARED", graph |-> AffectedGraph]
      /\ \A m \in Node : m # n => attempt'[m] = attempt[m]
  BY <1>1 DEF TypeOK
<1>3. attempt'[n].status = "PREPARED" /\ attempt'[n].graph.head = head
  BY <1>2, GraphNow
<1>4. attempt[n].status = "NONE"
  BY Attempts
<1>5. PendingPromotions' = {n} /\ PendingRollbacks' = {}
  BY <1>1, <1>2, <1>3, JournalKept DEF Pending, PendingPromotions, PendingRollbacks
<1>6. attempt'[n] # NoAttempt
  BY <1>3 DEF NoAttempt
<1>7. \A m \in Node : NodeFits(m)'
  BY <1>1, <1>2, <1>3, <1>4, <1>5 DEF Story, NodeFits
<1>8. OneAtATime'
  BY <1>5 DEF OneAtATime, Pending
<1> QED
  BY <1>1, <1>2, <1>3, <1>4, <1>7, <1>8, NodesMove

LEMMA MarkBoundStory ==
  ASSUME TypeOK, Story, NEW c \in Caller, NEW n \in Node, MarkBound(c, n)
  PROVE  Story'
<1>1. /\ attempt[n].status = "PREPARED"
      /\ attempt' = [attempt EXCEPT ![n].status = "BINDING_UPDATED"]
      /\ state' = state /\ journal' = journal /\ head' = head
  BY DEF MarkBound
<1>2. attempt[n] \in AttemptRow
  BY <1>1, Attempts
<1>3. /\ attempt'[n] = [attempt[n] EXCEPT !.status = "BINDING_UPDATED"]
      /\ \A m \in Node : m # n => attempt'[m] = attempt[m]
  BY <1>1 DEF TypeOK
<1>4. attempt'[n].status = "BINDING_UPDATED" /\ attempt'[n].graph = attempt[n].graph
  BY <1>2, <1>3 DEF AttemptRow
<1>5. PendingPromotions' = PendingPromotions /\ PendingRollbacks' = PendingRollbacks
  BY <1>1, <1>3, <1>4, JournalKept DEF PendingPromotions, PendingRollbacks
<1>6. attempt[n] # NoAttempt
  BY <1>1, Attempts
<1>7. \A m \in Node : NodeFits(m)'
  BY <1>1, <1>3, <1>4, <1>5, <1>6 DEF Story, NodeFits
<1>8. OneAtATime'
  BY <1>5 DEF Story, OneAtATime, Pending
<1> QED
  BY <1>1, <1>3, <1>4, <1>7, <1>8, NodesMove

\* Nobody is pending but the rollback that is appended to.
LEMMA PrepareRollbackStory ==
  ASSUME TypeOK, Story, NEW c \in Caller, NEW n \in Node, PrepareRollback(c, n)
  PROVE  Story' /\ journal' \in Seq(JournalRow)
<1> DEFINE e == Entry("ROLLBACK", n, "PREPARED", Base(n), AffectedGraph)
<1>1. /\ Pending = {} /\ Rollback(n) = {} /\ attempt[n].status = "COMPLETED"
      /\ head.attempt = n /\ head.sha = Candidate(n)
      /\ journal' = Append(journal, e)
      /\ state' = state /\ attempt' = attempt /\ head' = head
  BY DEF PrepareRollback
<1>2. /\ e \in JournalRow /\ e.kind = "ROLLBACK" /\ e.node = n /\ e.phase = "PREPARED"
      /\ e.to = Base(n) /\ e.graph.head = head
  <2>1. Base(n) \in CommitOf
    BY <1>1, Attempts
  <2> QED
    BY <2>1, GraphNow DEF Entry, JournalRow
<1>3. journal \in Seq(JournalRow) /\ \A m \in Node : InPhases(m)
  BY DEF TypeOK, Story
<1> HIDE DEF e
<1>4. Rollback(n)' # {} /\ InPhases(n)' /\ Prepared(n)' = e /\ Phase(n)' = "PREPARED"
  BY <1>1, <1>2, <1>3, PreparedRow
<1>5. \A m \in Node : m # n =>
        /\ Rollback(m)' = Rollback(m) /\ InPhases(m)'
        /\ Rollback(m) # {} => Prepared(m)' = Prepared(m) /\ Phase(m)' = Phase(m)
  BY <1>1, <1>2, <1>3, OtherRow
<1>6. PendingPromotions' = {} /\ PendingRollbacks' = {n}
  <2>1. PendingPromotions' = {}
    BY <1>1 DEF Pending, PendingPromotions
  <2>2. n \in PendingRollbacks'
    BY <1>4 DEF PendingRollbacks
  <2>3. \A m \in Node : m # n => m \notin PendingRollbacks'
    BY <1>1, <1>5 DEF Pending, PendingRollbacks
  <2>4. PendingRollbacks' \subseteq Node
    BY DEF PendingRollbacks
  <2> QED
    BY <2>1, <2>2, <2>3, <2>4
<1>7. \A m \in Node : NodeFits(m)'
  BY <1>1, <1>6 DEF Story, NodeFits
<1>8. ASSUME NEW m \in Node, Rollback(m)' # {}
      PROVE  UndoFits(m)'
  <2>1. Base(m)' = Base(m) /\ Candidate(m)' = Candidate(m)
    BY <1>1 DEF Base, Candidate
  <2>2. CASE m = n
    BY <1>1, <1>2, <1>4, <2>1, <2>2 DEF UndoFits
  <2>3. CASE m # n
    BY <1>1, <1>5, <1>6, <1>8, <2>1, <2>3 DEF UndoFits, Story
  <2> QED
    BY <2>2, <2>3
<1>9. OneAtATime'
  BY <1>6 DEF OneAtATime, Pending
<1>10. History'
  <2>1. Continuous' /\ Completed' = Completed /\ \A i \in Completed : journal'[i] = journal[i]
    BY <1>1, <1>2, <1>3, HeadsKept DEF Story, History
  <2> QED
    BY <1>1, <2>1, HistoryStays
<1>11. journal' \in Seq(JournalRow)
  BY <1>1, <1>2, <1>3
<1> QED
  BY <1>4, <1>5, <1>7, <1>8, <1>9, <1>10, <1>11 DEF Story

LEMMA MarkPublishedStory ==
  ASSUME TypeOK, Story, NEW c \in Caller, NEW n \in Node, MarkPublished(c, n),
         n \in PendingRollbacks
  PROVE  /\ Story' /\ journal' \in Seq(JournalRow)
         /\ PendingRollbacks' = PendingRollbacks /\ PendingPromotions' = PendingPromotions
         /\ Phase(n)' = "PUBLISHED"
         /\ \A m \in Node : Rollback(m) # {} => Rollback(m)' # {} /\ Prepared(m)' = Prepared(m)
         /\ \A m \in Node : Rollback(m) # {} /\ m # n => Phase(m)' = Phase(m)
<1>0. PICK e : e = Again(Prepared(n), "PUBLISHED")
  OBVIOUS
<1>1. /\ state' = state /\ attempt' = attempt /\ head' = head
      /\ Phase(n) # "PREPARED" => journal' = journal
      /\ Phase(n) = "PREPARED" => journal' = Append(journal, e)
  BY <1>0 DEF MarkPublished, Again
<1>2. Rollback(n) # {} /\ Phase(n) # "COMPLETED" /\ Phase(n) \in {"PREPARED", "PUBLISHED", "COMPLETED"}
  BY PreparedRows DEF PendingRollbacks
<1>3. PendingPromotions' = PendingPromotions
  BY <1>1 DEF PendingPromotions
<1>4. CASE Phase(n) # "PREPARED"
  <2>1. journal' = journal
    BY <1>1, <1>4
  <2>2. PendingRollbacks' = PendingRollbacks
    BY <2>1, JournalKept DEF PendingRollbacks
  <2>3. UNCHANGED database
    BY <1>1, <2>1 DEF database
  <2> QED
    BY <1>2, <1>3, <1>4, <2>1, <2>2, <2>3, StoryKept, JournalKept DEF TypeOK
<1>5. CASE Phase(n) = "PREPARED"
  <2>1. /\ e \in JournalRow /\ e.kind = "ROLLBACK" /\ e.node = n /\ e.phase = "PUBLISHED"
    BY <1>0, <1>2, PreparedRows DEF JournalRow, Again
  <2>2. journal \in Seq(JournalRow) /\ \A m \in Node : InPhases(m)
    BY DEF TypeOK, Story
  <2>3. /\ Rollback(n)' # {} /\ InPhases(n)' /\ Prepared(n)' = Prepared(n)
        /\ Phase(n)' = "PUBLISHED"
    BY <1>0, <1>1, <1>2, <1>5, <2>2, NextRow
  <2>4. journal' = Append(journal, e)
    BY <1>1, <1>5
  <2>5. \A m \in Node : m # n =>
          /\ Rollback(m)' = Rollback(m) /\ InPhases(m)'
          /\ Rollback(m) # {} => Prepared(m)' = Prepared(m) /\ Phase(m)' = Phase(m)
    BY <2>1, <2>2, <2>4, OtherRow
  <2>6. PendingRollbacks' = PendingRollbacks
    <3>1. ASSUME NEW m \in Node
          PROVE  m \in PendingRollbacks' <=> m \in PendingRollbacks
      BY <1>2, <2>3, <2>5 DEF PendingRollbacks
    <3> QED
      BY <3>1 DEF PendingRollbacks
  <2>7. \A m \in Node : NodeFits(m)'
    BY <1>1, <1>3 DEF Story, NodeFits
  <2>8. ASSUME NEW m \in Node, Rollback(m)' # {}
        PROVE  UndoFits(m)'
    <3>1. Base(m)' = Base(m) /\ Candidate(m)' = Candidate(m)
      BY <1>1 DEF Base, Candidate
    <3>2. Rollback(m) # {} /\ Prepared(m)' = Prepared(m)
      BY <1>2, <2>3, <2>5, <2>8
    <3> QED
      BY <1>1, <2>6, <3>1, <3>2 DEF UndoFits, Story
  <2>9. OneAtATime'
    BY <1>3, <2>6 DEF Story, OneAtATime, Pending
  <2>10. History'
    <3>1. Continuous' /\ Completed' = Completed /\ \A i \in Completed : journal'[i] = journal[i]
      BY <1>1, <2>1, <2>2, <2>4, HeadsKept DEF Story, History
    <3> QED
      BY <1>1, <3>1, HistoryStays
  <2>11. journal' \in Seq(JournalRow)
    BY <2>1, <2>2, <2>4
  <2>12. Story'
    BY <2>3, <2>5, <2>7, <2>8, <2>9, <2>10 DEF Story
  <2> QED
    BY <1>2, <1>3, <2>3, <2>5, <2>6, <2>11, <2>12
<1> QED
  BY <1>4, <1>5

\* What completes a publication of the head adds the row that says so.
LEMMA HistoryGrows ==
  ASSUME TypeOK, Story, NEW e \in JournalRow, journal' = Append(journal, e),
         e.phase = "COMPLETED", e.graph.head = head, head' = HeadAfter(e), RowFits(e)',
         \A n \in Node : attempt[n].status = "COMPLETED" =>
            attempt'[n] = attempt[n] /\ state'[n] = state[n],
         \A n \in Node : attempt'[n].status = "COMPLETED" <=>
            attempt[n].status = "COMPLETED" \/ (e.kind = "PROMOTION" /\ e.node = n),
         e.kind = "PROMOTION" => attempt[e.node].status # "COMPLETED"
  PROVE  History'
<1> DEFINE k == Len(journal) + 1
<1>1. /\ Continuous'
      /\ Completed' = Completed \cup {k} /\ journal'[k] = e /\ k \notin Completed
      /\ \A i \in Completed : journal'[i] = journal[i]
  BY HeadsGrow DEF TypeOK, Story, History
<1> HIDE DEF k
<1>2. head'.version = head.version + 1 /\ head.version \in Nat
  BY DEF HeadAfter, TypeOK, HeadRow
<1>3. \A i \in Completed' : journal'[i].graph.head.version < head'.version
  <2>1. \A i \in Completed : journal[i].graph.head.version < head.version
    BY DEF Story, History
  <2>2. \A i \in Completed : journal[i].graph.head.version \in Nat
    BY CompletedRows DEF HeadRow
  <2>3. journal'[k].graph.head.version < head'.version
    BY <1>1, <1>2
  <2>4. ASSUME NEW i \in Completed
        PROVE  journal'[i].graph.head.version < head'.version
    <3> DEFINE v == journal[i].graph.head.version
    <3>1. v \in Nat /\ v < head.version
      BY <2>1, <2>2
    <3>2. journal'[i].graph.head.version = v
      BY <1>1
    <3> HIDE DEF v
    <3> QED
      BY <1>2, <3>1, <3>2
  <2> QED
    BY <1>1, <2>3, <2>4
<1>4. ASSUME NEW i \in Completed'
      PROVE  RowFits(journal[i])'
  <2>1. CASE i = k
    BY <1>1, <2>1
  <2>2. CASE i \in Completed
    <3> DEFINE m == journal[i].node
    <3>1. m \in Node /\ journal'[i] = journal[i] /\ RowFits(journal[i])
      BY <1>1, <2>2, CompletedRows DEF Story, History, JournalRow
    <3>2. attempt[m].status = "COMPLETED"
      BY <3>1 DEF RowFits
    <3>3. attempt'[m] = attempt[m] /\ state'[m] = state[m]
      BY <3>1, <3>2
    <3>4. Base(m)' = Base(m) /\ Candidate(m)' = Candidate(m)
      BY <3>1, <3>3 DEF Base, Candidate
    <3> QED
      BY <3>1, <3>3, <3>4 DEF RowFits
  <2> QED
    BY <1>1, <2>1, <2>2
<1>5. ASSUME NEW n \in Node, attempt'[n].status = "COMPLETED"
      PROVE  \E i \in Completed' : PromotionRows(n)' = {i}
  <2>1. CASE e.kind = "PROMOTION" /\ e.node = n
    <3>1. \A i \in Completed : journal[i].node # n
      BY <2>1 DEF Story, History, RowFits
    <3>2. \A i : i \in PromotionRows(n)' <=> i = k
      BY <1>1, <2>1, <3>1 DEF PromotionRows
    <3> QED
      BY <1>1, <3>2
  <2>2. CASE ~(e.kind = "PROMOTION" /\ e.node = n)
    <3>1. \A i : i \in PromotionRows(n)' <=> i \in PromotionRows(n)
      BY <1>1, <2>2 DEF PromotionRows
    <3>2. attempt[n].status = "COMPLETED"
      BY <1>5, <2>2
    <3> QED
      BY <1>1, <3>1, <3>2 DEF Story, History
  <2> QED
    BY <2>1, <2>2
<1> QED
  BY <1>1, <1>3, <1>4, <1>5 DEF History

LEMMA FinalizeStory ==
  ASSUME TypeOK, Story, NEW c \in Caller, NEW n \in Node, FinalizePromotion(c, n)
  PROVE  /\ Story' /\ journal' \in Seq(JournalRow) /\ head' \in HeadRow
         /\ PendingRollbacks' = {} /\ PendingPromotions' = {}
         /\ \A m \in Node : Rollback(m) # {} =>
              Rollback(m)' # {} /\ Prepared(m)' = Prepared(m) /\ Phase(m)' = Phase(m)
<1>0. PICK e : e = Entry("PROMOTION", n, "COMPLETED", Candidate(n), attempt[n].graph)
  OBVIOUS
<1>1. /\ attempt[n].status = "BINDING_UPDATED" /\ state[n] = "PASSED"
      /\ state' = [state EXCEPT ![n] = "INTEGRATED"]
      /\ attempt' = [attempt EXCEPT ![n].status = "COMPLETED"]
      /\ journal' = Append(journal, e)
      /\ head' = [version |-> head.version + 1, sha |-> Candidate(n), attempt |-> n]
  BY <1>0 DEF FinalizePromotion
<1>2. /\ n \in PendingPromotions /\ attempt[n] # NoAttempt /\ attempt[n] \in AttemptRow
      /\ attempt[n].graph \in GraphOf /\ attempt[n].graph.head = head
  <2>1. attempt[n] # NoAttempt /\ attempt[n] \in AttemptRow /\ attempt[n].graph \in GraphOf
    BY <1>1, Attempts
  <2>2. n \in PendingPromotions
    BY <1>1 DEF PendingPromotions
  <2> QED
    BY <2>1, <2>2 DEF Story, NodeFits
<1>3. Candidate(n) \in CommitOf
  BY <1>2, Candidates
<1>4. /\ e \in JournalRow /\ e.kind = "PROMOTION" /\ e.node = n /\ e.phase = "COMPLETED"
      /\ e.to = Candidate(n) /\ e.graph = attempt[n].graph
  BY <1>0, <1>2, <1>3 DEF Entry, JournalRow
<1>5. head' = HeadAfter(e) /\ head' \in HeadRow
  BY <1>1, <1>2, <1>3, <1>4 DEF HeadAfter, HeadRow, TypeOK
<1>6. /\ attempt'[n] = [attempt[n] EXCEPT !.status = "COMPLETED"]
      /\ \A m \in Node : m # n => attempt'[m] = attempt[m]
      /\ state'[n] = "INTEGRATED" /\ \A m \in Node : m # n => state'[m] = state[m]
  BY <1>1 DEF TypeOK
<1>7. attempt'[n].status = "COMPLETED" /\ attempt'[n].graph = attempt[n].graph
  BY <1>2, <1>6 DEF AttemptRow
<1>8. \A m \in Node : Base(m)' = Base(m) /\ Candidate(m)' = Candidate(m)
  BY <1>6, <1>7 DEF Base, Candidate
<1>9. journal \in Seq(JournalRow) /\ \A m \in Node : InPhases(m)
  BY DEF TypeOK, Story
<1>10. \A m \in Node : /\ Rollback(m)' = Rollback(m) /\ InPhases(m)'
                       /\ Rollback(m) # {} => Prepared(m)' = Prepared(m) /\ Phase(m)' = Phase(m)
  BY <1>1, <1>4, <1>9, OtherRow
<1>11. Pending = {n}
  BY <1>2 DEF Story, OneAtATime, Pending
<1>12. n \notin PendingRollbacks
  BY <1>1 DEF Story, UndoFits, PendingRollbacks
<1>13. PendingPromotions' = {} /\ PendingRollbacks' = {}
  <2>1. PendingPromotions' = {}
    BY <1>6, <1>7, <1>11 DEF Pending, PendingPromotions
  <2>2. PendingRollbacks' = {}
    BY <1>10, <1>11, <1>12 DEF Pending, PendingRollbacks
  <2> QED
    BY <2>1, <2>2
<1>14. attempt'[n] # NoAttempt
  BY <1>7 DEF NoAttempt
<1>15. \A m \in Node : NodeFits(m)'
  BY <1>1, <1>6, <1>7, <1>13 DEF Story, NodeFits
<1>16. ASSUME NEW m \in Node, Rollback(m)' # {}
       PROVE  UndoFits(m)'
  <2>1. Rollback(m) # {} /\ Prepared(m)' = Prepared(m) /\ UndoFits(m)
    BY <1>10, <1>16 DEF Story
  <2>2. m # n
    BY <1>1, <2>1 DEF UndoFits
  <2> QED
    BY <1>6, <1>8, <1>13, <2>1, <2>2 DEF UndoFits
<1>17. OneAtATime'
  BY <1>13 DEF OneAtATime, Pending
<1>18. History'
  <2>1. RowFits(e)'
    BY <1>4, <1>6, <1>7, <1>8 DEF RowFits
  <2> QED
    BY <1>1, <1>2, <1>4, <1>5, <1>6, <1>7, <2>1, HistoryGrows
<1>19. journal' \in Seq(JournalRow)
  BY <1>1, <1>4, <1>9
<1> QED
  BY <1>5, <1>10, <1>13, <1>15, <1>16, <1>17, <1>18, <1>19 DEF Story

LEMMA CompleteRollbackStory ==
  ASSUME TypeOK, Story, NEW c \in Caller, NEW n \in Node, CompleteRollback(c, n),
         Rollback(n) # {}, Phase(n) # "PREPARED"
  PROVE  /\ Story' /\ journal' \in Seq(JournalRow) /\ head' \in HeadRow
         /\ n \in PendingRollbacks /\ PendingRollbacks' = {} /\ PendingPromotions' = {}
         /\ \A m \in Node : Rollback(m) # {} => Rollback(m)' # {} /\ Prepared(m)' = Prepared(m)
         /\ \A m \in Node : Rollback(m) # {} /\ Phase(m) # "PREPARED" => Phase(m)' # "PREPARED"
<1>0. PICK e : e = Again(Prepared(n), "COMPLETED")
  OBVIOUS
<1>1. /\ attempt[n].status = "COMPLETED" /\ state[n] = "INTEGRATED"
      /\ AffectedGraph = Prepared(n).graph
      /\ journal' = Append(journal, e)
      /\ head' = [version |-> head.version + 1, sha |-> To(n), attempt |-> n]
      /\ state' = state /\ attempt' = attempt
  BY <1>0 DEF CompleteRollback, RollbackReady, Again
<1>2. journal \in Seq(JournalRow) /\ \A m \in Node : InPhases(m)
  BY DEF TypeOK, Story
<1>3. Prepared(n).graph.head = head
  BY <1>1, GraphNow
\* A rollback that was completed is of a head that has gone.
<1>4. Phase(n) = "PUBLISHED" /\ n \in PendingRollbacks
  <2>1. ASSUME Phase(n) = "COMPLETED"
        PROVE  FALSE
    <3>1. PICK i \in Completed : journal[i].graph = Prepared(n).graph
      BY <1>2, <2>1, CompletedRow
    <3>2. head.version < head.version /\ head.version \in Nat
      BY <1>3, <3>1 DEF Story, History, TypeOK, HeadRow
    <3> QED
      BY <3>2
  <2> QED
    BY <2>1, PreparedRows
<1>5. /\ Prepared(n) \in JournalRow /\ Prepared(n).kind = "ROLLBACK" /\ Prepared(n).node = n
      /\ UndoFits(n)
  BY PreparedRows
<1>6. /\ e \in JournalRow /\ e.kind = "ROLLBACK" /\ e.node = n /\ e.phase = "COMPLETED"
      /\ e.to = To(n) /\ e.graph.head = head /\ To(n) \in CommitOf
  BY <1>0, <1>3, <1>5 DEF JournalRow, To, Again
<1>7. /\ Rollback(n)' # {} /\ InPhases(n)' /\ Prepared(n)' = Prepared(n)
      /\ Phase(n)' = "COMPLETED"
  BY <1>0, <1>1, <1>2, <1>4, NextRow
<1>8. \A m \in Node : m # n =>
        /\ Rollback(m)' = Rollback(m) /\ InPhases(m)'
        /\ Rollback(m) # {} => Prepared(m)' = Prepared(m) /\ Phase(m)' = Phase(m)
  BY <1>1, <1>2, <1>6, OtherRow
<1>9. head' = HeadAfter(e) /\ head' \in HeadRow
  BY <1>1, <1>6 DEF HeadAfter, HeadRow, TypeOK
<1>10. Pending = {n} /\ n \notin PendingPromotions
  BY <1>1, <1>4 DEF Story, OneAtATime, Pending, PendingPromotions
<1>11. PendingPromotions' = {} /\ PendingRollbacks' = {}
  <2>1. PendingPromotions' = {}
    BY <1>1, <1>10 DEF Pending, PendingPromotions
  <2>2. PendingRollbacks' = {}
    BY <1>7, <1>8, <1>10 DEF Pending, PendingRollbacks
  <2> QED
    BY <2>1, <2>2
<1>12. \A m \in Node : NodeFits(m)'
  BY <1>1, <1>11 DEF Story, NodeFits
<1>13. ASSUME NEW m \in Node, Rollback(m)' # {}
       PROVE  UndoFits(m)'
  <2>1. Rollback(m) # {} /\ Prepared(m)' = Prepared(m) /\ UndoFits(m)
    BY <1>7, <1>8, <1>13 DEF Story
  <2>2. Base(m)' = Base(m)
    BY <1>1 DEF Base
  <2> QED
    BY <1>1, <1>11, <2>1, <2>2 DEF UndoFits
<1>14. OneAtATime'
  BY <1>11 DEF OneAtATime, Pending
<1>15. History'
  <2>1. head.attempt = n /\ head.sha = Candidate(n) /\ To(n) = Base(n)
    BY <1>4, <1>5 DEF UndoFits, To
  <2>2. Base(n)' = Base(n) /\ Candidate(n)' = Candidate(n)
    BY <1>1 DEF Base, Candidate
  <2>3. RowFits(e)'
    BY <1>1, <1>6, <2>1, <2>2 DEF RowFits
  <2> QED
    BY <1>1, <1>6, <1>9, <2>3, HistoryGrows
<1>16. journal' \in Seq(JournalRow)
  BY <1>1, <1>2, <1>6
<1>17. Story'
  BY <1>7, <1>8, <1>12, <1>13, <1>14, <1>15 DEF Story
<1> QED
  BY <1>4, <1>7, <1>8, <1>9, <1>11, <1>16, <1>17

-----------------------------------------------------------------------------
(* What the calls in progress rely on *)

CallFits(r) ==
  /\ r.pc = "preparing" => state[r.node] # "READY"
  /\ r.pc \in {"recovering", "finalizing", "publishing", "retrying"} => attempt[r.node] # NoAttempt
  /\ r.pc \in {"undoing", "completing"} => Rollback(r.node) # {}
  /\ r.pc = "completing" => Phase(r.node) # "PREPARED"

Saved(n) == [of |-> Candidate(n), to |-> Base(n)] \in rollbackRef

\* A call under the lock works on the one pending publication, and finds what its
\* earlier steps left outside the database.
LockFits(r) ==
  LET n == r.node IN
  /\ r.pc \in {"generation", "first ref", "rollback ref", "accepted ref", "binding", "marking"} =>
       n \in PendingPromotions
  /\ r.pc = "generation" => Base(n) \in generation
  /\ r.pc = "first ref" => accepted = None /\ {Base(n), Candidate(n)} \subseteq generation
  /\ r.pc = "rollback ref" => accepted # None /\ Candidate(n) \in generation
  /\ r.pc = "accepted ref" => accepted # None /\ Candidate(n) \in generation /\ Saved(n)
  /\ r.pc = "binding" => accepted = Candidate(n)
  /\ r.pc = "marking" => accepted = Candidate(n) /\ binding = Candidate(n)
  /\ r.pc \in {"undo ref", "undo binding", "undo marking"} => n \in PendingRollbacks
  /\ r.pc = "undo binding" => accepted = To(n)
  /\ r.pc = "undo marking" => accepted = To(n) /\ binding = To(n)

\* A rollback ref leads one change back, and is there before its commit is accepted.
RefsFit ==
  /\ \A r \in rollbackRef : \E x \in Change : r.of = Append(r.to, x)
  /\ \A n \in Node :
       attempt[n] # NoAttempt /\ (accepted = Candidate(n) \/ attempt[n].status # "PREPARED") =>
         Saved(n)

Places ==
  /\ RefsFit
  /\ head.version > 0 => head.sha \in generation
  /\ \A n \in PendingPromotions : PromotionFits(n)
  /\ \A n \in PendingRollbacks : RollbackFits(n)
  /\ Pending = {} => HeadFits
  /\ GenerationFirst

CoordinatorInvariant ==
  /\ TypeOK /\ Story /\ Places
  /\ \A c \in Caller : CallFits(call[c]) /\ LockFits(call[c])

-----------------------------------------------------------------------------
(* Calls *)

\* A step of a call leaves the others where they are; the lock is free, or this
\* call's, before and after it, or stays whose it is.
LEMMA CallTyped ==
  ASSUME TypeOK, NEW c \in Caller, NEW x \in InCall \cup {Idle},
         call' = [call EXCEPT ![c] = x],
         writer' = writer \/ (writer \in {None, c} /\ writer' \in {None, c}),
         x.pc \in Locked <=> writer' = c
  PROVE  /\ call' \in [Caller -> InCall \cup {Idle}] /\ writer' \in Caller \cup {None}
         /\ \A d \in Caller : call'[d].pc \in Locked <=> writer' = d
         /\ call'[c] = x /\ \A d \in Caller : d # c => call'[d] = call[d]
<1>1. /\ call \in [Caller -> InCall \cup {Idle}] /\ writer \in Caller \cup {None}
      /\ \A d \in Caller : call[d].pc \in Locked <=> writer = d
  BY DEF TypeOK
<1>2. call'[c] = x /\ \A d \in Caller : d # c => call'[d] = call[d]
  BY <1>1
<1>3. call' \in [Caller -> InCall \cup {Idle}] /\ writer' \in Caller \cup {None}
  BY <1>1
<1>4. None \notin Caller
  BY PublicationAssumption
<1>5. \A d \in Caller : call'[d].pc \in Locked <=> writer' = d
  BY <1>1, <1>2, <1>4
<1> QED
  BY <1>2, <1>3, <1>5

\* What a call is at, with its node.
LEMMA InCalls ==
  ASSUME NEW n \in Node
  PROVE  /\ \A pc \in Locked \cup Loose : [pc |-> pc, node |-> n] \in InCall
         /\ \A then \in {"publishing", "retrying", "idle"} :
              \A pc \in {"recovering", "finalizing"} :
                [pc |-> pc, node |-> n, then |-> then] \in InCall
         /\ \A v \in Nat : [pc |-> "preparing", node |-> n, version |-> v] \in InCall
         /\ Idle.pc = "idle"
BY DEF InCall, Idle

LEMMA Went ==
  ASSUME TypeOK, NEW c \in Caller, NEW n \in Node, ~At(c, "idle"), call[c].node = n,
         NEW pc, pc \in Locked \cup Loose, Goto(c, pc)
  PROVE  call' = [call EXCEPT ![c] = [pc |-> pc, node |-> n]]
<1>1. pc # "idle"
  BY DEF Locked, Loose
<1>2. call' = [call EXCEPT ![c] = [pc |-> pc, node |-> @.node]]
  BY <1>1 DEF Goto
<1> QED
  BY <1>2

DatabaseTyped ==
  /\ state \in [Node -> {"READY", "PASSED", "INTEGRATED"}]
  /\ attempt \in [Node -> AttemptRow \cup {NoAttempt}]
  /\ journal \in Seq(JournalRow)
  /\ head \in HeadRow

PhysicalTyped ==
  /\ generation \subseteq CommitOf /\ binding \in CommitOf
  /\ accepted \in CommitOf \cup {None}
  /\ rollbackRef \subseteq [of : CommitOf, to : CommitOf]

\* What no step takes back.
Progress ==
  \A n \in Node :
    /\ attempt[n] # NoAttempt => attempt'[n] # NoAttempt
    /\ state[n] # "READY" => state'[n] # "READY"
    /\ Rollback(n) # {} => Rollback(n)' # {}
    /\ Rollback(n) # {} /\ Phase(n) # "PREPARED" => Phase(n)' # "PREPARED"

LEMMA RowsKept ==
  ASSUME attempt' = attempt, journal' = journal, head' = head
  PROVE  /\ PendingPromotions' = PendingPromotions /\ PendingRollbacks' = PendingRollbacks
         /\ Pending' = Pending
         /\ \A n \in Node : /\ Base(n)' = Base(n) /\ Candidate(n)' = Candidate(n)
                             /\ Rollback(n)' = Rollback(n) /\ Prepared(n)' = Prepared(n)
                             /\ Phase(n)' = Phase(n) /\ To(n)' = To(n)
<1>1. PendingPromotions' = PendingPromotions /\ PendingRollbacks' = PendingRollbacks
  BY JournalKept DEF PendingPromotions, PendingRollbacks
<1> QED
  BY <1>1, JournalKept DEF Pending, Base, Candidate, To

LEMMA DatabaseKept ==
  ASSUME UNCHANGED database
  PROVE  /\ state' = state /\ attempt' = attempt /\ journal' = journal /\ head' = head
         /\ PendingPromotions' = PendingPromotions /\ PendingRollbacks' = PendingRollbacks
         /\ Pending' = Pending
         /\ \A n \in Node : /\ Base(n)' = Base(n) /\ Candidate(n)' = Candidate(n)
                             /\ Rollback(n)' = Rollback(n) /\ Prepared(n)' = Prepared(n)
                             /\ Phase(n)' = Phase(n) /\ To(n)' = To(n)
BY RowsKept DEF database

\* A step that leaves the database alone.
LEMMA DatabaseStays ==
  ASSUME CoordinatorInvariant, UNCHANGED database
  PROVE  Progress /\ DatabaseTyped' /\ Story'
<1>1. Progress
  BY DatabaseKept DEF Progress
<1>2. DatabaseTyped'
  BY DatabaseKept DEF DatabaseTyped, CoordinatorInvariant, TypeOK
<1> QED
  BY <1>1, <1>2, StoryKept DEF CoordinatorInvariant

LEMMA CallFitsOn ==
  ASSUME NEW r \in InCall \cup {Idle}, CallFits(r), Progress
  PROVE  CallFits(r)'
<1>1. CASE r.pc # "idle"
  <2>1. PICK n \in Node : n = r.node
    BY <1>1 DEF InCall, Idle
  <2>2. /\ attempt[n] # NoAttempt => attempt'[n] # NoAttempt
        /\ state[n] # "READY" => state'[n] # "READY"
        /\ Rollback(n) # {} => Rollback(n)' # {}
        /\ Rollback(n) # {} /\ Phase(n) # "PREPARED" => Phase(n)' # "PREPARED"
    BY DEF Progress
  <2> QED
    BY <2>1, <2>2 DEF CallFits
<1>2. CASE r.pc = "idle"
  BY <1>2 DEF CallFits
<1> QED
  BY <1>1, <1>2

\* The calls whose turn it was not fit on: their records of the past stay true, and
\* one that holds the lock sees nothing change.
LEMMA OtherFits ==
  ASSUME TypeOK, NEW d \in Caller, NEW r, r = call[d], CallFits(r), LockFits(r), Progress,
         UNCHANGED <<database, physical>> \/ writer # d
  PROVE  CallFits(r)' /\ LockFits(r)'
<1>1. r \in InCall \cup {Idle}
  BY DEF TypeOK
<1>2. CallFits(r)'
  BY <1>1, CallFitsOn
<1>3. CASE writer # d
  <2>1. r.pc \notin Locked
    BY <1>3 DEF TypeOK
  <2> QED
    BY <1>2, <2>1 DEF LockFits, Locked
<1>4. CASE UNCHANGED <<database, physical>>
  <2>1. generation' = generation /\ accepted' = accepted /\ binding' = binding /\ rollbackRef' = rollbackRef
    BY <1>4 DEF physical
  <2>2. CASE r.pc # "idle"
    <3>1. PICK n \in Node : n = r.node
      BY <1>1, <2>2 DEF InCall, Idle
    <3>2. /\ Base(n)' = Base(n) /\ Candidate(n)' = Candidate(n) /\ To(n)' = To(n)
          /\ PendingPromotions' = PendingPromotions /\ PendingRollbacks' = PendingRollbacks
      BY <1>4, DatabaseKept
    <3>3. Saved(n)' = Saved(n)
      BY <2>1, <3>2 DEF Saved
    <3> QED
      BY <1>2, <2>1, <3>1, <3>2, <3>3 DEF LockFits
  <2>3. CASE r.pc = "idle"
    BY <1>2, <2>3 DEF LockFits
  <2> QED
    BY <2>2, <2>3
<1> QED
  BY <1>2, <1>3, <1>4

\* What a step has to show: that its own call fits where it goes, and what it does
\* to the database and outside it.
LEMMA Stepped ==
  ASSUME CoordinatorInvariant, NEW c \in Caller, NEW x \in InCall \cup {Idle},
         call' = [call EXCEPT ![c] = x],
         writer' = writer \/ (writer \in {None, c} /\ writer' \in {None, c}),
         x.pc \in Locked <=> writer' = c,
         UNCHANGED <<database, physical>> \/ writer \in {None, c},
         Progress, DatabaseTyped', PhysicalTyped', Story', Places',
         CallFits(x)', LockFits(x)'
  PROVE  CoordinatorInvariant'
<1>1. TypeOK /\ \A d \in Caller : CallFits(call[d]) /\ LockFits(call[d])
  BY DEF CoordinatorInvariant
<1>2. /\ call' \in [Caller -> InCall \cup {Idle}] /\ writer' \in Caller \cup {None}
      /\ \A d \in Caller : call'[d].pc \in Locked <=> writer' = d
      /\ call'[c] = x /\ \A d \in Caller : d # c => call'[d] = call[d]
  BY <1>1, CallTyped
<1>3. TypeOK'
  BY <1>2 DEF TypeOK, DatabaseTyped, PhysicalTyped
<1>4. ASSUME NEW d \in Caller
      PROVE  (CallFits(call[d]) /\ LockFits(call[d]))'
  <2>1. CASE d = c
    BY <1>2, <2>1
  <2>2. CASE d # c
    <3>1. PICK r : r = call[d]
      OBVIOUS
    <3>2. UNCHANGED <<database, physical>> \/ writer # d
      BY <2>2, PublicationAssumption
    <3>3. CallFits(r)' /\ LockFits(r)'
      BY <1>1, <3>1, <3>2, OtherFits
    <3>4. call'[d] = r
      BY <1>2, <2>2, <3>1
    <3> QED
      BY <3>3, <3>4
  <2> QED
    BY <2>1, <2>2
<1> QED
  BY <1>3, <1>4 DEF CoordinatorInvariant

-----------------------------------------------------------------------------
(* Steps outside the database *)

LEMMA PlacesKept ==
  ASSUME Places, attempt' = attempt, journal' = journal, head' = head, UNCHANGED physical
  PROVE  Places'
<1>1. generation' = generation /\ accepted' = accepted /\ binding' = binding /\ rollbackRef' = rollbackRef
  BY DEF physical
<1>2. RefsFit'
  BY <1>1, RowsKept DEF Places, RefsFit, Saved
<1>3. \A n \in PendingPromotions' : PromotionFits(n)'
  BY <1>1, RowsKept DEF Places, PromotionFits, Reached, PendingPromotions
<1>4. \A n \in PendingRollbacks' : RollbackFits(n)'
  BY <1>1, RowsKept DEF Places, RollbackFits, Reached, RollbackOf, PendingRollbacks
<1>5. Pending' = {} => HeadFits'
  BY <1>1, RowsKept DEF Places, HeadFits
<1> QED
  BY <1>1, <1>2, <1>3, <1>4, <1>5 DEF Places, GenerationFirst

\* More generations do not take a place away.
LEMMA GenerationsGrow ==
  ASSUME Places, UNCHANGED database, generation \subseteq generation',
         accepted' = accepted, binding' = binding, rollbackRef' = rollbackRef
  PROVE  Places'
<1>1. RefsFit'
  BY DatabaseKept DEF Places, RefsFit, Saved
<1>2. \A n \in PendingPromotions' : PromotionFits(n)'
  BY DatabaseKept DEF Places, PromotionFits, Reached, PendingPromotions
<1>3. \A n \in PendingRollbacks' : RollbackFits(n)'
  BY DatabaseKept DEF Places, RollbackFits, Reached, RollbackOf, PendingRollbacks
<1>4. Pending' = {} => HeadFits'
  BY DatabaseKept DEF Places, HeadFits
<1> QED
  BY <1>1, <1>2, <1>3, <1>4, DatabaseKept DEF Places, GenerationFirst

\* A step of the pending promotion: nothing else is pending.
LEMMA PromotionMoves ==
  ASSUME TypeOK, Story, Places, UNCHANGED database, NEW n \in PendingPromotions,
         generation' = generation, RefsFit', PromotionFits(n)', GenerationFirst'
  PROVE  Places'
<1>1. n \in Node /\ n \in Pending /\ n \notin PendingRollbacks
  BY DEF PendingPromotions, Pending, Story, UndoFits, PendingRollbacks
<1>2. PendingPromotions = {n} /\ PendingRollbacks = {}
  BY <1>1 DEF Pending, Story, OneAtATime
<1> QED
  BY <1>1, <1>2, DatabaseKept DEF Places

LEMMA RollbackMoves ==
  ASSUME TypeOK, Story, Places, UNCHANGED database, NEW n \in PendingRollbacks,
         generation' = generation, RefsFit', RollbackFits(n)', GenerationFirst'
  PROVE  Places'
<1>1. n \in Node /\ n \in Pending /\ n \notin PendingPromotions
  BY DEF PendingPromotions, Pending, Story, UndoFits, PendingRollbacks
<1>2. PendingRollbacks = {n} /\ PendingPromotions = {}
  BY <1>1 DEF Pending, Story, OneAtATime
<1> QED
  BY <1>1, <1>2, DatabaseKept DEF Places

\* A commit that is accepted now, and whose rollback ref is saved if it is of a
\* pending promotion.
LEMMA RefsStay ==
  ASSUME TypeOK, Story, RefsFit, UNCHANGED database, rollbackRef' = rollbackRef,
         \A n \in PendingPromotions : accepted' = Candidate(n) => Saved(n)
  PROVE  RefsFit'
<1>1. ASSUME NEW n \in Node, attempt[n] # NoAttempt,
             accepted' = Candidate(n) \/ attempt[n].status # "PREPARED"
      PROVE  Saved(n)
  <2>1. CASE attempt[n].status = "PREPARED"
    BY <1>1, <2>1 DEF PendingPromotions
  <2>2. CASE attempt[n].status # "PREPARED"
    BY <1>1, <2>2 DEF RefsFit
  <2> QED
    BY <2>1, <2>2
<1> QED
  BY <1>1, DatabaseKept DEF RefsFit, Saved

-----------------------------------------------------------------------------
(* Steps of a call that change nothing else *)

LEMMA CallOnly ==
  ASSUME CoordinatorInvariant, NEW c \in Caller, NEW x \in InCall \cup {Idle},
         call' = [call EXCEPT ![c] = x], UNCHANGED <<database, physical>>,
         x.pc \notin Locked, CallFits(x),
         (writer' = writer /\ writer # c) \/ (writer = c /\ writer' = None)
  PROVE  CoordinatorInvariant'
<1>1. Progress /\ DatabaseTyped' /\ Story'
  BY DatabaseStays
<1>2. Places'
  BY DatabaseKept, PlacesKept DEF CoordinatorInvariant
<1>3. PhysicalTyped'
  BY DEF PhysicalTyped, physical, CoordinatorInvariant, TypeOK
<1>4. CallFits(x)'
  BY <1>1, CallFitsOn
<1>5. LockFits(x)'
  BY DEF LockFits, Locked
<1>6. /\ x.pc \in Locked <=> writer' = c
      /\ writer' = writer \/ (writer \in {None, c} /\ writer' \in {None, c})
  BY PublicationAssumption
<1> QED
  BY <1>1, <1>2, <1>3, <1>4, <1>5, <1>6, Stepped

\* A call that is not in a locked transaction does not hold the lock.
LEMMA Unlocked ==
  ASSUME CoordinatorInvariant, NEW c \in Caller, call[c].pc \notin Locked
  PROVE  writer # c
BY DEF CoordinatorInvariant, TypeOK

LEMMA AdmitStep ==
  ASSUME CoordinatorInvariant, NEW c \in Caller, NEW n \in Node, Admit(c, n)
  PROVE  CoordinatorInvariant'
<1>1. PICK x : x = [pc |-> "preparing", node |-> n, version |-> head.version]
  OBVIOUS
<1>2. x \in InCall
  BY <1>1, InCalls DEF CoordinatorInvariant, TypeOK, HeadRow
<1>3. x.pc \notin Locked /\ CallFits(x)
  BY <1>1 DEF Admit, CallFits, Locked
<1>4. /\ call' = [call EXCEPT ![c] = x] /\ UNCHANGED <<database, physical>> /\ writer' = writer
      /\ call[c].pc \notin Locked
  BY <1>1 DEF Admit, At, Locked
<1> QED
  BY <1>2, <1>3, <1>4, CallOnly, Unlocked

\* A call that returns, is cut off, or goes on with an attempt there is.
LEMMA ReturnStep ==
  ASSUME CoordinatorInvariant, NEW c \in Caller, Return(c), UNCHANGED <<database, physical>>,
         (writer' = writer /\ writer # c) \/ (writer = c /\ writer' = None)
  PROVE  CoordinatorInvariant'
<1>1. PICK x : x = Idle
  OBVIOUS
<1>2. x.pc \notin Locked /\ CallFits(x)
  BY <1>1 DEF Idle, Locked, CallFits
<1>3. call' = [call EXCEPT ![c] = x]
  BY <1>1 DEF Return
<1> QED
  BY <1>1, <1>2, <1>3, CallOnly

LEMMA AbortStep ==
  ASSUME CoordinatorInvariant, NEW c \in Caller, Abort(c)
  PROVE  CoordinatorInvariant'
BY ReturnStep DEF Abort

LEMMA RecoveringStep ==
  ASSUME CoordinatorInvariant, NEW c \in Caller, NEW n \in Node,
         NEW then \in {"publishing", "retrying", "idle"}, call[c].pc \notin Locked,
         attempt[n] # NoAttempt, call' = [call EXCEPT ![c] = Recovering(n, then)],
         UNCHANGED <<database, physical, writer>>
  PROVE  CoordinatorInvariant'
<1>1. PICK x : x = Recovering(n, then)
  OBVIOUS
<1>2. PICK pc \in {"recovering", "finalizing"} : x = [pc |-> pc, node |-> n, then |-> then]
  BY <1>1 DEF Recovering
<1>3. x \in InCall
  BY <1>2, InCalls
<1>4. x.pc \notin Locked /\ CallFits(x)
  BY <1>2 DEF Locked, CallFits
<1> QED
  BY <1>1, <1>3, <1>4, CallOnly, Unlocked

LEMMA GoOnStep ==
  ASSUME CoordinatorInvariant, NEW c \in Caller, NEW n \in Node, call[c].pc \notin Locked,
         NEW pc \in {"publishing", "retrying", "undoing"},
         pc = "undoing" => Rollback(n) # {}, pc # "undoing" => attempt[n] # NoAttempt,
         call' = [call EXCEPT ![c] = [pc |-> pc, node |-> n]],
         UNCHANGED <<database, physical, writer>>
  PROVE  CoordinatorInvariant'
<1>1. PICK x : x = [pc |-> pc, node |-> n]
  OBVIOUS
<1>2. x \in InCall
  BY <1>1, InCalls DEF Loose
<1>3. x.pc \notin Locked /\ CallFits(x)
  BY <1>1 DEF Locked, CallFits
<1> QED
  BY <1>1, <1>2, <1>3, CallOnly, Unlocked

LEMMA ReconcileStep ==
  ASSUME CoordinatorInvariant, NEW c \in Caller, NEW n \in Node,
         NEW then \in {"retrying", "idle"}, Reconcile(c, n, then)
  PROVE  CoordinatorInvariant'
<1>1. attempt[n] # NoAttempt
  BY DEF Reconcile, PendingPromotions, NoAttempt
<1> QED
  BY <1>1, RecoveringStep DEF Reconcile, At, Locked

LEMMA RetryStep ==
  ASSUME CoordinatorInvariant, NEW c \in Caller, NEW n \in Node, Retry(c, n)
  PROVE  CoordinatorInvariant'
<1>1. call[c].pc \notin Locked /\ UNCHANGED <<database, physical, writer>>
  BY DEF Retry, At, Locked
<1>2. CASE attempt[n].status = "COMPLETED"
  BY <1>1, <1>2, ReturnStep, Unlocked DEF Retry
<1>3. CASE attempt[n].status # "COMPLETED"
  <2>1. attempt[n] # NoAttempt
    BY DEF Retry, At, CoordinatorInvariant, CallFits
  <2> QED
    BY <1>1, <1>3, <2>1, RecoveringStep DEF Retry
<1> QED
  BY <1>2, <1>3

LEMMA RecoverNothingStep ==
  ASSUME CoordinatorInvariant, NEW c \in Caller, NEW n \in Node, RecoverNothing(c, n)
  PROVE  CoordinatorInvariant'
<1>1. /\ call[c].pc = "recovering" /\ call[c].node = n /\ UNCHANGED <<database, physical, writer>>
      /\ Goto(c, call[c].then)
  BY DEF RecoverNothing, At
<1>2. PICK then : then = call[c].then
  OBVIOUS
<1>3. call[c].pc \notin Locked
  BY <1>1 DEF Locked
<1>4. then \in {"publishing", "retrying", "idle"}
  <2>1. PICK r \in InCall \cup {Idle} : r = call[c]
    BY DEF CoordinatorInvariant, TypeOK
  <2>2. r.pc = "recovering" /\ then = r.then
    BY <1>1, <1>2, <2>1
  <2>3. r \in [pc : {"recovering", "finalizing"}, node : Node,
               then : {"publishing", "retrying", "idle"}]
    <3>1. r \notin [pc : {"preparing"}, node : Node, version : Nat] /\ r # Idle
      BY <2>2 DEF Idle
    <3>2. r \notin [pc : Locked \cup Loose, node : Node]
      BY <2>2 DEF Locked, Loose
    <3> QED
      BY <2>1, <3>1, <3>2 DEF InCall
  <2> QED
    BY <2>2, <2>3
<1>5. CASE then = "idle"
  BY <1>1, <1>2, <1>3, <1>5, ReturnStep, Unlocked DEF Goto, Return
<1>6. CASE then # "idle"
  <2>1. attempt[n] # NoAttempt
    BY <1>1 DEF CoordinatorInvariant, CallFits
  <2>2. call' = [call EXCEPT ![c] = [pc |-> then, node |-> n]]
    BY <1>1, <1>2, <1>6 DEF Goto
  <2> QED
    BY <1>1, <1>3, <1>4, <1>6, <2>1, <2>2, GoOnStep
<1> QED
  BY <1>5, <1>6

LEMMA ReconcileRollbackStep ==
  ASSUME CoordinatorInvariant, NEW c \in Caller, NEW n \in Node, ReconcileRollback(c, n)
  PROVE  CoordinatorInvariant'
<1>1. Rollback(n) # {}
  BY DEF ReconcileRollback, PendingRollbacks
<1> QED
  BY <1>1, GoOnStep DEF ReconcileRollback, At, Locked

-----------------------------------------------------------------------------
(* Steps outside any call *)

LEMMA NoCall ==
  ASSUME CoordinatorInvariant, writer = None, call' = call, writer' = writer,
         Progress, DatabaseTyped', PhysicalTyped', Story', Places'
  PROVE  CoordinatorInvariant'
<1>1. TypeOK /\ \A d \in Caller : CallFits(call[d]) /\ LockFits(call[d]) /\ writer # d
  BY PublicationAssumption DEF CoordinatorInvariant
<1>2. TypeOK'
  BY <1>1 DEF TypeOK, DatabaseTyped, PhysicalTyped
<1>3. ASSUME NEW d \in Caller
      PROVE  (CallFits(call[d]) /\ LockFits(call[d]))'
  <2>1. PICK r : r = call[d]
    OBVIOUS
  <2>2. CallFits(r)' /\ LockFits(r)'
    BY <1>1, <2>1, OtherFits
  <2>3. call'[d] = r
    BY <2>1
  <2> QED
    BY <2>2, <2>3
<1> QED
  BY <1>2, <1>3 DEF CoordinatorInvariant

\* Who holds the lock works on a pending publication.
LEMMA LockedPending ==
  ASSUME CoordinatorInvariant, Pending = {}
  PROVE  writer = None
<1>1. ASSUME NEW c \in Caller, writer = c
      PROVE  FALSE
  <2>1. PICK r : r = call[c]
    OBVIOUS
  <2>2. r.pc \in Locked /\ LockFits(r)
    BY <1>1, <2>1 DEF CoordinatorInvariant, TypeOK
  <2>3. r.node \in Pending
    BY <2>2 DEF LockFits, Locked, Pending
  <2> QED
    BY <2>3
<1> QED
  BY <1>1 DEF CoordinatorInvariant, TypeOK

LEMMA JudgeStep ==
  ASSUME CoordinatorInvariant, NEW n \in Node, Judge(n)
  PROVE  CoordinatorInvariant'
<1>1. /\ Pending = {} /\ state' = [state EXCEPT ![n] = "PASSED"]
      /\ attempt' = attempt /\ journal' = journal /\ head' = head /\ UNCHANGED physical
      /\ call' = call /\ writer' = writer
  BY DEF Judge
<1>2. writer = None
  BY <1>1, LockedPending
<1>3. DatabaseTyped' /\ PhysicalTyped'
  BY <1>1 DEF CoordinatorInvariant, TypeOK, DatabaseTyped, PhysicalTyped, physical
<1>4. Progress
  <2>1. \A m \in Node : state[m] # "READY" => state'[m] # "READY"
    BY <1>1 DEF CoordinatorInvariant, TypeOK
  <2> QED
    BY <1>1, <2>1, RowsKept DEF Progress
<1>5. Places'
  BY <1>1, PlacesKept DEF CoordinatorInvariant
<1>6. Story'
  BY JudgeStory DEF CoordinatorInvariant
<1> QED
  BY <1>1, <1>2, <1>3, <1>4, <1>5, <1>6, NoCall

LEMMA EnsureBoundStep ==
  ASSUME CoordinatorInvariant, EnsureBound
  PROVE  CoordinatorInvariant'
<1>1. /\ writer = None /\ generation' = generation \cup {binding}
      /\ UNCHANGED database /\ accepted' = accepted /\ rollbackRef' = rollbackRef
      /\ binding' = binding /\ call' = call /\ writer' = writer
  BY DEF EnsureBound
<1>2. PhysicalTyped'
  BY <1>1 DEF CoordinatorInvariant, TypeOK, PhysicalTyped
<1>3. Places'
  BY <1>1, GenerationsGrow DEF CoordinatorInvariant
<1> QED
  BY <1>1, <1>2, <1>3, DatabaseStays, NoCall

-----------------------------------------------------------------------------
(* Steps that take the lock, and those under it *)

\* What the head completed stays behind it.
LEMMA ReadyPending ==
  ASSUME TypeOK, Story, NEW n \in Node, attempt[n] # NoAttempt, PromotionReady(n)
  PROVE  n \in PendingPromotions
<1>1. attempt[n].graph.head = head
  BY GraphNow DEF PromotionReady
<1>2. ASSUME attempt[n].status = "COMPLETED"
      PROVE  FALSE
  <2>1. PICK i \in Completed : PromotionRows(n) = {i}
    BY <1>2 DEF Story, History
  <2>2. journal[i].kind = "PROMOTION" /\ journal[i].node = n
    BY <2>1 DEF PromotionRows
  <2>3. journal[i].graph = attempt[n].graph /\ journal[i].graph.head.version < head.version
    BY <2>2 DEF Story, History, RowFits
  <2>4. head.version < head.version /\ head.version \in Nat
    BY <1>1, <2>3 DEF TypeOK, HeadRow
  <2> QED
    BY <2>4
<1> QED
  BY <1>2, Attempts DEF PendingPromotions

LEMMA ReadyToUndo ==
  ASSUME TypeOK, Story, NEW n \in Node, Rollback(n) # {}, RollbackReady(n)
  PROVE  n \in PendingRollbacks
<1>1. Prepared(n).graph.head = head
  BY GraphNow DEF RollbackReady
<1>2. journal \in Seq(JournalRow) /\ InPhases(n)
  BY DEF TypeOK, Story
<1>3. ASSUME Phase(n) = "COMPLETED"
      PROVE  FALSE
  <2>1. PICK i \in Completed : journal[i].graph = Prepared(n).graph
    BY <1>2, <1>3, CompletedRow
  <2>2. head.version < head.version /\ head.version \in Nat
    BY <1>1, <2>1 DEF Story, History, TypeOK, HeadRow
  <2> QED
    BY <2>2
<1> QED
  BY <1>3 DEF PendingRollbacks

\* A step of a call that leaves the database alone, and takes or keeps the lock.
LEMMA OutsideStep ==
  ASSUME CoordinatorInvariant, NEW c \in Caller, NEW n \in Node, NEW pc \in Locked,
         call' = [call EXCEPT ![c] = [pc |-> pc, node |-> n]],
         writer \in {None, c}, writer' = c, UNCHANGED database,
         PhysicalTyped', Places', LockFits([pc |-> pc, node |-> n])'
  PROVE  CoordinatorInvariant'
<1>1. PICK x : x = [pc |-> pc, node |-> n]
  OBVIOUS
<1>2. x \in InCall /\ x.pc \in Locked
  BY <1>1, InCalls
<1>3. CallFits(x)'
  BY <1>2 DEF CallFits, Locked
<1>4. LockFits(x)'
  BY <1>1
<1> QED
  BY <1>1, <1>2, <1>3, <1>4, DatabaseStays, Stepped

\* A call that goes on where it is under the lock.
LEMMA Held ==
  ASSUME CoordinatorInvariant, NEW c \in Caller, NEW n \in Node, NEW pc \in Locked,
         Holds(c, pc), call[c].node = n, NEW next \in Locked, Goto(c, next), writer' = writer
  PROVE  /\ call' = [call EXCEPT ![c] = [pc |-> next, node |-> n]]
         /\ writer \in {None, c} /\ writer' = c
         /\ LockFits([pc |-> pc, node |-> n])
<1>1. ~At(c, "idle") /\ call[c].pc = pc /\ writer = c
  BY DEF Holds, At, Locked
<1>2. call' = [call EXCEPT ![c] = [pc |-> next, node |-> n]]
  BY <1>1, Went DEF CoordinatorInvariant
<1>3. LockFits(call[c])
  BY DEF CoordinatorInvariant
<1>4. LockFits([pc |-> pc, node |-> n])
  BY <1>1, <1>3 DEF LockFits
<1> QED
  BY <1>1, <1>2, <1>4

\* A call that takes the lock.
LEMMA Taken ==
  ASSUME CoordinatorInvariant, NEW c \in Caller, NEW n \in Node, NEW pc \in Locked,
         ~At(c, "idle"), call[c].node = n, Lock(c, pc)
  PROVE  /\ call' = [call EXCEPT ![c] = [pc |-> pc, node |-> n]]
         /\ writer \in {None, c} /\ writer' = c
BY Went DEF CoordinatorInvariant, Lock

\* The parts of Places that a step of the pending promotion starts from.
LEMMA PromotionPlaces ==
  ASSUME CoordinatorInvariant, NEW n \in PendingPromotions
  PROVE  /\ TypeOK /\ Story /\ Places /\ RefsFit /\ PromotionFits(n) /\ GenerationFirst
         /\ n \in Node /\ attempt[n] # NoAttempt
         /\ Base(n) \in CommitOf /\ Candidate(n) \in CommitOf /\ Candidate(n) # Base(n)
         /\ None \notin CommitOf
         /\ attempt[n].status \in {"PREPARED", "BINDING_UPDATED"}
<1>1. /\ TypeOK /\ Story /\ Places /\ RefsFit /\ PromotionFits(n) /\ GenerationFirst
      /\ n \in Node /\ attempt[n].status \in {"PREPARED", "BINDING_UPDATED"}
  BY DEF CoordinatorInvariant, Places, PendingPromotions
<1>2. attempt[n] # NoAttempt
  BY <1>1, Attempts
<1> QED
  BY <1>1, <1>2, Candidates, PublicationAssumption DEF CommitOf

LEMMA RollbackPlaces ==
  ASSUME CoordinatorInvariant, NEW n \in PendingRollbacks
  PROVE  /\ TypeOK /\ Story /\ Places /\ RefsFit /\ RollbackFits(n) /\ GenerationFirst
         /\ n \in Node /\ Rollback(n) # {} /\ UndoFits(n)
         /\ Phase(n) \in {"PREPARED", "PUBLISHED"}
         /\ From(n) = Candidate(n) /\ To(n) = Base(n)
         /\ From(n) \in CommitOf /\ To(n) \in CommitOf /\ From(n) # To(n)
         /\ None \notin CommitOf /\ PendingPromotions = {}
<1>1. /\ TypeOK /\ Story /\ Places /\ RefsFit /\ RollbackFits(n) /\ GenerationFirst
      /\ n \in Node /\ Rollback(n) # {} /\ Phase(n) # "COMPLETED"
  BY DEF CoordinatorInvariant, Places, PendingRollbacks
<1>2. /\ UndoFits(n) /\ attempt[n].status = "COMPLETED" /\ Prepared(n).to = Base(n)
      /\ Prepared(n).graph.head = head /\ head.sha = Candidate(n)
      /\ Phase(n) \in {"PREPARED", "PUBLISHED"}
  BY <1>1, PreparedRows DEF UndoFits
<1>3. attempt[n] # NoAttempt
  BY <1>1, <1>2, Attempts
<1>4. Base(n) \in CommitOf /\ Candidate(n) \in CommitOf /\ Candidate(n) # Base(n)
  BY <1>1, <1>3, Candidates
<1>5. PendingPromotions = {}
  <2>1. n \in Pending /\ n \notin PendingPromotions
    BY <1>2 DEF Pending, PendingPromotions
  <2> QED
    BY <1>1, <2>1 DEF Story, OneAtATime, Pending
<1> QED
  BY <1>1, <1>2, <1>4, <1>5, PublicationAssumption DEF From, To, CommitOf

LEMMA RecoverPromotionStep ==
  ASSUME CoordinatorInvariant, NEW c \in Caller, NEW n \in Node, RecoverPromotion(c, n)
  PROVE  CoordinatorInvariant'
<1>1. /\ call[c].pc = "recovering" /\ call[c].node = n /\ PromotionReady(n)
      /\ accepted = Candidate(n) /\ Lock(c, "binding")
      /\ generation' = generation \cup {Candidate(n)}
      /\ UNCHANGED database /\ accepted' = accepted /\ rollbackRef' = rollbackRef
      /\ binding' = binding
  BY DEF RecoverPromotion, At
<1>2. n \in PendingPromotions
  <2>1. attempt[n] # NoAttempt
    BY <1>1 DEF CoordinatorInvariant, CallFits
  <2> QED
    BY <1>1, <2>1, ReadyPending DEF CoordinatorInvariant
<1>3. "binding" \in Locked
  BY DEF Locked
<1>4. /\ call' = [call EXCEPT ![c] = [pc |-> "binding", node |-> n]]
      /\ writer \in {None, c} /\ writer' = c
  BY <1>1, <1>3, Taken DEF At
<1>5. PhysicalTyped'
  BY <1>1, <1>2, PromotionPlaces DEF TypeOK, PhysicalTyped
<1>6. Places'
  BY <1>1, GenerationsGrow DEF CoordinatorInvariant
<1>7. LockFits([pc |-> "binding", node |-> n])'
  BY <1>1, <1>2, DatabaseKept DEF LockFits
<1> QED
  BY <1>1, <1>3, <1>4, <1>5, <1>6, <1>7, OutsideStep

LEMMA BeginPromotionStep ==
  ASSUME CoordinatorInvariant, NEW c \in Caller, NEW n \in Node, BeginPromotion(c, n)
  PROVE  CoordinatorInvariant'
<1>1. /\ call[c].pc = "publishing" /\ call[c].node = n /\ PromotionReady(n)
      /\ Lock(c, "generation")
      /\ generation' = generation \cup {Base(n)}
      /\ UNCHANGED database /\ accepted' = accepted /\ rollbackRef' = rollbackRef
      /\ binding' = binding
  BY DEF BeginPromotion, At
<1>2. n \in PendingPromotions
  <2>1. attempt[n] # NoAttempt
    BY <1>1 DEF CoordinatorInvariant, CallFits
  <2> QED
    BY <1>1, <2>1, ReadyPending DEF CoordinatorInvariant
<1>3. "generation" \in Locked
  BY DEF Locked
<1>4. /\ call' = [call EXCEPT ![c] = [pc |-> "generation", node |-> n]]
      /\ writer \in {None, c} /\ writer' = c
  BY <1>1, <1>3, Taken DEF At
<1>5. PhysicalTyped'
  BY <1>1, <1>2, PromotionPlaces DEF TypeOK, PhysicalTyped
<1>6. Places'
  BY <1>1, GenerationsGrow DEF CoordinatorInvariant
<1>7. LockFits([pc |-> "generation", node |-> n])'
  BY <1>1, <1>2, DatabaseKept DEF LockFits
<1> QED
  BY <1>1, <1>3, <1>4, <1>5, <1>6, <1>7, OutsideStep

LEMMA EnsureCandidateStep ==
  ASSUME CoordinatorInvariant, NEW c \in Caller, NEW n \in Node, EnsureCandidate(c, n)
  PROVE  CoordinatorInvariant'
<1>1. PICK next : next = IF accepted = None THEN "first ref" ELSE "rollback ref"
  OBVIOUS
<1>2. /\ Holds(c, "generation") /\ call[c].node = n /\ Goto(c, next)
      /\ generation' = generation \cup {Candidate(n)}
      /\ UNCHANGED database /\ accepted' = accepted /\ rollbackRef' = rollbackRef
      /\ binding' = binding /\ writer' = writer
  BY <1>1 DEF EnsureCandidate
<1>3. "generation" \in Locked /\ next \in Locked
  BY <1>1 DEF Locked
<1>4. /\ call' = [call EXCEPT ![c] = [pc |-> next, node |-> n]]
      /\ writer \in {None, c} /\ writer' = c
      /\ LockFits([pc |-> "generation", node |-> n])
  BY <1>2, <1>3, Held
<1>5. n \in PendingPromotions /\ Base(n) \in generation
  BY <1>4 DEF LockFits
<1>6. PhysicalTyped'
  BY <1>2, <1>5, PromotionPlaces DEF TypeOK, PhysicalTyped
<1>7. Places'
  BY <1>2, GenerationsGrow DEF CoordinatorInvariant
<1>8. LockFits([pc |-> next, node |-> n])'
  BY <1>1, <1>2, <1>5, DatabaseKept DEF LockFits
<1> QED
  BY <1>2, <1>3, <1>4, <1>6, <1>7, <1>8, OutsideStep

LEMMA CreateAcceptedStep ==
  ASSUME CoordinatorInvariant, NEW c \in Caller, NEW n \in Node, CreateAccepted(c, n)
  PROVE  CoordinatorInvariant'
<1>1. /\ Holds(c, "first ref") /\ call[c].node = n /\ Goto(c, "rollback ref")
      /\ accepted' = Base(n)
      /\ UNCHANGED database /\ generation' = generation /\ rollbackRef' = rollbackRef
      /\ binding' = binding /\ writer' = writer
  BY DEF CreateAccepted
<1>2. "first ref" \in Locked /\ "rollback ref" \in Locked
  BY DEF Locked
<1>3. /\ call' = [call EXCEPT ![c] = [pc |-> "rollback ref", node |-> n]]
      /\ writer \in {None, c} /\ writer' = c
      /\ LockFits([pc |-> "first ref", node |-> n])
  BY <1>1, <1>2, Held
<1>4. n \in PendingPromotions /\ accepted = None /\ {Base(n), Candidate(n)} \subseteq generation
  BY <1>3 DEF LockFits
<1>5. attempt[n].status = "PREPARED" /\ binding = Base(n) /\ accepted' # Candidate(n) /\ accepted' # None
  BY <1>1, <1>4, PromotionPlaces DEF PromotionFits, Reached
<1>6. PhysicalTyped'
  BY <1>1, <1>4, PromotionPlaces DEF TypeOK, PhysicalTyped
<1>7. Base(n)' = Base(n) /\ Candidate(n)' = Candidate(n) /\ n \in PendingPromotions'
  BY <1>1, <1>4, DatabaseKept
<1>8. PromotionFits(n)'
  BY <1>1, <1>4, <1>5, <1>7, DatabaseKept, PromotionPlaces DEF PromotionFits, Reached
<1>9. RefsFit'
  <2>1. \A m \in PendingPromotions : accepted' = Candidate(m) => Saved(m)
    BY <1>4, <1>5 DEF CoordinatorInvariant, Story, OneAtATime, Pending
  <2> QED
    BY <1>1, <1>4, <2>1, PromotionPlaces, RefsStay
<1>10. GenerationFirst'
  BY <1>1, <1>4, <1>5 DEF GenerationFirst
<1>11. Places'
  BY <1>1, <1>4, <1>8, <1>9, <1>10, PromotionPlaces, PromotionMoves
<1>12. LockFits([pc |-> "rollback ref", node |-> n])'
  BY <1>1, <1>4, <1>5, <1>7 DEF LockFits
<1> QED
  BY <1>1, <1>2, <1>3, <1>6, <1>11, <1>12, OutsideStep

LEMMA SaveRollbackRefStep ==
  ASSUME CoordinatorInvariant, NEW c \in Caller, NEW n \in Node, SaveRollbackRef(c, n)
  PROVE  CoordinatorInvariant'
<1>1. /\ Holds(c, "rollback ref") /\ call[c].node = n /\ Goto(c, "accepted ref")
      /\ rollbackRef' = rollbackRef \cup {[of |-> Candidate(n), to |-> Base(n)]}
      /\ UNCHANGED database /\ generation' = generation /\ accepted' = accepted
      /\ binding' = binding /\ writer' = writer
  BY DEF SaveRollbackRef
<1>2. "rollback ref" \in Locked /\ "accepted ref" \in Locked
  BY DEF Locked
<1>3. /\ call' = [call EXCEPT ![c] = [pc |-> "accepted ref", node |-> n]]
      /\ writer \in {None, c} /\ writer' = c
      /\ LockFits([pc |-> "rollback ref", node |-> n])
  BY <1>1, <1>2, Held
<1>4. n \in PendingPromotions /\ accepted # None /\ Candidate(n) \in generation
  BY <1>3 DEF LockFits
<1>5. PhysicalTyped'
  <2>1. [of |-> Candidate(n), to |-> Base(n)] \in [of : CommitOf, to : CommitOf]
    BY <1>4, PromotionPlaces
  <2>2. rollbackRef' \subseteq [of : CommitOf, to : CommitOf]
    BY <1>1, <2>1 DEF CoordinatorInvariant, TypeOK
  <2> QED
    BY <1>1, <2>2 DEF CoordinatorInvariant, TypeOK, PhysicalTyped
<1>6. Base(n)' = Base(n) /\ Candidate(n)' = Candidate(n) /\ n \in PendingPromotions'
  BY <1>1, <1>4, DatabaseKept
<1>7. PromotionFits(n)'
  BY <1>1, <1>4, <1>6, DatabaseKept, PromotionPlaces DEF PromotionFits, Reached
<1>8. RefsFit'
  <2>1. \A r \in rollbackRef' : \E x \in Change : r.of = Append(r.to, x)
    <3>1. Candidate(n) = Append(Base(n), ChangeOf[n]) /\ ChangeOf[n] \in Change
      BY <1>4, PromotionPlaces, Candidates
    <3>2. PICK new : new = [of |-> Candidate(n), to |-> Base(n)]
      OBVIOUS
    <3>3. new.of = Append(new.to, ChangeOf[n])
      BY <3>1, <3>2
    <3>4. \A r \in rollbackRef : \E x \in Change : r.of = Append(r.to, x)
      BY <1>4, PromotionPlaces DEF RefsFit
    <3>5. rollbackRef' = rollbackRef \cup {new}
      BY <1>1, <3>2
    <3> QED
      BY <3>1, <3>3, <3>4, <3>5
  <2>2. \A m \in Node : Saved(m) => Saved(m)'
    BY <1>1, DatabaseKept DEF Saved
  <2> QED
    BY <1>1, <1>4, <2>1, <2>2, DatabaseKept, PromotionPlaces DEF RefsFit
<1>9. GenerationFirst'
  BY <1>1, <1>4, PromotionPlaces DEF GenerationFirst
<1>10. Places'
  BY <1>1, <1>4, <1>7, <1>8, <1>9, PromotionPlaces, PromotionMoves
<1>11. LockFits([pc |-> "accepted ref", node |-> n])'
  BY <1>1, <1>4, <1>6 DEF LockFits, Saved
<1> QED
  BY <1>1, <1>2, <1>3, <1>5, <1>10, <1>11, OutsideStep

LEMMA AdvanceAcceptedStep ==
  ASSUME CoordinatorInvariant, NEW c \in Caller, NEW n \in Node, AdvanceAccepted(c, n)
  PROVE  CoordinatorInvariant'
<1>1. /\ Holds(c, "accepted ref") /\ call[c].node = n /\ Goto(c, "binding")
      /\ accepted' = Candidate(n)
      /\ UNCHANGED database /\ generation' = generation /\ rollbackRef' = rollbackRef
      /\ binding' = binding /\ writer' = writer
  BY DEF AdvanceAccepted
<1>2. "accepted ref" \in Locked /\ "binding" \in Locked
  BY DEF Locked
<1>3. /\ call' = [call EXCEPT ![c] = [pc |-> "binding", node |-> n]]
      /\ writer \in {None, c} /\ writer' = c
      /\ LockFits([pc |-> "accepted ref", node |-> n])
  BY <1>1, <1>2, Held
<1>4. n \in PendingPromotions /\ accepted # None /\ Candidate(n) \in generation /\ Saved(n)
  BY <1>3 DEF LockFits
<1>5. /\ binding \in {Base(n), Candidate(n)}
      /\ attempt[n].status # "PREPARED" => binding = Candidate(n)
  BY <1>4, PromotionPlaces DEF PromotionFits, Reached
<1>6. PhysicalTyped'
  BY <1>1, <1>4, PromotionPlaces DEF TypeOK, PhysicalTyped
<1>7. Base(n)' = Base(n) /\ Candidate(n)' = Candidate(n) /\ n \in PendingPromotions'
  BY <1>1, <1>4, DatabaseKept
<1>8. PromotionFits(n)'
  BY <1>1, <1>4, <1>5, <1>7, DatabaseKept DEF PromotionFits, Reached
<1>9. RefsFit'
  <2>1. \A m \in PendingPromotions : accepted' = Candidate(m) => Saved(m)
    BY <1>4 DEF CoordinatorInvariant, Story, OneAtATime, Pending
  <2> QED
    BY <1>1, <1>4, <2>1, PromotionPlaces, RefsStay
<1>10. GenerationFirst'
  BY <1>1, <1>4, PromotionPlaces DEF GenerationFirst
<1>11. Places'
  BY <1>1, <1>4, <1>8, <1>9, <1>10, PromotionPlaces, PromotionMoves
<1>12. LockFits([pc |-> "binding", node |-> n])'
  BY <1>1, <1>7 DEF LockFits
<1> QED
  BY <1>1, <1>2, <1>3, <1>6, <1>11, <1>12, OutsideStep

LEMMA AdvanceBindingStep ==
  ASSUME CoordinatorInvariant, NEW c \in Caller, NEW n \in Node, AdvanceBinding(c, n)
  PROVE  CoordinatorInvariant' /\ n \in PendingPromotions /\ accepted = Candidate(n)
<1>1. /\ Holds(c, "binding") /\ call[c].node = n /\ Goto(c, "marking")
      /\ binding' = Candidate(n)
      /\ UNCHANGED database /\ generation' = generation /\ rollbackRef' = rollbackRef
      /\ accepted' = accepted /\ writer' = writer
  BY DEF AdvanceBinding
<1>2. "binding" \in Locked /\ "marking" \in Locked
  BY DEF Locked
<1>3. /\ call' = [call EXCEPT ![c] = [pc |-> "marking", node |-> n]]
      /\ writer \in {None, c} /\ writer' = c
      /\ LockFits([pc |-> "binding", node |-> n])
  BY <1>1, <1>2, Held
<1>4. n \in PendingPromotions /\ accepted = Candidate(n)
  BY <1>3 DEF LockFits
<1>5. Candidate(n) \in generation
  BY <1>4, PromotionPlaces DEF PromotionFits
<1>6. PhysicalTyped'
  BY <1>1, <1>4, PromotionPlaces DEF TypeOK, PhysicalTyped
<1>7. Base(n)' = Base(n) /\ Candidate(n)' = Candidate(n) /\ n \in PendingPromotions'
  BY <1>1, <1>4, DatabaseKept
<1>8. PromotionFits(n)'
  BY <1>1, <1>4, <1>5, <1>7, DatabaseKept DEF PromotionFits, Reached
<1>9. RefsFit'
  <2>1. \A m \in PendingPromotions : accepted' = Candidate(m) => Saved(m)
    BY <1>1, PromotionPlaces DEF RefsFit
  <2> QED
    BY <1>1, <1>4, <2>1, PromotionPlaces, RefsStay
<1>10. GenerationFirst'
  BY <1>1, <1>4, <1>5 DEF GenerationFirst
<1>11. Places'
  BY <1>1, <1>4, <1>8, <1>9, <1>10, PromotionPlaces, PromotionMoves
<1>12. LockFits([pc |-> "marking", node |-> n])'
  BY <1>1, <1>4, <1>7 DEF LockFits
<1> QED
  BY <1>1, <1>2, <1>3, <1>4, <1>6, <1>11, <1>12, OutsideStep

LEMMA BeginRollbackStep ==
  ASSUME CoordinatorInvariant, NEW c \in Caller, NEW n \in Node, BeginRollback(c, n)
  PROVE  CoordinatorInvariant'
<1>1. /\ call[c].pc = "undoing" /\ call[c].node = n /\ RollbackReady(n)
      /\ Lock(c, "undo ref")
      /\ generation' = generation \cup {To(n)}
      /\ UNCHANGED database /\ accepted' = accepted /\ rollbackRef' = rollbackRef
      /\ binding' = binding
  BY DEF BeginRollback, At
<1>2. n \in PendingRollbacks
  <2>1. Rollback(n) # {}
    BY <1>1 DEF CoordinatorInvariant, CallFits
  <2> QED
    BY <1>1, <2>1, ReadyToUndo DEF CoordinatorInvariant
<1>3. "undo ref" \in Locked
  BY DEF Locked
<1>4. /\ call' = [call EXCEPT ![c] = [pc |-> "undo ref", node |-> n]]
      /\ writer \in {None, c} /\ writer' = c
  BY <1>1, <1>3, Taken DEF At
<1>5. PhysicalTyped'
  BY <1>1, <1>2, RollbackPlaces DEF TypeOK, PhysicalTyped
<1>6. Places'
  BY <1>1, GenerationsGrow DEF CoordinatorInvariant
<1>7. LockFits([pc |-> "undo ref", node |-> n])'
  BY <1>1, <1>2, DatabaseKept DEF LockFits
<1> QED
  BY <1>1, <1>3, <1>4, <1>5, <1>6, <1>7, OutsideStep

\* The refs and the generations of a rollback are there before it moves anything.
LEMMA UndoMoves ==
  ASSUME CoordinatorInvariant, NEW n \in PendingRollbacks, UNCHANGED database,
         generation' = generation, rollbackRef' = rollbackRef,
         accepted' = To(n), binding' = binding \/ binding' = To(n)
  PROVE  PhysicalTyped' /\ Places'
<1>1. To(n)' = To(n) /\ From(n)' = From(n) /\ Phase(n)' = Phase(n) /\ n \in Node
  BY DatabaseKept, RollbackPlaces DEF From
<1>2. PhysicalTyped'
  BY RollbackPlaces DEF TypeOK, PhysicalTyped
<1>3. /\ RollbackOf(From(n)) = {To(n)} /\ To(n) \in generation
      /\ <<accepted, binding>> \in
           IF Phase(n) = "PREPARED" THEN Reached(From(n), To(n)) ELSE {<<To(n), To(n)>>}
  BY RollbackPlaces DEF RollbackFits, From, To
<1>4. binding' \in {From(n), To(n)} /\ (Phase(n) # "PREPARED" => binding' = To(n))
  BY <1>3 DEF Reached
<1>5. RollbackFits(n)'
  <2>1. RollbackOf(From(n))' = RollbackOf(From(n))
    BY <1>1 DEF RollbackOf
  <2>2. <<accepted', binding'>> \in
           IF Phase(n) = "PREPARED" THEN Reached(From(n), To(n)) ELSE {<<To(n), To(n)>>}
    BY <1>4 DEF Reached
  <2>3. RollbackFits(n)' <=>
          /\ RollbackOf(From(n))' = {To(n)'}
          /\ <<accepted', binding'>> \in
               IF Phase(n)' = "PREPARED" THEN Reached(From(n)', To(n)') ELSE {<<To(n)', To(n)'>>}
          /\ To(n)' \in generation'
    BY DEF RollbackFits, From, To, Reached
  <2> QED
    BY <1>1, <1>3, <2>1, <2>2, <2>3
<1>6. RefsFit'
  <2>1. \A m \in PendingPromotions : accepted' = Candidate(m) => Saved(m)
    BY RollbackPlaces
  <2> QED
    BY <2>1, RollbackPlaces, RefsStay
<1>7. GenerationFirst'
  <2>1. accepted # None
    BY <1>3, RollbackPlaces DEF Reached
  <2> QED
    BY <1>3, <2>1, RollbackPlaces DEF GenerationFirst
<1> QED
  BY <1>2, <1>5, <1>6, <1>7, RollbackPlaces, RollbackMoves

LEMMA ReturnAcceptedStep ==
  ASSUME CoordinatorInvariant, NEW c \in Caller, NEW n \in Node, ReturnAccepted(c, n)
  PROVE  CoordinatorInvariant'
<1>1. /\ Holds(c, "undo ref") /\ call[c].node = n /\ Goto(c, "undo binding")
      /\ accepted' = To(n)
      /\ UNCHANGED database /\ generation' = generation /\ rollbackRef' = rollbackRef
      /\ binding' = binding /\ writer' = writer
  BY DEF ReturnAccepted
<1>2. "undo ref" \in Locked /\ "undo binding" \in Locked
  BY DEF Locked
<1>3. /\ call' = [call EXCEPT ![c] = [pc |-> "undo binding", node |-> n]]
      /\ writer \in {None, c} /\ writer' = c
      /\ LockFits([pc |-> "undo ref", node |-> n])
  BY <1>1, <1>2, Held
<1>4. n \in PendingRollbacks
  BY <1>3 DEF LockFits
<1>5. PhysicalTyped' /\ Places'
  BY <1>1, <1>4, UndoMoves
<1>6. LockFits([pc |-> "undo binding", node |-> n])'
  BY <1>1, <1>4, DatabaseKept DEF LockFits
<1> QED
  BY <1>1, <1>2, <1>3, <1>5, <1>6, OutsideStep

LEMMA ReturnBindingStep ==
  ASSUME CoordinatorInvariant, NEW c \in Caller, NEW n \in Node, ReturnBinding(c, n)
  PROVE  CoordinatorInvariant' /\ n \in PendingRollbacks /\ accepted = To(n)
<1>1. /\ Holds(c, "undo binding") /\ call[c].node = n /\ Goto(c, "undo marking")
      /\ binding' = To(n)
      /\ UNCHANGED database /\ generation' = generation /\ rollbackRef' = rollbackRef
      /\ accepted' = accepted /\ writer' = writer
  BY DEF ReturnBinding
<1>2. "undo binding" \in Locked /\ "undo marking" \in Locked
  BY DEF Locked
<1>3. /\ call' = [call EXCEPT ![c] = [pc |-> "undo marking", node |-> n]]
      /\ writer \in {None, c} /\ writer' = c
      /\ LockFits([pc |-> "undo binding", node |-> n])
  BY <1>1, <1>2, Held
<1>4. n \in PendingRollbacks /\ accepted = To(n)
  BY <1>3 DEF LockFits
<1>5. PhysicalTyped' /\ Places'
  BY <1>1, <1>4, UndoMoves
<1>6. LockFits([pc |-> "undo marking", node |-> n])'
  BY <1>1, <1>4, DatabaseKept DEF LockFits
<1> QED
  BY <1>1, <1>2, <1>3, <1>4, <1>5, <1>6, OutsideStep

-----------------------------------------------------------------------------
(* Steps of the database by a call *)

\* A call that leaves the lock, or runs without it, when it changes the database.
LEMMA DatabaseStep ==
  ASSUME CoordinatorInvariant, NEW c \in Caller, NEW x \in InCall \cup {Idle},
         call' = [call EXCEPT ![c] = x], x.pc \notin Locked,
         writer \in {None, c}, writer' = None, UNCHANGED physical,
         Progress, DatabaseTyped', Story', Places', CallFits(x)'
  PROVE  CoordinatorInvariant'
<1>1. LockFits(x)'
  BY DEF LockFits, Locked
<1>2. PhysicalTyped'
  BY DEF PhysicalTyped, physical, CoordinatorInvariant, TypeOK
<1>3. writer' \in {None, c} /\ writer' # c
  BY PublicationAssumption
<1> QED
  BY <1>1, <1>2, <1>3, Stepped

\* Where nothing is pending, publication has come to rest at the head.
LEMMA PrepareAttemptStep ==
  ASSUME CoordinatorInvariant, NEW c \in Caller, NEW n \in Node, PrepareAttempt(c, n)
  PROVE  CoordinatorInvariant'
<1>1. /\ call[c].pc = "preparing" /\ call[c].node = n /\ writer = None /\ writer' = writer
      /\ state' = state /\ journal' = journal /\ head' = head /\ UNCHANGED physical
      /\ call[c].pc \notin Locked
  BY DEF PrepareAttempt, At, Locked
<1>2. CASE attempt[n] # NoAttempt
  <2>1. /\ attempt' = attempt
        /\ IF attempt[n].status = "COMPLETED" THEN Return(c) ELSE Goto(c, "publishing")
    BY <1>2 DEF PrepareAttempt
  <2>2. UNCHANGED <<database, physical, writer>>
    BY <1>1, <2>1 DEF database
  <2>3. CASE attempt[n].status = "COMPLETED"
    BY <1>1, <2>1, <2>2, <2>3, ReturnStep, Unlocked
  <2>4. CASE attempt[n].status # "COMPLETED"
    <3>1. "publishing" \in Loose /\ ~At(c, "idle")
      BY <1>1 DEF Loose, At
    <3>2. call' = [call EXCEPT ![c] = [pc |-> "publishing", node |-> n]]
      BY <1>1, <2>1, <2>4, <3>1, Went DEF CoordinatorInvariant
    <3> QED
      BY <1>1, <1>2, <2>2, <3>2, GoOnStep
  <2> QED
    BY <2>3, <2>4
<1>3. CASE attempt[n] = NoAttempt
  <2>1. /\ Pending = {} /\ Goto(c, "publishing")
        /\ attempt' = [attempt EXCEPT ![n] = [status |-> "PREPARED", graph |-> AffectedGraph]]
    BY <1>3 DEF PrepareAttempt
  <2>2. state[n] # "READY"
    BY <1>1 DEF CoordinatorInvariant, CallFits
  <2>3. Story'
    BY <1>3, <2>2, PrepareAttemptStory DEF CoordinatorInvariant
  <2>4. AffectedGraph \in GraphOf /\ AffectedGraph.head = head
    BY GraphNow DEF CoordinatorInvariant
  <2>5. /\ attempt'[n].status = "PREPARED" /\ attempt'[n].graph = AffectedGraph
        /\ attempt'[n] # NoAttempt
        /\ \A m \in Node : m # n => attempt'[m] = attempt[m]
    BY <2>1 DEF CoordinatorInvariant, TypeOK, NoAttempt
  <2>6. DatabaseTyped'
    <3>1. [status |-> "PREPARED", graph |-> AffectedGraph] \in AttemptRow
      BY <2>4 DEF AttemptRow
    <3>2. attempt' \in [Node -> AttemptRow \cup {NoAttempt}]
      BY <2>1, <3>1 DEF CoordinatorInvariant, TypeOK
    <3> QED
      BY <1>1, <3>2 DEF CoordinatorInvariant, TypeOK, DatabaseTyped
  <2>7. Progress
    BY <1>1, <2>5, JournalKept DEF Progress
  <2>8. /\ generation' = generation /\ accepted' = accepted /\ binding' = binding
        /\ rollbackRef' = rollbackRef
    BY <1>1 DEF physical
  <2>9. /\ Base(n)' = head.sha /\ Candidate(n)' = Append(head.sha, ChangeOf[n])
        /\ head.sha \in CommitOf /\ Candidate(n)' # head.sha /\ Candidate(n)' # None
    <3>1. Base(n)' = head.sha /\ head.sha \in CommitOf /\ ChangeOf[n] \in Change
      BY <2>4, <2>5, PublicationAssumption DEF Base, CoordinatorInvariant, TypeOK, HeadRow
    <3>2. Candidate(n)' = Append(head.sha, ChangeOf[n])
      BY <3>1 DEF Candidate
    <3> QED
      BY <3>1, <3>2, Changed, PublicationAssumption DEF CommitOf
  <2>10. HeadFits
    BY <2>1 DEF CoordinatorInvariant, Places
  <2>11. Candidate(n)' \notin {accepted', binding'}
    BY <2>8, <2>9, <2>10 DEF HeadFits
  <2>12. PendingPromotions' = {n} /\ PendingRollbacks' = {}
    BY <1>1, <2>1, <2>5, JournalKept DEF Pending, PendingPromotions, PendingRollbacks
  <2>13. PromotionFits(n)'
    <3>1. <<accepted', binding'>> \in Reached(head.sha, Candidate(n)')
            \cup (IF head.version = 0 THEN {<<None, head.sha>>} ELSE {})
      BY <2>8, <2>10 DEF HeadFits, Reached
    <3> QED
      BY <1>1, <2>5, <2>9, <2>11, <3>1 DEF PromotionFits, Reached
  <2>14. RefsFit'
    <3>1. ASSUME NEW m \in Node, attempt'[m] # NoAttempt,
                 accepted' = Candidate(m)' \/ attempt'[m].status # "PREPARED"
          PROVE  Saved(m)'
      <4>1. m # n
        BY <2>5, <2>11, <3>1
      <4>2. attempt'[m] = attempt[m] /\ Base(m)' = Base(m) /\ Candidate(m)' = Candidate(m)
        BY <2>5, <4>1 DEF Base, Candidate
      <4>3. Saved(m)
        BY <2>8, <3>1, <4>2 DEF CoordinatorInvariant, Places, RefsFit
      <4> QED
        BY <2>8, <4>2, <4>3 DEF Saved
    <3>2. \A r \in rollbackRef' : \E x \in Change : r.of = Append(r.to, x)
      BY <2>8 DEF CoordinatorInvariant, Places, RefsFit
    <3> QED
      BY <3>1, <3>2 DEF RefsFit
  <2>15. Places'
    <3>1. GenerationFirst' /\ (head'.version > 0 => head'.sha \in generation')
      BY <1>1, <2>8 DEF CoordinatorInvariant, Places, GenerationFirst
    <3>2. Pending' # {}
      BY <2>12 DEF Pending
    <3> QED
      BY <2>12, <2>13, <2>14, <3>1, <3>2 DEF Places
  <2>16. PICK x : x = [pc |-> "publishing", node |-> n]
    OBVIOUS
  <2>17. x \in InCall /\ x.pc \notin Locked
    BY <2>16, InCalls DEF Loose, Locked
  <2>18. call' = [call EXCEPT ![c] = x]
    <3>1. "publishing" \in Loose /\ ~At(c, "idle")
      BY <1>1 DEF Loose, At
    <3> QED
      BY <1>1, <2>1, <2>16, <3>1, Went DEF CoordinatorInvariant
  <2>19. CallFits(x)'
    BY <2>5, <2>16 DEF CallFits
  <2> QED
    BY <1>1, <2>3, <2>6, <2>7, <2>15, <2>17, <2>18, <2>19, DatabaseStep
<1> QED
  BY <1>2, <1>3

LEMMA MarkBoundStep ==
  ASSUME CoordinatorInvariant, NEW c \in Caller, NEW n \in Node, MarkBound(c, n)
  PROVE  CoordinatorInvariant' /\ n \in PendingPromotions
<1>1. /\ call[c].pc = "marking" /\ call[c].node = n /\ writer = c /\ writer' = None
      /\ Goto(c, "finalizing") /\ attempt[n].status = "PREPARED"
      /\ attempt' = [attempt EXCEPT ![n].status = "BINDING_UPDATED"]
      /\ state' = state /\ journal' = journal /\ head' = head /\ UNCHANGED physical
  BY DEF MarkBound, Holds, At, Unlock
<1>2. n \in PendingPromotions /\ accepted = Candidate(n) /\ binding = Candidate(n)
  BY <1>1 DEF CoordinatorInvariant, LockFits
<1>3. attempt[n] \in AttemptRow
  BY <1>2, PromotionPlaces, Attempts
<1>4. /\ attempt'[n] = [attempt[n] EXCEPT !.status = "BINDING_UPDATED"]
      /\ \A m \in Node : m # n => attempt'[m] = attempt[m]
  BY <1>1 DEF CoordinatorInvariant, TypeOK
<1>5. /\ attempt'[n].status = "BINDING_UPDATED" /\ attempt'[n].graph = attempt[n].graph
      /\ attempt'[n] \in AttemptRow /\ attempt'[n] # NoAttempt
  BY <1>3, <1>4 DEF AttemptRow, NoAttempt
<1>6. DatabaseTyped'
  <2>1. attempt' \in [Node -> AttemptRow \cup {NoAttempt}]
    <3>1. attempt' = [attempt EXCEPT ![n] = attempt'[n]]
      BY <1>1, <1>4 DEF CoordinatorInvariant, TypeOK
    <3> QED
      BY <1>5, <3>1 DEF CoordinatorInvariant, TypeOK
  <2> QED
    BY <1>1, <2>1 DEF CoordinatorInvariant, TypeOK, DatabaseTyped
<1>7. Story'
  BY MarkBoundStory DEF CoordinatorInvariant
<1>8. Progress
  BY <1>1, <1>4, <1>5, JournalKept DEF Progress
<1>9. /\ generation' = generation /\ accepted' = accepted /\ binding' = binding
      /\ rollbackRef' = rollbackRef
  BY <1>1 DEF physical
<1>10. \A m \in Node : Base(m)' = Base(m) /\ Candidate(m)' = Candidate(m)
  BY <1>4, <1>5 DEF Base, Candidate
<1>11. PendingPromotions' = {n} /\ PendingRollbacks' = {}
  <2>1. Pending = {n} /\ n \notin PendingRollbacks
    BY <1>1, <1>2 DEF CoordinatorInvariant, Story, OneAtATime, Pending, UndoFits, PendingRollbacks
  <2>2. PendingRollbacks' = {}
    BY <1>1, <2>1, JournalKept DEF PendingRollbacks, Pending
  <2>3. PendingPromotions' = {n}
    BY <1>4, <1>5, <2>1 DEF PendingPromotions, Pending
  <2> QED
    BY <2>2, <2>3
<1>12. Candidate(n) \in generation
  BY <1>2, PromotionPlaces DEF PromotionFits
<1>13. PromotionFits(n)'
  BY <1>2, <1>5, <1>9, <1>10, <1>12 DEF PromotionFits
<1>14. RefsFit'
  <2>1. Saved(n)
    BY <1>2, PromotionPlaces DEF RefsFit
  <2>2. \A m \in Node : Saved(m)' = Saved(m)
    BY <1>9, <1>10 DEF Saved
  <2> QED
    BY <1>2, <1>4, <1>9, <1>10, <2>1, <2>2, PromotionPlaces DEF RefsFit
<1>15. Places'
  <2>1. GenerationFirst' /\ (head'.version > 0 => head'.sha \in generation')
    BY <1>1, <1>9 DEF CoordinatorInvariant, Places, GenerationFirst
  <2>2. Pending' # {}
    BY <1>11 DEF Pending
  <2> QED
    BY <1>11, <1>13, <1>14, <2>1, <2>2 DEF Places
<1>16. PICK x : x = [pc |-> "finalizing", node |-> n]
  OBVIOUS
<1>17. x \in InCall /\ x.pc \notin Locked
  BY <1>16, InCalls DEF Loose, Locked
<1>18. call' = [call EXCEPT ![c] = x]
  <2>1. "finalizing" \in Loose /\ ~At(c, "idle")
    BY <1>1 DEF Loose, At
  <2> QED
    BY <1>1, <1>16, <2>1, Went DEF CoordinatorInvariant
<1>19. CallFits(x)'
  BY <1>5, <1>16 DEF CallFits
<1> QED
  BY <1>1, <1>2, <1>6, <1>7, <1>8, <1>15, <1>17, <1>18, <1>19, DatabaseStep

LEMMA FinalizePromotionStep ==
  ASSUME CoordinatorInvariant, NEW c \in Caller, NEW n \in Node, FinalizePromotion(c, n)
  PROVE  CoordinatorInvariant' /\ Pending' = {} /\ n \in PendingPromotions /\ binding = Candidate(n)
<1>1. /\ call[c].pc = "finalizing" /\ writer = None /\ writer' = writer /\ Return(c)
      /\ attempt[n].status = "BINDING_UPDATED" /\ state[n] = "PASSED"
      /\ state' = [state EXCEPT ![n] = "INTEGRATED"]
      /\ head' = [version |-> head.version + 1, sha |-> Candidate(n), attempt |-> n]
      /\ attempt' = [attempt EXCEPT ![n].status = "COMPLETED"]
      /\ UNCHANGED physical
  BY DEF FinalizePromotion, At
<1>2. n \in PendingPromotions
  BY <1>1 DEF PendingPromotions
<1>3. attempt[n] \in AttemptRow
  BY <1>2, PromotionPlaces, Attempts
<1>4. /\ attempt'[n] = [attempt[n] EXCEPT !.status = "COMPLETED"]
      /\ \A m \in Node : m # n => attempt'[m] = attempt[m]
      /\ state'[n] = "INTEGRATED" /\ \A m \in Node : m # n => state'[m] = state[m]
  BY <1>1 DEF CoordinatorInvariant, TypeOK
<1>5. /\ attempt'[n].status = "COMPLETED" /\ attempt'[n].graph = attempt[n].graph
      /\ attempt'[n] \in AttemptRow /\ attempt'[n] # NoAttempt
  BY <1>3, <1>4 DEF AttemptRow, NoAttempt
<1>6. /\ Story' /\ journal' \in Seq(JournalRow) /\ head' \in HeadRow
      /\ PendingRollbacks' = {} /\ PendingPromotions' = {}
      /\ \A m \in Node : Rollback(m) # {} =>
           Rollback(m)' # {} /\ Prepared(m)' = Prepared(m) /\ Phase(m)' = Phase(m)
  BY FinalizeStory DEF CoordinatorInvariant
<1>7. DatabaseTyped'
  <2>1. attempt' = [attempt EXCEPT ![n] = attempt'[n]]
    BY <1>1, <1>4 DEF CoordinatorInvariant, TypeOK
  <2>2. attempt' \in [Node -> AttemptRow \cup {NoAttempt}]
    BY <1>5, <2>1 DEF CoordinatorInvariant, TypeOK
  <2>3. state' \in [Node -> {"READY", "PASSED", "INTEGRATED"}]
    BY <1>1 DEF CoordinatorInvariant, TypeOK
  <2> QED
    BY <1>6, <2>2, <2>3 DEF DatabaseTyped
<1>8. Progress
  BY <1>4, <1>5, <1>6 DEF Progress
<1>9. /\ generation' = generation /\ accepted' = accepted /\ binding' = binding
      /\ rollbackRef' = rollbackRef
  BY <1>1 DEF physical
<1>10. \A m \in Node : Base(m)' = Base(m) /\ Candidate(m)' = Candidate(m)
  BY <1>4, <1>5 DEF Base, Candidate
<1>11. accepted = Candidate(n) /\ binding = Candidate(n) /\ Candidate(n) \in generation
  BY <1>1, <1>2, PromotionPlaces DEF PromotionFits
<1>12. HeadFits' /\ head'.sha \in generation'
  BY <1>1, <1>9, <1>11 DEF HeadFits
<1>13. RefsFit'
  <2>1. \A m \in Node : Saved(m)' = Saved(m)
    BY <1>9, <1>10 DEF Saved
  <2> QED
    BY <1>1, <1>2, <1>4, <1>9, <1>10, <2>1, PromotionPlaces DEF RefsFit
<1>14. Pending' = {}
  BY <1>6 DEF Pending
<1>15. Places'
  BY <1>6, <1>9, <1>12, <1>13 DEF CoordinatorInvariant, Places, GenerationFirst
<1>16. PICK x : x = Idle
  OBVIOUS
<1>17. x.pc \notin Locked /\ CallFits(x)'
  BY <1>16 DEF Idle, Locked, CallFits
<1>18. call' = [call EXCEPT ![c] = x]
  BY <1>1, <1>16 DEF Return
<1>19. CoordinatorInvariant'
  BY <1>1, <1>6, <1>7, <1>8, <1>15, <1>16, <1>17, <1>18, DatabaseStep
<1> QED
  BY <1>2, <1>11, <1>14, <1>19

\* The one rollback ref of a commit is the one that its promotion has saved.
LEMMA OneRollbackRef ==
  ASSUME CoordinatorInvariant, NEW n \in Node, attempt[n] # NoAttempt, Saved(n)
  PROVE  RollbackOf(Candidate(n)) = {Base(n)}
<1>1. /\ Base(n) \in CommitOf /\ SubSeq(Candidate(n), 1, Len(Candidate(n)) - 1) = Base(n)
  BY Candidates DEF CoordinatorInvariant
<1>2. PICK of, to : of = Candidate(n) /\ to = Base(n)
  OBVIOUS
<1>3. [of |-> of, to |-> to] \in rollbackRef
  BY <1>2 DEF Saved
<1>4. to \in RollbackOf(of)
  <2>1. PICK new \in rollbackRef : new = [of |-> of, to |-> to]
    BY <1>3
  <2>2. new.of = of /\ new.to = to
    BY <2>1
  <2> QED
    BY <2>2 DEF RollbackOf
<1>5. ASSUME NEW r \in rollbackRef, r.of = of
      PROVE  r.to = to
  <2>1. PICK x \in Change : r.of = Append(r.to, x)
    BY DEF CoordinatorInvariant, Places, RefsFit
  <2>2. r.to \in CommitOf
    BY DEF CoordinatorInvariant, TypeOK
  <2>3. SubSeq(of, 1, Len(of) - 1) = r.to
    BY <1>5, <2>1, <2>2, Changed
  <2> QED
    BY <1>1, <1>2, <2>3
<1>6. RollbackOf(of) = {to}
  BY <1>4, <1>5 DEF RollbackOf
<1> QED
  BY <1>2, <1>6

\* The head that names an attempt is not the first.
LEMMA HeadNames ==
  ASSUME TypeOK, Story, head.attempt # None
  PROVE  head.version > 0
<1>1. head = HeadOf(Completed)
  BY DEF Story, History, Continuous
<1>2. Completed # {}
  BY <1>1 DEF HeadOf, NoHead
<1>3. PICK i \in Completed : TRUE
  BY <1>2
<1>4. journal[i].graph.head.version < head.version /\ journal[i].graph.head.version \in Nat
  BY CompletedRows DEF Story, History, HeadRow
<1> QED
  BY <1>4 DEF TypeOK, HeadRow

LEMMA PrepareRollbackStep ==
  ASSUME CoordinatorInvariant, NEW c \in Caller, NEW n \in Node, PrepareRollback(c, n)
  PROVE  CoordinatorInvariant'
<1> DEFINE e == Entry("ROLLBACK", n, "PREPARED", Base(n), AffectedGraph)
<1>1. /\ call[c].pc = "idle" /\ writer = None /\ writer' = writer
      /\ call' = [call EXCEPT ![c] = [pc |-> "undoing", node |-> n]]
      /\ Pending = {} /\ Rollback(n) = {} /\ attempt[n].status = "COMPLETED"
      /\ head.attempt = n /\ head.sha = Candidate(n) /\ Base(n) \in generation
      /\ journal' = Append(journal, e)
      /\ state' = state /\ attempt' = attempt /\ head' = head /\ UNCHANGED physical
  BY DEF PrepareRollback, At
<1>2. /\ e \in JournalRow /\ e.kind = "ROLLBACK" /\ e.node = n /\ e.phase = "PREPARED"
      /\ e.to = Base(n) /\ e.graph.head = head
  <2>1. Base(n) \in CommitOf
    BY <1>1, Attempts DEF CoordinatorInvariant
  <2> QED
    BY <2>1, GraphNow DEF Entry, JournalRow, CoordinatorInvariant
<1>3. journal \in Seq(JournalRow) /\ \A m \in Node : InPhases(m)
  BY DEF CoordinatorInvariant, TypeOK, Story
<1> HIDE DEF e
<1>4. Rollback(n)' # {} /\ Prepared(n)' = e /\ Phase(n)' = "PREPARED"
  BY <1>1, <1>2, <1>3, PreparedRow
<1>5. \A m \in Node : m # n =>
        /\ Rollback(m)' = Rollback(m)
        /\ Rollback(m) # {} => Prepared(m)' = Prepared(m) /\ Phase(m)' = Phase(m)
  BY <1>1, <1>2, <1>3, OtherRow
<1>6. Story' /\ journal' \in Seq(JournalRow)
  BY PrepareRollbackStory DEF CoordinatorInvariant
<1>7. DatabaseTyped'
  BY <1>1, <1>6 DEF CoordinatorInvariant, TypeOK, DatabaseTyped
<1>8. Progress
  BY <1>1, <1>4, <1>5 DEF Progress
<1>9. /\ generation' = generation /\ accepted' = accepted /\ binding' = binding
      /\ rollbackRef' = rollbackRef
  BY <1>1 DEF physical
<1>10. PendingPromotions' = {} /\ PendingRollbacks' = {n}
  <2>1. PendingPromotions' = {}
    BY <1>1 DEF Pending, PendingPromotions
  <2>2. n \in PendingRollbacks'
    BY <1>4 DEF PendingRollbacks
  <2>3. \A m \in Node : m # n => m \notin PendingRollbacks'
    BY <1>1, <1>5 DEF Pending, PendingRollbacks
  <2>4. PendingRollbacks' \subseteq Node
    BY DEF PendingRollbacks
  <2> QED
    BY <2>1, <2>2, <2>3, <2>4
<1>11. \A m \in Node : Base(m)' = Base(m) /\ Candidate(m)' = Candidate(m) /\ Saved(m)' = Saved(m)
  BY <1>1, <1>9 DEF Base, Candidate, Saved
<1>12. RefsFit'
  BY <1>1, <1>9, <1>11 DEF CoordinatorInvariant, Places, RefsFit
<1>13. RollbackOf(Candidate(n)) = {Base(n)}
  <2>1. attempt[n] # NoAttempt
    BY <1>1, Attempts DEF CoordinatorInvariant
  <2>2. Saved(n)
    BY <1>1, <2>1 DEF CoordinatorInvariant, Places, RefsFit
  <2> QED
    BY <2>1, <2>2, OneRollbackRef
<1>14. accepted = head.sha /\ binding = head.sha
  <2>1. head.attempt # None
    BY <1>1, PublicationAssumption
  <2>2. head.version > 0 /\ HeadFits
    BY <1>1, <2>1, HeadNames DEF CoordinatorInvariant, Places
  <2>3. head.version # 0
    BY <2>2 DEF CoordinatorInvariant, TypeOK, HeadRow
  <2> QED
    BY <2>2, <2>3 DEF HeadFits
<1>15. RollbackFits(n)'
  <2>1. From(n)' = head.sha /\ To(n)' = Base(n)
    BY <1>2, <1>4 DEF From, To
  <2>2. <<accepted', binding'>> \in Reached(head.sha, Base(n))
    BY <1>9, <1>14 DEF Reached
  <2>3. RollbackFits(n)' <=>
          /\ RollbackOf(From(n))' = {To(n)'}
          /\ <<accepted', binding'>> \in
               IF Phase(n)' = "PREPARED" THEN Reached(From(n)', To(n)') ELSE {<<To(n)', To(n)'>>}
          /\ To(n)' \in generation'
    BY DEF RollbackFits, From, To, Reached
  <2>4. RollbackOf(From(n))' = {Base(n)}
    BY <1>1, <1>9, <1>13, <2>1 DEF RollbackOf
  <2> QED
    BY <1>1, <1>4, <1>9, <2>1, <2>2, <2>3, <2>4
<1>16. Places'
  <2>1. GenerationFirst' /\ (head'.version > 0 => head'.sha \in generation')
    BY <1>1, <1>9 DEF CoordinatorInvariant, Places, GenerationFirst
  <2>2. Pending' # {}
    BY <1>10 DEF Pending
  <2> QED
    BY <1>10, <1>12, <1>15, <2>1, <2>2 DEF Places
<1>17. PICK x : x = [pc |-> "undoing", node |-> n]
  OBVIOUS
<1>18. x \in InCall /\ x.pc \notin Locked
  BY <1>17, InCalls DEF Loose, Locked
<1>19. CallFits(x)'
  BY <1>4, <1>17 DEF CallFits
<1> QED
  BY <1>1, <1>6, <1>7, <1>8, <1>16, <1>17, <1>18, <1>19, DatabaseStep

\* The place of a rollback that has been published.
LEMMA Published ==
  ASSUME CoordinatorInvariant, NEW n \in PendingRollbacks, Phase(n) # "PREPARED"
  PROVE  accepted = To(n) /\ binding = To(n) /\ To(n) \in generation
BY RollbackPlaces DEF RollbackFits, To

LEMMA MarkPublishedStep ==
  ASSUME CoordinatorInvariant, NEW c \in Caller, NEW n \in Node, MarkPublished(c, n)
  PROVE  CoordinatorInvariant' /\ n \in PendingRollbacks
<1>1. /\ call[c].pc = "undo marking" /\ call[c].node = n /\ writer = c /\ writer' = None
      /\ Goto(c, "completing")
      /\ state' = state /\ attempt' = attempt /\ head' = head /\ UNCHANGED physical
  BY DEF MarkPublished, Holds, At, Unlock
<1>2. n \in PendingRollbacks /\ accepted = To(n) /\ binding = To(n)
  BY <1>1 DEF CoordinatorInvariant, LockFits
<1>3. /\ Story' /\ journal' \in Seq(JournalRow)
      /\ PendingRollbacks' = PendingRollbacks /\ PendingPromotions' = PendingPromotions
      /\ Phase(n)' = "PUBLISHED"
      /\ \A m \in Node : Rollback(m) # {} => Rollback(m)' # {} /\ Prepared(m)' = Prepared(m)
      /\ \A m \in Node : Rollback(m) # {} /\ m # n => Phase(m)' = Phase(m)
  BY <1>2, MarkPublishedStory DEF CoordinatorInvariant
<1>4. DatabaseTyped'
  BY <1>1, <1>3 DEF CoordinatorInvariant, TypeOK, DatabaseTyped
<1>5. Progress
  BY <1>1, <1>3 DEF Progress
<1>6. /\ generation' = generation /\ accepted' = accepted /\ binding' = binding
      /\ rollbackRef' = rollbackRef
  BY <1>1 DEF physical
<1>7. \A m \in Node : Base(m)' = Base(m) /\ Candidate(m)' = Candidate(m) /\ Saved(m)' = Saved(m)
  BY <1>1, <1>6 DEF Base, Candidate, Saved
<1>8. RefsFit'
  BY <1>1, <1>6, <1>7 DEF CoordinatorInvariant, Places, RefsFit
<1>9. Pending = {n} /\ PendingPromotions = {} /\ PendingRollbacks = {n}
  <2>1. PendingPromotions = {} /\ n \in Pending
    BY <1>2, RollbackPlaces DEF Pending
  <2> QED
    BY <1>2, <2>1 DEF CoordinatorInvariant, Story, OneAtATime, Pending
<1>10. RollbackFits(n)'
  <2>1. Prepared(n)' = Prepared(n) /\ From(n)' = From(n) /\ To(n)' = To(n)
    BY <1>2, <1>3, RollbackPlaces DEF From, To
  <2>2. RollbackOf(From(n)) = {To(n)} /\ To(n) \in generation
    BY <1>2, RollbackPlaces DEF RollbackFits, From, To
  <2>3. RollbackFits(n)' <=>
          /\ RollbackOf(From(n))' = {To(n)'}
          /\ <<accepted', binding'>> \in
               IF Phase(n)' = "PREPARED" THEN Reached(From(n)', To(n)') ELSE {<<To(n)', To(n)'>>}
          /\ To(n)' \in generation'
    BY DEF RollbackFits, From, To, Reached
  <2>4. RollbackOf(From(n))' = {To(n)}
    BY <1>6, <2>1, <2>2 DEF RollbackOf
  <2> QED
    BY <1>2, <1>3, <1>6, <2>1, <2>2, <2>3, <2>4
<1>11. Places'
  <2>1. GenerationFirst' /\ (head'.version > 0 => head'.sha \in generation')
    BY <1>1, <1>6 DEF CoordinatorInvariant, Places, GenerationFirst
  <2>2. Pending' # {}
    BY <1>3, <1>9 DEF Pending
  <2> QED
    BY <1>3, <1>8, <1>9, <1>10, <2>1, <2>2 DEF Places
<1>12. PICK x : x = [pc |-> "completing", node |-> n]
  OBVIOUS
<1>13. x \in InCall /\ x.pc \notin Locked
  BY <1>12, InCalls DEF Loose, Locked
<1>14. call' = [call EXCEPT ![c] = x]
  <2>1. "completing" \in Loose /\ ~At(c, "idle")
    BY <1>1 DEF Loose, At
  <2>2. TypeOK /\ call[c].node = n /\ Goto(c, "completing")
    BY <1>1 DEF CoordinatorInvariant
  <2>3. call' = [call EXCEPT ![c] = [pc |-> "completing", node |-> n]]
    BY <2>1, <2>2, Went
  <2> QED
    BY <1>12, <2>3
<1>15. CallFits(x)'
  <2>1. Rollback(n)' # {}
    BY <1>2, <1>3, RollbackPlaces
  <2> QED
    BY <1>3, <1>12, <2>1 DEF CallFits
<1> QED
  BY <1>1, <1>2, <1>3, <1>4, <1>5, <1>11, <1>13, <1>14, <1>15, DatabaseStep

LEMMA CompleteRollbackStep ==
  ASSUME CoordinatorInvariant, NEW c \in Caller, NEW n \in Node, CompleteRollback(c, n)
  PROVE  CoordinatorInvariant' /\ Pending' = {} /\ n \in PendingRollbacks /\ binding = To(n)
<1>1. /\ call[c].pc = "completing" /\ call[c].node = n /\ writer = None /\ writer' = writer
      /\ Return(c)
      /\ head' = [version |-> head.version + 1, sha |-> To(n), attempt |-> n]
      /\ state' = state /\ attempt' = attempt /\ UNCHANGED physical
  BY DEF CompleteRollback, At
<1>2. Rollback(n) # {} /\ Phase(n) # "PREPARED"
  BY <1>1 DEF CoordinatorInvariant, CallFits
<1>3. /\ Story' /\ journal' \in Seq(JournalRow) /\ head' \in HeadRow
      /\ n \in PendingRollbacks /\ PendingRollbacks' = {} /\ PendingPromotions' = {}
      /\ \A m \in Node : Rollback(m) # {} => Rollback(m)' # {} /\ Prepared(m)' = Prepared(m)
      /\ \A m \in Node : Rollback(m) # {} /\ Phase(m) # "PREPARED" => Phase(m)' # "PREPARED"
  BY <1>2, CompleteRollbackStory DEF CoordinatorInvariant
<1>4. DatabaseTyped'
  BY <1>1, <1>3 DEF CoordinatorInvariant, TypeOK, DatabaseTyped
<1>5. Progress
  BY <1>1, <1>3 DEF Progress
<1>6. /\ generation' = generation /\ accepted' = accepted /\ binding' = binding
      /\ rollbackRef' = rollbackRef
  BY <1>1 DEF physical
<1>7. \A m \in Node : Base(m)' = Base(m) /\ Candidate(m)' = Candidate(m) /\ Saved(m)' = Saved(m)
  BY <1>1, <1>6 DEF Base, Candidate, Saved
<1>8. RefsFit'
  BY <1>1, <1>6, <1>7 DEF CoordinatorInvariant, Places, RefsFit
<1>9. accepted = To(n) /\ binding = To(n) /\ To(n) \in generation
  BY <1>2, <1>3, Published
<1>10. HeadFits' /\ head'.sha \in generation'
  BY <1>1, <1>6, <1>9 DEF HeadFits
<1>11. Places'
  BY <1>3, <1>6, <1>8, <1>10 DEF CoordinatorInvariant, Places, GenerationFirst
<1>12. PICK x : x = Idle
  OBVIOUS
<1>13. x.pc \notin Locked /\ CallFits(x)'
  BY <1>12 DEF Idle, Locked, CallFits
<1>14. call' = [call EXCEPT ![c] = x]
  BY <1>1, <1>12 DEF Return
<1>15. CoordinatorInvariant'
  BY <1>1, <1>3, <1>4, <1>5, <1>11, <1>12, <1>13, <1>14, DatabaseStep
<1> QED
  BY <1>3, <1>9, <1>15 DEF Pending

-----------------------------------------------------------------------------
(* The invariant *)

LEMMA InitFits == Init => CoordinatorInvariant
<1> SUFFICES ASSUME Init
             PROVE  CoordinatorInvariant
  OBVIOUS
<1>1. /\ state = [n \in Node |-> "READY"] /\ attempt = [n \in Node |-> NoAttempt]
      /\ journal = <<>> /\ head = NoHead
      /\ generation = {} /\ accepted = None /\ rollbackRef = {}
      /\ binding = Baseline
      /\ call = [c \in Caller |-> Idle] /\ writer = None
  BY DEF Init
<1>2. \A n \in Node : attempt[n] = NoAttempt /\ attempt[n].status = "NONE" /\ state[n] = "READY"
  BY <1>1 DEF NoAttempt
<1>3. DOMAIN journal = {} /\ Completed = {} /\ \A n \in Node : Rollback(n) = {}
  BY <1>1 DEF Completed, Rollback
<1>4. PendingPromotions = {} /\ PendingRollbacks = {} /\ Pending = {}
  BY <1>2, <1>3 DEF PendingPromotions, PendingRollbacks, Pending
<1>5. head \in HeadRow /\ head.sha = Baseline /\ Baseline \in CommitOf /\ head.version = 0
  <2>1. Baseline \in CommitOf
    BY DEF Baseline, CommitOf
  <2> QED
    BY <1>1, <2>1 DEF NoHead, HeadRow
<1>6. \A c \in Caller : call[c] = Idle /\ call[c].pc = "idle"
  BY <1>1 DEF Idle
<1>7. TypeOK
  <2>1. state \in [Node -> {"READY", "PASSED", "INTEGRATED"}]
    BY <1>1
  <2>2. attempt \in [Node -> AttemptRow \cup {NoAttempt}]
    BY <1>1
  <2>3. journal \in Seq(JournalRow)
    BY <1>1
  <2>4. call \in [Caller -> InCall \cup {Idle}]
    BY <1>1
  <2>5. \A c \in Caller : call[c].pc \in Locked <=> writer = c
    BY <1>1, <1>6, PublicationAssumption DEF Locked
  <2> QED
    BY <1>1, <1>5, <2>1, <2>2, <2>3, <2>4, <2>5 DEF TypeOK
<1>8. Story
  <2>1. \A n \in Node : NodeFits(n) /\ InPhases(n)
    BY <1>2, <1>3, <1>4 DEF NodeFits, InPhases
  <2>2. OneAtATime
    BY <1>4 DEF OneAtATime
  <2>3. History
    BY <1>1, <1>2, <1>3 DEF History, Continuous, HeadOf
  <2> QED
    BY <1>3, <2>1, <2>2, <2>3 DEF Story
<1>9. Places
  <2>1. RefsFit
    BY <1>1, <1>2 DEF RefsFit
  <2>2. HeadFits /\ ~(head.version > 0) /\ GenerationFirst
    BY <1>1, <1>5 DEF HeadFits, GenerationFirst
  <2> QED
    BY <1>4, <2>1, <2>2 DEF Places
<1>10. \A c \in Caller : CallFits(call[c]) /\ LockFits(call[c])
  BY <1>6 DEF CallFits, LockFits
<1> QED
  BY <1>7, <1>8, <1>9, <1>10 DEF CoordinatorInvariant

LEMMA PromotionFitsOn ==
  ASSUME CoordinatorInvariant, NEW c \in Caller, NEW n \in Node, Promotion(c, n)
  PROVE  CoordinatorInvariant'
BY AdmitStep, PrepareAttemptStep, ReconcileStep, RetryStep, RecoverNothingStep,
   RecoverPromotionStep, BeginPromotionStep, EnsureCandidateStep, CreateAcceptedStep,
   SaveRollbackRefStep, AdvanceAcceptedStep, AdvanceBindingStep, MarkBoundStep,
   FinalizePromotionStep DEF Promotion

LEMMA UndoingFitsOn ==
  ASSUME CoordinatorInvariant, NEW c \in Caller, NEW n \in Node, Undoing(c, n)
  PROVE  CoordinatorInvariant'
BY PrepareRollbackStep, ReconcileRollbackStep, BeginRollbackStep, ReturnAcceptedStep,
   ReturnBindingStep, MarkPublishedStep, CompleteRollbackStep DEF Undoing

LEMMA NothingFitsOn ==
  ASSUME CoordinatorInvariant, UNCHANGED vars
  PROVE  CoordinatorInvariant'
<1>1. UNCHANGED <<database, physical>> /\ call' = call /\ writer' = writer
  BY DEF vars, database, physical
<1>2. Progress /\ DatabaseTyped' /\ Story'
  BY <1>1, DatabaseStays
<1>3. Places'
  BY <1>1, DatabaseKept, PlacesKept DEF CoordinatorInvariant
<1>4. TypeOK'
  BY <1>1, <1>2 DEF CoordinatorInvariant, TypeOK, DatabaseTyped, physical
<1>5. ASSUME NEW d \in Caller
      PROVE  (CallFits(call[d]) /\ LockFits(call[d]))'
  <2>1. PICK r : r = call[d]
    OBVIOUS
  <2>2. CallFits(r)' /\ LockFits(r)'
    BY <1>1, <1>2, <2>1, OtherFits DEF CoordinatorInvariant
  <2>3. call'[d] = r
    BY <1>1, <2>1
  <2> QED
    BY <2>2, <2>3
<1> QED
  BY <1>2, <1>3, <1>4, <1>5 DEF CoordinatorInvariant

LEMMA StepFits ==
  ASSUME CoordinatorInvariant, [Next]_vars
  PROVE  CoordinatorInvariant'
<1>1. ASSUME NEW n \in Node, Judge(n)
      PROVE  CoordinatorInvariant'
  BY <1>1, JudgeStep
<1>2. ASSUME NEW c \in Caller, NEW n \in Node, Promotion(c, n) \/ Undoing(c, n)
      PROVE  CoordinatorInvariant'
  BY <1>2, PromotionFitsOn, UndoingFitsOn
<1>3. ASSUME NEW c \in Caller, Abort(c)
      PROVE  CoordinatorInvariant'
  BY <1>3, AbortStep
<1>4. CASE EnsureBound
  BY <1>4, EnsureBoundStep
<1>5. CASE UNCHANGED vars
  BY <1>5, NothingFitsOn
<1> QED
  BY <1>1, <1>2, <1>3, <1>4, <1>5 DEF Next

LEMMA AlwaysInvariant == Spec => []CoordinatorInvariant
<1>1. CoordinatorInvariant /\ [Next]_vars => CoordinatorInvariant'
  BY StepFits
<1> QED
  BY InitFits, <1>1, PTL DEF Spec

-----------------------------------------------------------------------------
(* What the invariant says *)

LEMMA OnePending ==
  ASSUME OneAtATime, PendingPromotions \cap PendingRollbacks = {}
  PROVE  Cardinality(PendingPromotions) + Cardinality(PendingRollbacks) <= 1
<1> DEFINE P == PendingPromotions
           R == PendingRollbacks
<1>0. Cardinality({}) = 0
  BY FS_EmptySet
<1>1. CASE P = {} /\ R = {}
  BY <1>0, <1>1
<1>2. ASSUME NEW n, n \in P
      PROVE  Cardinality(P) = 1 /\ Cardinality(R) = 0
  <2>1. P = {n} /\ R = {}
    BY <1>2 DEF OneAtATime, Pending
  <2> HIDE DEF P, R
  <2>2. Cardinality({n}) = 1
    BY FS_Singleton
  <2> QED
    BY <1>0, <2>1, <2>2
<1>3. ASSUME NEW n, n \in R
      PROVE  Cardinality(R) = 1 /\ Cardinality(P) = 0
  <2>1. R = {n} /\ P = {}
    BY <1>3 DEF OneAtATime, Pending
  <2> HIDE DEF P, R
  <2>2. Cardinality({n}) = 1
    BY FS_Singleton
  <2> QED
    BY <1>0, <2>1, <2>2
<1> HIDE DEF P, R
<1>4. Cardinality(P) + Cardinality(R) <= 1
  BY <1>1, <1>2, <1>3, <1>0
<1> QED
  BY <1>4 DEF P, R

LEMMA PhysicalHolds == CoordinatorInvariant => PhysicalIntegrity
<1> SUFFICES ASSUME CoordinatorInvariant
             PROVE  PhysicalIntegrity
  OBVIOUS
<1>1. PendingPromotions \cap PendingRollbacks = {}
  BY RollbackPlaces
<1>2. Cardinality(PendingPromotions) + Cardinality(PendingRollbacks) <= 1
  BY <1>1, OnePending DEF CoordinatorInvariant, Story
<1> QED
  BY <1>2 DEF CoordinatorInvariant, Places, PhysicalIntegrity

LEMMA JournalHolds == CoordinatorInvariant => JournalIntegrity
<1> SUFFICES ASSUME CoordinatorInvariant
             PROVE  JournalIntegrity
  OBVIOUS
<1>1. TypeOK /\ Story /\ History /\ journal \in Seq(JournalRow)
  BY DEF CoordinatorInvariant, Story, TypeOK
<1>2. \A n \in Node : \A i \in Rollback(n) :
        journal[i] = [Prepared(n) EXCEPT
          !.phase = Phases[Cardinality({j \in Rollback(n) : j <= i})]]
  BY <1>1, PhasesCounted DEF Story
<1>3. \A n \in PendingRollbacks : Prepared(n).graph.head = head
  BY RollbackPlaces DEF UndoFits
<1>4. Closure
  <2>1. ASSUME NEW i \in Completed
        PROVE  LET e == journal[i]  n == e.node IN
               /\ attempt[n].status = "COMPLETED" /\ state[n] = "INTEGRATED"
               /\ IF e.kind = "PROMOTION"
                  THEN e.graph = attempt[n].graph /\ e.to = Candidate(n)
                  ELSE /\ e.graph.head.attempt = n
                       /\ e.graph.head.sha = Candidate(n) /\ e.to = Base(n)
    BY <1>1, CompletedRows DEF History, RowFits, JournalRow
  <2>2. ASSUME NEW n \in Node, attempt[n].status = "COMPLETED"
        PROVE  Cardinality({i \in Completed :
                              journal[i].kind = "PROMOTION" /\ journal[i].node = n}) = 1
    <3>1. PICK i \in Completed : PromotionRows(n) = {i}
      BY <1>1, <2>2 DEF History
    <3>2. Cardinality({i}) = 1
      BY FS_Singleton
    <3>3. Cardinality(PromotionRows(n)) = 1
      BY <3>1, <3>2
    <3> QED
      BY <3>3 DEF PromotionRows
  <2>3. \A n \in Node : state[n] = "INTEGRATED" => attempt[n].status = "COMPLETED"
    BY <1>1 DEF Story, NodeFits
  <2> QED
    BY <2>1, <2>2, <2>3 DEF Closure
<1> QED
  BY <1>1, <1>2, <1>3, <1>4 DEF JournalIntegrity, History

\* The tables, the ref, the binding and the calls keep their shapes, and the writer
\* lock (_publication_writer_lock) is held by the one call that is inside it.
THEOREM AlwaysTyped == Spec => []TypeOK
<1>1. CoordinatorInvariant => TypeOK
  BY DEF CoordinatorInvariant
<1> QED
  BY <1>1, AlwaysInvariant, PTL

\* Wherever calls are cut off, whoever goes on with what they left: the check in
\* front of every operation (_assert_physical_publication_integrity) finds at most
\* one publication pending, and the ref and the binding where it may have left them.
THEOREM NeverLockedOut == Spec => []NeverLocksOut
<1>1. CoordinatorInvariant => NeverLocksOut
  BY PhysicalHolds DEF NeverLocksOut
<1> QED
  BY <1>1, AlwaysInvariant, PTL

\* The journal, the attempts, the nodes and the head never contradict each other
\* (assert_graph_publication_integrity, _assert_completed_database_closure).
THEOREM HistoryAlwaysClosed == Spec => []HistoryClosed
<1>1. CoordinatorInvariant => HistoryClosed
  BY JournalHolds DEF HistoryClosed
<1> QED
  BY <1>1, AlwaysInvariant, PTL

\* A rollback in progress is of the promotion that made the head, and no request
\* for another node's rollback gets past that (rollback, reconcile_rollback).
THEOREM RollbackAlwaysOwnsHead == Spec => []RollbackOwnsHead
<1>1. CoordinatorInvariant => RollbackOwnsHead
  BY RollbackPlaces DEF RollbackOwnsHead, UndoFits
<1> QED
  BY <1>1, AlwaysInvariant, PTL

\* The accepted ref and the binding name commits whose immutable worktree is
\* complete: _promote_locked and reconcile make the generation before they move them.
THEOREM GenerationAlwaysFirst == Spec => []GenerationFirst
<1>1. CoordinatorInvariant => GenerationFirst
  BY DEF CoordinatorInvariant, Places
<1> QED
  BY <1>1, AlwaysInvariant, PTL

-----------------------------------------------------------------------------
(* What is prepared stays ready *)

\* Every request that completes a publication compares the graph with the one
\* recorded when it was PREPARED, and refuses at a difference
\* (_assert_prepared_promotion_ready, _assert_prepared_affected_graph).  No step
\* of anybody makes one: a publication that was prepared is never beyond recovery.
PreparedStaysReady ==
  /\ \A n \in PendingPromotions : state[n] = "PASSED" /\ PromotionReady(n)
  /\ \A n \in PendingRollbacks : state[n] = "INTEGRATED" /\ RollbackReady(n)

\* The graph is made of the states, the head and the bases of integrated nodes.
LEMMA GraphKept ==
  ASSUME state' = state, head' = head,
         \A m \in Node : state[m] = "INTEGRATED" => attempt'[m].graph = attempt[m].graph
  PROVE  /\ AffectedGraph' = AffectedGraph
         /\ \A n \in Node : Quiescent({n})' = Quiescent({n})
         /\ Quiescent({})' = Quiescent({})
<1>1. \A m \in Node : OnHead(m)' = OnHead(m)
  BY DEF OnHead
<1>2. {m \in Node : OnHead(m)}' = {m \in Node : OnHead(m)}
  BY <1>1
<1>3. AffectedGraph' = AffectedGraph
  BY <1>2 DEF AffectedGraph
<1> QED
  BY <1>1, <1>3 DEF Quiescent

\* What is pending stays as it was prepared while the graph and its record stay.
LEMMA ReadyKept ==
  ASSUME PreparedStaysReady, state' = state, head' = head,
         \A m \in Node : attempt'[m].graph = attempt[m].graph,
         PendingPromotions' = PendingPromotions, PendingRollbacks' = PendingRollbacks,
         \A m \in PendingRollbacks : Prepared(m)' = Prepared(m)
  PROVE  PreparedStaysReady'
<1>1. /\ AffectedGraph' = AffectedGraph /\ Quiescent({})' = Quiescent({})
      /\ \A n \in Node : Quiescent({n})' = Quiescent({n})
  BY GraphKept
<1>2. \A n \in PendingPromotions : n \in Node /\ PromotionReady(n)' = PromotionReady(n)
  BY <1>1 DEF PromotionReady, PendingPromotions
<1>3. \A n \in PendingRollbacks : RollbackReady(n)' = RollbackReady(n)
  BY <1>1 DEF RollbackReady
<1> QED
  BY <1>2, <1>3 DEF PreparedStaysReady

LEMMA ReadyUntouched ==
  ASSUME PreparedStaysReady, UNCHANGED database
  PROVE  PreparedStaysReady'
<1>1. state' = state /\ attempt' = attempt /\ journal' = journal /\ head' = head
  BY DEF database
<1>2. PendingPromotions' = PendingPromotions /\ PendingRollbacks' = PendingRollbacks
  BY <1>1, JournalKept DEF PendingPromotions, PendingRollbacks
<1>3. \A m \in PendingRollbacks : Prepared(m)' = Prepared(m)
  BY <1>1, JournalKept DEF PendingRollbacks
<1> QED
  BY <1>1, <1>2, <1>3, ReadyKept

LEMMA ReadyAttempt ==
  ASSUME CoordinatorInvariant, NEW c \in Caller, NEW n \in Node, PrepareAttempt(c, n),
         attempt[n] = NoAttempt
  PROVE  PreparedStaysReady'
<1>1. /\ Pending = {} /\ Quiescent({n}) /\ call[c].pc = "preparing" /\ call[c].node = n
      /\ attempt' = [attempt EXCEPT ![n] = [status |-> "PREPARED", graph |-> AffectedGraph]]
      /\ state' = state /\ journal' = journal /\ head' = head
  <2>1. attempt[n].status = "NONE"
    BY Attempts DEF CoordinatorInvariant
  <2> QED
    BY DEF PrepareAttempt, At
<1>2. state[n] = "PASSED"
  <2>1. state[n] # "READY"
    BY <1>1 DEF CoordinatorInvariant, CallFits
  <2>2. state[n] # "INTEGRATED"
    BY Attempts DEF CoordinatorInvariant, Story, NodeFits
  <2> QED
    BY <2>1, <2>2 DEF CoordinatorInvariant, TypeOK
<1>3. /\ attempt'[n] = [status |-> "PREPARED", graph |-> AffectedGraph]
      /\ \A m \in Node : m # n => attempt'[m] = attempt[m]
  BY <1>1 DEF CoordinatorInvariant, TypeOK
<1>4. AffectedGraph' = AffectedGraph /\ Quiescent({n})'
  BY <1>1, <1>2, <1>3, GraphKept
<1>5. PendingPromotions' = {n} /\ PendingRollbacks' = {}
  BY <1>1, <1>3, JournalKept DEF Pending, PendingPromotions, PendingRollbacks
<1> QED
  BY <1>1, <1>2, <1>3, <1>4, <1>5 DEF PreparedStaysReady, PromotionReady

LEMMA ReadyBound ==
  ASSUME CoordinatorInvariant, PreparedStaysReady,
         NEW c \in Caller, NEW n \in Node, MarkBound(c, n)
  PROVE  PreparedStaysReady'
<1>1. /\ attempt[n].status = "PREPARED"
      /\ attempt' = [attempt EXCEPT ![n].status = "BINDING_UPDATED"]
      /\ state' = state /\ journal' = journal /\ head' = head
  BY DEF MarkBound
<1>2. attempt[n] \in AttemptRow
  BY <1>1, Attempts DEF CoordinatorInvariant
<1>3. /\ attempt'[n] = [attempt[n] EXCEPT !.status = "BINDING_UPDATED"]
      /\ \A m \in Node : m # n => attempt'[m] = attempt[m]
  BY <1>1 DEF CoordinatorInvariant, TypeOK
<1>4. attempt'[n].status = "BINDING_UPDATED" /\ attempt'[n].graph = attempt[n].graph
  BY <1>2, <1>3 DEF AttemptRow
<1>5. PendingPromotions' = PendingPromotions /\ PendingRollbacks' = PendingRollbacks
  BY <1>1, <1>3, <1>4, JournalKept DEF PendingPromotions, PendingRollbacks
<1>6. \A m \in PendingRollbacks : Prepared(m)' = Prepared(m)
  BY <1>1, JournalKept DEF PendingRollbacks
<1> QED
  BY <1>1, <1>3, <1>4, <1>5, <1>6, ReadyKept

LEMMA ReadyRollback ==
  ASSUME CoordinatorInvariant, NEW c \in Caller, NEW n \in Node, PrepareRollback(c, n)
  PROVE  PreparedStaysReady'
<1> DEFINE e == Entry("ROLLBACK", n, "PREPARED", Base(n), AffectedGraph)
<1>1. /\ Pending = {} /\ Rollback(n) = {} /\ attempt[n].status = "COMPLETED"
      /\ Quiescent({}) /\ journal' = Append(journal, e)
      /\ state' = state /\ attempt' = attempt /\ head' = head
  BY DEF PrepareRollback
<1>2. /\ e \in JournalRow /\ e.kind = "ROLLBACK" /\ e.node = n /\ e.phase = "PREPARED"
      /\ e.graph = AffectedGraph
  <2>1. Base(n) \in CommitOf
    BY <1>1, Attempts DEF CoordinatorInvariant
  <2> QED
    BY <2>1, GraphNow DEF Entry, JournalRow, CoordinatorInvariant
<1>3. journal \in Seq(JournalRow) /\ \A m \in Node : InPhases(m)
  BY DEF TypeOK, Story, CoordinatorInvariant
<1> HIDE DEF e
<1>4. Prepared(n)' = e
  BY <1>1, <1>2, <1>3, PreparedRow
<1>5. \A m \in Node : m # n =>
        /\ Rollback(m)' = Rollback(m)
        /\ Rollback(m) # {} => Phase(m)' = Phase(m)
  BY <1>1, <1>2, <1>3, OtherRow
<1>6. PendingPromotions' = {} /\ PendingRollbacks' \subseteq {n}
  BY <1>1, <1>5 DEF Pending, PendingPromotions, PendingRollbacks
<1>7. AffectedGraph' = AffectedGraph /\ Quiescent({})'
  BY <1>1, GraphKept
<1>8. state'[n] = "INTEGRATED"
  BY <1>1 DEF CoordinatorInvariant, Story, NodeFits
<1> QED
  BY <1>2, <1>4, <1>6, <1>7, <1>8 DEF PreparedStaysReady, RollbackReady

LEMMA ReadyOn ==
  ASSUME CoordinatorInvariant, PreparedStaysReady, [Next]_vars
  PROVE  PreparedStaysReady'
<1>1. ASSUME NEW n \in Node, Judge(n)
      PROVE  PreparedStaysReady'
  <2>1. Pending = {} /\ attempt' = attempt /\ journal' = journal
    BY <1>1 DEF Judge
  <2>2. PendingPromotions' = {} /\ PendingRollbacks' = {}
    BY <2>1, JournalKept DEF Pending, PendingPromotions, PendingRollbacks
  <2> QED
    BY <2>2 DEF PreparedStaysReady
<1>2. ASSUME NEW c \in Caller, NEW n \in Node, Promotion(c, n)
      PROVE  PreparedStaysReady'
  <2>1. CASE PrepareAttempt(c, n)
    <3>1. CASE attempt[n] = NoAttempt
      BY <2>1, <3>1, ReadyAttempt
    <3>2. CASE attempt[n] # NoAttempt
      <4>1. UNCHANGED database
        BY <2>1, <3>2 DEF PrepareAttempt, database
      <4> QED
        BY <4>1, ReadyUntouched
    <3> QED
      BY <3>1, <3>2
  <2>2. CASE MarkBound(c, n)
    BY <2>2, ReadyBound
  <2>3. CASE FinalizePromotion(c, n)
    <3>1. PendingPromotions' = {} /\ PendingRollbacks' = {}
      BY <2>3, FinalizeStory DEF CoordinatorInvariant
    <3> QED
      BY <3>1 DEF PreparedStaysReady
  <2>4. CASE UNCHANGED database
    BY <2>4, ReadyUntouched
  <2> QED
    BY <1>2, <2>1, <2>2, <2>3, <2>4
    DEF Promotion, Admit, Reconcile, Retry, RecoverNothing, RecoverPromotion,
        BeginPromotion, EnsureCandidate, CreateAccepted, SaveRollbackRef,
        AdvanceAccepted, AdvanceBinding
<1>3. ASSUME NEW c \in Caller, NEW n \in Node, Undoing(c, n)
      PROVE  PreparedStaysReady'
  <2>1. CASE PrepareRollback(c, n)
    BY <2>1, ReadyRollback
  <2>2. CASE MarkPublished(c, n)
    <3>1. /\ PendingRollbacks' = PendingRollbacks /\ PendingPromotions' = PendingPromotions
          /\ \A m \in Node : Rollback(m) # {} => Prepared(m)' = Prepared(m)
      BY <2>2, MarkPublishedStep, MarkPublishedStory DEF CoordinatorInvariant
    <3>2. state' = state /\ attempt' = attempt /\ head' = head
      BY <2>2 DEF MarkPublished
    <3>3. \A m \in PendingRollbacks : Prepared(m)' = Prepared(m)
      BY <3>1 DEF PendingRollbacks
    <3> QED
      BY <3>1, <3>2, <3>3, ReadyKept
  <2>3. CASE CompleteRollback(c, n)
    <3>1. Pending' = {}
      BY <2>3, CompleteRollbackStep
    <3> QED
      BY <3>1 DEF PreparedStaysReady, Pending
  <2>4. CASE UNCHANGED database
    BY <2>4, ReadyUntouched
  <2> QED
    BY <1>3, <2>1, <2>2, <2>3, <2>4
    DEF Undoing, ReconcileRollback, BeginRollback, ReturnAccepted, ReturnBinding
<1>4. CASE (\E c \in Caller : Abort(c)) \/ EnsureBound \/ UNCHANGED vars
  <2>1. UNCHANGED database
    BY <1>4 DEF Abort, EnsureBound, vars, database
  <2> QED
    BY <2>1, ReadyUntouched
<1> QED
  BY <1>1, <1>2, <1>3, <1>4 DEF Next

\* Whatever anybody does between the crash of a publication and the request that
\* takes it up again, the rows, the head and the peers are as when it was PREPARED:
\* reconcile and reconcile_rollback never refuse over the graph.
THEOREM PreparedAlwaysReady == Spec => []PreparedStaysReady
<1>1. Init => PreparedStaysReady
  <2> SUFFICES ASSUME Init PROVE PreparedStaysReady
    OBVIOUS
  <2>1. PendingPromotions = {} /\ PendingRollbacks = {}
    BY DEF Init, NoAttempt, PendingPromotions, PendingRollbacks, Rollback
  <2> QED
    BY <2>1 DEF PreparedStaysReady
<1>2. CoordinatorInvariant /\ PreparedStaysReady /\ [Next]_vars => PreparedStaysReady'
  BY ReadyOn
<1> QED
  BY <1>1, <1>2, AlwaysInvariant, PTL DEF Spec

-----------------------------------------------------------------------------
(* What workers see is an accepted line *)

Bindings == [p \in {"project"} |-> binding]

JudgedOn(n) == IF state[n] = "INTEGRATED" THEN Base(n) ELSE head.sha

Judged == {[node |-> n, base |-> JudgedOn(n)] : n \in {m \in Node : state[m] # "READY"}}

Integrated == {n \in Node : state[n] = "INTEGRATED"} \cup Moved

Undos == [p \in {"project"} |-> Undoable]

LEMMA LineKept ==
  ASSUME binding' = binding, Undoable' = Undoable, Integrated' = Integrated,
         \A n \in Node : state'[n] # "READY" <=> state[n] # "READY",
         \A n \in Node : state[n] # "READY" => JudgedOn(n)' = JudgedOn(n)
  PROVE  UNCHANGED Line!vars
<1>1. Judged' = Judged
  BY DEF Judged
<1>2. Bindings' = Bindings /\ Undos' = Undos
  BY DEF Bindings, Undos
<1> QED
  BY <1>1, <1>2 DEF Line!vars, Bindings, Judged, JudgedOn, Integrated, Undos

\* A step that leaves the database and the binding alone is not seen.
LEMMA LineStays ==
  ASSUME TypeOK, UNCHANGED database, binding' = binding
  PROVE  UNCHANGED Line!vars
<1>1. Moved' = Moved /\ Undone' = Undone
  BY DatabaseKept DEF Moved, Undone, PendingPromotions, PendingRollbacks
<1>2. head.attempt # None => Candidate(head.attempt)' = Candidate(head.attempt)
  BY DatabaseKept DEF TypeOK, HeadRow
<1>3. Undoable' = Undoable
  BY <1>1, <1>2, DatabaseKept DEF Undoable
<1>4. \A n \in Node : JudgedOn(n)' = JudgedOn(n)
  BY DatabaseKept DEF JudgedOn
<1> QED
  BY <1>1, <1>3, <1>4, DatabaseKept, LineKept DEF Integrated

\* What can be undone by where the one pending publication is.
LEMMA UndoOfMoved ==
  ASSUME NEW n, Moved = {n}
  PROVE  Undoable = n
BY DEF Undoable

LEMMA UndoOfNone ==
  ASSUME Moved = {}, Undone # {}
  PROVE  Undoable = None
BY DEF Undoable

LEMMA UndoOfHead ==
  ASSUME Moved = {}, Undone = {}
  PROVE  Undoable = IF head.attempt # None /\ head.sha = Candidate(head.attempt)
                    THEN head.attempt ELSE None
BY DEF Undoable

LEMMA UndoAfter ==
  /\ \A n : Moved' = {n} => Undoable' = n
  /\ Moved' = {} /\ Undone' # {} => Undoable' = None
  /\ Moved' = {} /\ Undone' = {} =>
       Undoable' = IF head'.attempt # None /\ head'.sha = Candidate(head.attempt)'
                   THEN head'.attempt ELSE None
BY DEF Undoable

LEMMA NothingMoved ==
  ASSUME Pending = {}
  PROVE  Moved = {} /\ Undone = {}
BY DEF Moved, Undone, Pending

\* A pending promotion is of a node that passed, on the head.
LEMMA PendingPassed ==
  ASSUME CoordinatorInvariant, NEW n \in PendingPromotions
  PROVE  /\ state[n] = "PASSED" /\ Base(n) = head.sha
         /\ PendingPromotions = {n} /\ PendingRollbacks = {}
<1>1. NodeFits(n) /\ attempt[n] # NoAttempt /\ n \in Node
  BY PromotionPlaces DEF Story
<1>2. attempt[n].status # "COMPLETED" /\ state[n] \in {"READY", "PASSED", "INTEGRATED"}
  BY <1>1 DEF PendingPromotions, CoordinatorInvariant, TypeOK
<1>3. n \notin PendingRollbacks
  BY <1>2, RollbackPlaces DEF UndoFits
<1>4. PendingPromotions = {n} /\ PendingRollbacks = {}
  BY <1>3 DEF CoordinatorInvariant, Story, OneAtATime, Pending
<1> QED
  BY <1>1, <1>2, <1>4 DEF NodeFits, Base

LEMMA PendingUndone ==
  ASSUME CoordinatorInvariant, NEW n \in PendingRollbacks
  PROVE  PendingRollbacks = {n} /\ PendingPromotions = {}
BY RollbackPlaces DEF Story, OneAtATime, Pending

\* The head names an attempt that was completed, so not one that is prepared.
LEMMA HeadCompleted ==
  ASSUME TypeOK, Story, head.attempt # None
  PROVE  head.attempt \in Node /\ attempt[head.attempt].status = "COMPLETED"
<1>1. head = HeadOf(Completed)
  BY DEF Story, History, Continuous
<1>2. Completed # {}
  BY <1>1 DEF HeadOf, NoHead
<1>3. PICK i : i = Max(Completed)
  OBVIOUS
<1>4. i \in Completed
  <2>1. Completed \subseteq 1..Len(journal) /\ Len(journal) \in Nat
    BY DEF Completed, TypeOK
  <2>2. Max(Completed) \in Completed
    BY <1>2, <2>1, LastExists
  <2> QED
    BY <1>3, <2>2
<1>5. head.attempt = journal[i].node
  BY <1>1, <1>2, <1>3 DEF HeadOf, HeadAfter
<1>6. journal[i].node \in Node /\ RowFits(journal[i])
  BY <1>4, CompletedRows DEF JournalRow, Story, History
<1> QED
  BY <1>5, <1>6 DEF RowFits

\* A node is judged on what workers see.
LEMMA JudgeLine ==
  ASSUME CoordinatorInvariant, NEW n \in Node, Judge(n)
  PROVE  Line!Judge(n)
<1>1. /\ Pending = {} /\ state[n] = "READY" /\ state' = [state EXCEPT ![n] = "PASSED"]
      /\ attempt' = attempt /\ journal' = journal /\ head' = head /\ binding' = binding
  BY DEF Judge, physical
<1>2. state'[n] = "PASSED" /\ \A m \in Node : m # n => state'[m] = state[m]
  BY <1>1 DEF CoordinatorInvariant, TypeOK
<1>3. binding = head.sha
  BY <1>1 DEF CoordinatorInvariant, Places, HeadFits
<1>4. Moved' = Moved /\ Undone' = Undone
  BY <1>1, RowsKept DEF Moved, Undone, PendingPromotions, PendingRollbacks
<1>5. Undoable' = Undoable
  <2>1. head.attempt # None => Candidate(head.attempt)' = Candidate(head.attempt)
    BY <1>1, RowsKept DEF CoordinatorInvariant, TypeOK, HeadRow
  <2> QED
    BY <1>1, <1>4, <2>1 DEF Undoable
<1>6. Integrated' = Integrated
  BY <1>1, <1>2, <1>4 DEF Integrated
<1>7. \A m \in Node : m # n => JudgedOn(m)' = JudgedOn(m)
  BY <1>1, <1>2, RowsKept DEF JudgedOn
<1>8. JudgedOn(n)' = binding
  BY <1>1, <1>2, <1>3 DEF JudgedOn
<1>9. Judged' = Judged \cup {[node |-> n, base |-> binding]}
  BY <1>1, <1>2, <1>7, <1>8 DEF Judged
<1>10. \A j \in Judged : j.node # n
  BY <1>1 DEF Judged
<1>11. Bindings[[m \in Node |-> "project"][n]] = binding /\ Bindings' = Bindings
  BY <1>1 DEF Bindings
<1>12. Undos' = Undos
  BY <1>5 DEF Undos
<1> QED
  BY <1>6, <1>9, <1>10, <1>11, <1>12
  DEF Line!Judge, Bindings, Judged, JudgedOn, Integrated, Undos

\* The step that moves the binding forward is the promotion, for workers.
LEMMA AdvanceBindingLine ==
  ASSUME CoordinatorInvariant, NEW c \in Caller, NEW n \in Node, AdvanceBinding(c, n)
  PROVE  Line!Promote(n) \/ UNCHANGED Line!vars
<1>1. UNCHANGED database /\ binding' = Candidate(n)
  BY DEF AdvanceBinding
<1>2. n \in PendingPromotions /\ accepted = Candidate(n)
  BY AdvanceBindingStep
<1>3. /\ state[n] = "PASSED" /\ Base(n) = head.sha
      /\ PendingPromotions = {n} /\ PendingRollbacks = {}
  BY <1>2, PendingPassed
<1>4. /\ Candidate(n) # Base(n) /\ Candidate(n) = Append(Base(n), ChangeOf[n])
      /\ binding \in {Base(n), Candidate(n)}
  <2>1. PromotionFits(n) /\ Candidate(n) # Base(n) /\ Candidate(n) # None /\ Candidate(n) \in CommitOf
    BY <1>2, PromotionPlaces
  <2> QED
    BY <1>2, <2>1 DEF PromotionFits, Reached, Candidate
<1>5. CASE binding = Candidate(n)
  BY <1>1, <1>5, LineStays DEF CoordinatorInvariant
<1>6. CASE binding = Base(n)
  <2>1. Moved = {} /\ Moved' = {n} /\ Undone = {}
    BY <1>1, <1>3, <1>4, <1>6, DatabaseKept DEF Moved, Undone
  <2>2. Undoable' = n
    BY <2>1, UndoAfter
  <2>3. Integrated' = Integrated \cup {n} /\ n \notin Integrated
    BY <1>1, <1>3, <2>1, DatabaseKept DEF Integrated
  <2>4. Judged' = Judged
    BY <1>1, DatabaseKept DEF Judged, JudgedOn
  <2>5. [node |-> n, base |-> binding] \in Judged
    <3>1. JudgedOn(n) = binding /\ state[n] # "READY"
      BY <1>3, <1>6 DEF JudgedOn
    <3> QED
      BY <3>1 DEF Judged
  <2>6. Bindings' = [Bindings EXCEPT !["project"] = Append(@, ChangeOf[n])]
    BY <1>1, <1>4, <1>6 DEF Bindings
  <2>7. Undos' = [Undos EXCEPT !["project"] = n]
    BY <2>2 DEF Undos
  <2>8. Bindings["project"] = binding /\ [m \in Node |-> "project"][n] = "project"
    BY DEF Bindings
  <2>9. Line!Promote(n)
    BY <2>3, <2>4, <2>5, <2>6, <2>7, <2>8
    DEF Line!Promote, Bindings, Judged, JudgedOn, Integrated, Undos
  <2> QED
    BY <2>9
<1> QED
  BY <1>4, <1>5, <1>6

\* And the step that moves it back takes the last promotion off the line.
LEMMA ReturnBindingLine ==
  ASSUME CoordinatorInvariant, NEW c \in Caller, NEW n \in Node, ReturnBinding(c, n)
  PROVE  Line!TakeBack("project") \/ UNCHANGED Line!vars
<1>1. UNCHANGED database /\ binding' = To(n)
  BY DEF ReturnBinding
<1>2. n \in PendingRollbacks /\ accepted = To(n)
  BY ReturnBindingStep
<1>3. PendingRollbacks = {n} /\ PendingPromotions = {}
  BY <1>2, PendingUndone
<1>4. /\ From(n) = Candidate(n) /\ To(n) = Base(n) /\ From(n) # To(n)
      /\ head.attempt = n /\ head.sha = Candidate(n)
      /\ SubSeq(Candidate(n), 1, Len(Candidate(n)) - 1) = Base(n)
  <2>1. UndoFits(n) /\ From(n) = Candidate(n) /\ To(n) = Base(n) /\ From(n) # To(n) /\ TypeOK
    BY <1>2, RollbackPlaces
  <2>2. attempt[n] # NoAttempt
    BY <2>1, Attempts DEF UndoFits
  <2> QED
    BY <1>2, <2>1, <2>2, Candidates DEF UndoFits
<1>5. binding \in {From(n), To(n)}
  BY <1>2, RollbackPlaces DEF RollbackFits, Reached, From, To
<1>6. CASE binding = To(n)
  BY <1>1, <1>6, LineStays DEF CoordinatorInvariant
<1>7. CASE binding = From(n)
  <2>1. Moved = {} /\ Moved' = {} /\ Undone = {} /\ Undone' = {n}
    BY <1>1, <1>3, <1>4, <1>7, DatabaseKept DEF Moved, Undone
  <2>2. Undoable' = None
    BY <2>1, UndoAfter
  <2>3. Undoable = n /\ n # None
    BY <1>4, <2>1, UndoOfHead, PublicationAssumption
  <2>4. Integrated' = Integrated
    BY <1>1, <2>1, DatabaseKept DEF Integrated
  <2>5. Judged' = Judged
    BY <1>1, DatabaseKept DEF Judged, JudgedOn
  <2>6. Bindings' = [Bindings EXCEPT !["project"] = SubSeq(@, 1, Len(@) - 1)]
    BY <1>1, <1>4, <1>7 DEF Bindings
  <2>7. Undos' = [Undos EXCEPT !["project"] = None] /\ Undos["project"] # None
    BY <2>2, <2>3 DEF Undos
  <2>8. Line!TakeBack("project")
    BY <2>4, <2>5, <2>6, <2>7
    DEF Line!TakeBack, Bindings, Judged, JudgedOn, Integrated, Undos
  <2> QED
    BY <2>8
<1> QED
  BY <1>5, <1>6, <1>7

\* What a transaction records, workers have seen before, or will see later.
LEMMA PrepareAttemptLine ==
  ASSUME CoordinatorInvariant, NEW c \in Caller, NEW n \in Node, PrepareAttempt(c, n)
  PROVE  UNCHANGED Line!vars
<1>1. state' = state /\ journal' = journal /\ head' = head /\ binding' = binding
  BY DEF PrepareAttempt, physical
<1>2. CASE attempt[n] # NoAttempt
  <2>1. UNCHANGED database
    BY <1>1, <1>2 DEF PrepareAttempt, database
  <2> QED
    BY <1>1, <2>1, LineStays DEF CoordinatorInvariant
<1>3. CASE attempt[n] = NoAttempt
  <2>1. /\ Pending = {}
        /\ attempt' = [attempt EXCEPT ![n] = [status |-> "PREPARED", graph |-> AffectedGraph]]
    BY <1>3 DEF PrepareAttempt
  <2>2. /\ attempt'[n].status = "PREPARED" /\ attempt'[n].graph.head = head
        /\ \A m \in Node : m # n => attempt'[m] = attempt[m]
    BY <2>1, GraphNow DEF CoordinatorInvariant, TypeOK
  <2>3. \A m \in Node : m # n => Base(m)' = Base(m) /\ Candidate(m)' = Candidate(m)
    BY <2>2 DEF Base, Candidate
  <2>4. Candidate(n)' # binding
    <3>1. binding = head.sha /\ head.sha \in CommitOf /\ ChangeOf[n] \in Change
      BY <2>1, PublicationAssumption DEF CoordinatorInvariant, Places, HeadFits, TypeOK, HeadRow
    <3>2. Candidate(n)' = Append(head.sha, ChangeOf[n])
      BY <2>2 DEF Candidate, Base
    <3> QED
      BY <3>1, <3>2, Changed
  <2>5. PendingPromotions' = {n} /\ PendingRollbacks' = {}
    BY <1>1, <2>1, <2>2, JournalKept DEF Pending, PendingPromotions, PendingRollbacks
  <2>6. Moved = {} /\ Undone = {} /\ Moved' = {} /\ Undone' = {}
    BY <1>1, <2>1, <2>4, <2>5, NothingMoved DEF Moved, Undone
  <2>7. attempt[n].status # "COMPLETED" /\ state[n] # "INTEGRATED"
    BY <1>3, Attempts DEF CoordinatorInvariant, Story, NodeFits
  <2>8. Undoable' = Undoable
    <3>1. head.attempt # None => Candidate(head.attempt)' = Candidate(head.attempt)
      BY <1>1, <2>3, <2>7, HeadCompleted DEF CoordinatorInvariant
    <3> QED
      BY <1>1, <2>6, <3>1, UndoAfter, UndoOfHead
  <2>9. \A m \in Node : JudgedOn(m)' = JudgedOn(m)
    BY <1>1, <2>3, <2>7 DEF JudgedOn
  <2>10. Integrated' = Integrated
    BY <1>1, <2>6 DEF Integrated
  <2> QED
    BY <1>1, <2>8, <2>9, <2>10, LineKept
<1> QED
  BY <1>2, <1>3

LEMMA MarkBoundLine ==
  ASSUME CoordinatorInvariant, NEW c \in Caller, NEW n \in Node, MarkBound(c, n)
  PROVE  UNCHANGED Line!vars
<1>1. /\ state' = state /\ journal' = journal /\ head' = head /\ binding' = binding
      /\ attempt' = [attempt EXCEPT ![n].status = "BINDING_UPDATED"]
  BY DEF MarkBound, physical
<1>2. n \in PendingPromotions
  BY MarkBoundStep
<1>3. attempt[n] \in AttemptRow
  BY <1>2, PromotionPlaces, Attempts
<1>4. /\ attempt'[n] = [attempt[n] EXCEPT !.status = "BINDING_UPDATED"]
      /\ \A m \in Node : m # n => attempt'[m] = attempt[m]
  BY <1>1 DEF CoordinatorInvariant, TypeOK
<1>5. attempt'[n].status = "BINDING_UPDATED" /\ attempt'[n].graph = attempt[n].graph
  BY <1>3, <1>4 DEF AttemptRow
<1>6. \A m \in Node : Base(m)' = Base(m) /\ Candidate(m)' = Candidate(m)
  BY <1>4, <1>5 DEF Base, Candidate
<1>7. PendingPromotions' = PendingPromotions /\ PendingRollbacks' = PendingRollbacks
  BY <1>1, <1>2, <1>4, <1>5, JournalKept DEF PendingPromotions, PendingRollbacks
<1>8. \A m \in Node : To(m)' = To(m)
  BY <1>1, JournalKept DEF To
<1>9. Moved' = Moved /\ Undone' = Undone
  BY <1>1, <1>6, <1>7, <1>8 DEF Moved, Undone, PendingPromotions, PendingRollbacks
<1>10. Undoable' = Undoable
  <2>1. head.attempt # None => Candidate(head.attempt)' = Candidate(head.attempt)
    BY <1>1, <1>6 DEF CoordinatorInvariant, TypeOK, HeadRow
  <2> QED
    BY <1>1, <1>9, <2>1 DEF Undoable
<1>11. \A m \in Node : JudgedOn(m)' = JudgedOn(m)
  BY <1>1, <1>6 DEF JudgedOn
<1>12. Integrated' = Integrated
  BY <1>1, <1>9 DEF Integrated
<1> QED
  BY <1>1, <1>10, <1>11, <1>12, LineKept

\* No other node has passed when a publication completes, so nothing that was judged
\* on the old head is left.
LEMMA FinalizePromotionLine ==
  ASSUME CoordinatorInvariant, NEW c \in Caller, NEW n \in Node, FinalizePromotion(c, n)
  PROVE  UNCHANGED Line!vars
<1>1. /\ state' = [state EXCEPT ![n] = "INTEGRATED"]
      /\ attempt' = [attempt EXCEPT ![n].status = "COMPLETED"]
      /\ head' = [version |-> head.version + 1, sha |-> Candidate(n), attempt |-> n]
      /\ binding' = binding /\ Quiescent({n})
  BY DEF FinalizePromotion, PromotionReady, physical
<1>2. n \in PendingPromotions /\ binding = Candidate(n) /\ Pending' = {}
  BY FinalizePromotionStep
<1>3. /\ state[n] = "PASSED" /\ Base(n) = head.sha
      /\ PendingPromotions = {n} /\ PendingRollbacks = {}
  BY <1>2, PendingPassed
<1>4. attempt[n] \in AttemptRow
  BY <1>2, PromotionPlaces, Attempts
<1>5. /\ attempt'[n] = [attempt[n] EXCEPT !.status = "COMPLETED"]
      /\ \A m \in Node : m # n => attempt'[m] = attempt[m]
      /\ state'[n] = "INTEGRATED" /\ \A m \in Node : m # n => state'[m] = state[m]
  BY <1>1 DEF CoordinatorInvariant, TypeOK
<1>6. attempt'[n].graph = attempt[n].graph
  BY <1>4, <1>5 DEF AttemptRow
<1>7. \A m \in Node : Base(m)' = Base(m) /\ Candidate(m)' = Candidate(m)
  BY <1>5, <1>6 DEF Base, Candidate
<1>8. \A m \in Node : m # n => state[m] # "PASSED"
  BY <1>1 DEF Quiescent, OnHead
<1>9. Moved = {n} /\ Moved' = {} /\ Undone' = {}
  BY <1>2, <1>3 DEF Moved, Undone, Pending
<1>10. Undoable' = Undoable
  <2>1. head'.attempt = n /\ head'.sha = Candidate(n) /\ n # None
    BY <1>1, PublicationAssumption
  <2>2. Candidate(head.attempt)' = Candidate(n)'
    BY <2>1 DEF Candidate, Base
  <2>3. Undoable = n
    BY <1>9, UndoOfMoved
  <2> QED
    BY <1>7, <1>9, <2>1, <2>2, <2>3, UndoAfter
<1>11. ASSUME NEW m \in Node, state[m] # "READY"
       PROVE  JudgedOn(m)' = JudgedOn(m)
  <2>1. CASE m = n
    BY <1>3, <1>5, <1>7, <2>1 DEF JudgedOn
  <2>2. CASE m # n
    <3>1. state[m] = "INTEGRATED" /\ state'[m] = "INTEGRATED"
      BY <1>5, <1>8, <1>11, <2>2 DEF CoordinatorInvariant, TypeOK
    <3> QED
      BY <1>7, <3>1 DEF JudgedOn
  <2> QED
    BY <2>1, <2>2
<1>12. Integrated' = Integrated
  BY <1>5, <1>9 DEF Integrated
<1>13. \A m \in Node : state'[m] # "READY" <=> state[m] # "READY"
  BY <1>3, <1>5
<1> QED
  BY <1>1, <1>10, <1>11, <1>12, <1>13, LineKept

LEMMA PrepareRollbackLine ==
  ASSUME CoordinatorInvariant, NEW c \in Caller, NEW n \in Node, PrepareRollback(c, n)
  PROVE  UNCHANGED Line!vars
<1> DEFINE e == Entry("ROLLBACK", n, "PREPARED", Base(n), AffectedGraph)
<1>1. /\ Pending = {} /\ Rollback(n) = {} /\ attempt[n].status = "COMPLETED"
      /\ head.sha = Candidate(n)
      /\ journal' = Append(journal, e)
      /\ state' = state /\ attempt' = attempt /\ head' = head /\ binding' = binding
  BY DEF PrepareRollback, physical
<1>2. /\ attempt[n] # NoAttempt /\ Base(n) \in CommitOf /\ Candidate(n) # Base(n)
  BY <1>1, Attempts, Candidates DEF CoordinatorInvariant
<1>3. /\ e \in JournalRow /\ e.kind = "ROLLBACK" /\ e.node = n /\ e.phase = "PREPARED"
      /\ e.to = Base(n)
  BY <1>2, GraphNow DEF Entry, JournalRow, CoordinatorInvariant
<1>4. journal \in Seq(JournalRow) /\ \A m \in Node : InPhases(m)
  BY DEF CoordinatorInvariant, TypeOK, Story
<1> HIDE DEF e
<1>5. To(n)' = Base(n)
  BY <1>1, <1>3, <1>4, PreparedRow DEF To
<1>6. \A m \in Node : m # n =>
        /\ Rollback(m)' = Rollback(m)
        /\ Rollback(m) # {} => Phase(m)' = Phase(m)
  BY <1>1, <1>3, <1>4, OtherRow
<1>7. PendingPromotions' = {} /\ PendingRollbacks' \subseteq {n}
  BY <1>1, <1>6 DEF Pending, PendingPromotions, PendingRollbacks
<1>8. binding = head.sha
  BY <1>1 DEF CoordinatorInvariant, Places, HeadFits
<1>9. Moved = {} /\ Undone = {} /\ Moved' = {} /\ Undone' = {}
  BY <1>1, <1>2, <1>5, <1>7, <1>8, NothingMoved DEF Moved, Undone
<1>10. Undoable' = Undoable
  <2>1. Candidate(head.attempt)' = Candidate(head.attempt)
    BY <1>1 DEF Candidate, Base
  <2> QED
    BY <1>1, <1>9, <2>1, UndoAfter, UndoOfHead
<1>11. \A m \in Node : JudgedOn(m)' = JudgedOn(m)
  BY <1>1 DEF JudgedOn, Base
<1>12. Integrated' = Integrated
  BY <1>1, <1>9 DEF Integrated
<1> QED
  BY <1>1, <1>10, <1>11, <1>12, LineKept

LEMMA MarkPublishedLine ==
  ASSUME CoordinatorInvariant, NEW c \in Caller, NEW n \in Node, MarkPublished(c, n)
  PROVE  UNCHANGED Line!vars
<1>1. state' = state /\ attempt' = attempt /\ head' = head /\ binding' = binding
  BY DEF MarkPublished, physical
<1>2. n \in PendingRollbacks
  BY MarkPublishedStep
<1>3. /\ PendingRollbacks' = PendingRollbacks /\ PendingPromotions' = PendingPromotions
      /\ \A m \in Node : Rollback(m) # {} => Prepared(m)' = Prepared(m)
  BY <1>2, MarkPublishedStory DEF CoordinatorInvariant
<1>4. \A m \in PendingRollbacks : To(m)' = To(m)
  BY <1>3 DEF To, PendingRollbacks
<1>5. \A m \in Node : Base(m)' = Base(m) /\ Candidate(m)' = Candidate(m)
  BY <1>1 DEF Base, Candidate
<1>6. Moved' = Moved /\ Undone' = Undone
  BY <1>1, <1>3, <1>4, <1>5 DEF Moved, Undone, PendingPromotions
<1>7. Undoable' = Undoable
  <2>1. Candidate(head.attempt)' = Candidate(head.attempt)
    BY <1>1 DEF Candidate, Base
  <2> QED
    BY <1>1, <1>6, <2>1 DEF Undoable
<1>8. \A m \in Node : JudgedOn(m)' = JudgedOn(m)
  BY <1>1, <1>5 DEF JudgedOn
<1>9. Integrated' = Integrated
  BY <1>1, <1>6 DEF Integrated
<1> QED
  BY <1>1, <1>7, <1>8, <1>9, LineKept

LEMMA CompleteRollbackLine ==
  ASSUME CoordinatorInvariant, NEW c \in Caller, NEW n \in Node, CompleteRollback(c, n)
  PROVE  UNCHANGED Line!vars
<1>1. /\ state' = state /\ attempt' = attempt /\ binding' = binding /\ Quiescent({})
      /\ head' = [version |-> head.version + 1, sha |-> To(n), attempt |-> n]
  BY DEF CompleteRollback, RollbackReady, physical
<1>2. n \in PendingRollbacks /\ binding = To(n) /\ Pending' = {}
  BY CompleteRollbackStep
<1>3. PendingRollbacks = {n} /\ PendingPromotions = {}
  BY <1>2, PendingUndone
<1>4. To(n) # Candidate(n)
  BY <1>2, RollbackPlaces
<1>5. \A m \in Node : state[m] # "PASSED"
  BY <1>1 DEF Quiescent, OnHead
<1>6. Moved = {} /\ Undone = {n} /\ Moved' = {} /\ Undone' = {}
  BY <1>2, <1>3 DEF Moved, Undone, Pending
<1>7. Undoable' = Undoable
  <2>1. head'.attempt = n /\ head'.sha = To(n)
    BY <1>1
  <2>2. Candidate(head.attempt)' = Candidate(n)
    BY <1>1, <2>1 DEF Candidate, Base
  <2>3. Undoable = None
    BY <1>6, UndoOfNone
  <2> QED
    BY <1>4, <1>6, <2>1, <2>2, <2>3, UndoAfter
<1>8. \A m \in Node : state[m] # "READY" => JudgedOn(m)' = JudgedOn(m)
  BY <1>1, <1>5 DEF JudgedOn, Base, CoordinatorInvariant, TypeOK
<1>9. Integrated' = Integrated
  BY <1>1, <1>6 DEF Integrated
<1> QED
  BY <1>1, <1>7, <1>8, <1>9, LineKept

\* The steps of a call that touch neither the database nor the binding.
LEMMA QuietLine ==
  ASSUME CoordinatorInvariant, NEW c \in Caller, NEW n \in Node,
         Promotion(c, n) \/ Undoing(c, n), ~PrepareAttempt(c, n), ~AdvanceBinding(c, n),
         ~MarkBound(c, n), ~FinalizePromotion(c, n), ~PrepareRollback(c, n),
         ~ReturnBinding(c, n), ~MarkPublished(c, n), ~CompleteRollback(c, n)
  PROVE  UNCHANGED Line!vars
<1>1. CASE \/ Admit(c, n) \/ Reconcile(c, n, "retrying") \/ Reconcile(c, n, "idle")
           \/ Retry(c, n) \/ RecoverNothing(c, n) \/ ReconcileRollback(c, n)
  <2>1. UNCHANGED <<database, physical>>
    BY <1>1 DEF Admit, Reconcile, Retry, RecoverNothing, ReconcileRollback
  <2> QED
    BY <2>1, LineStays DEF physical, CoordinatorInvariant
<1>2. CASE \/ RecoverPromotion(c, n) \/ BeginPromotion(c, n) \/ EnsureCandidate(c, n)
           \/ BeginRollback(c, n)
  <2>1. UNCHANGED database /\ binding' = binding
    BY <1>2 DEF RecoverPromotion, BeginPromotion, EnsureCandidate, BeginRollback
  <2> QED
    BY <2>1, LineStays DEF CoordinatorInvariant
<1>3. CASE \/ CreateAccepted(c, n) \/ SaveRollbackRef(c, n) \/ AdvanceAccepted(c, n)
           \/ ReturnAccepted(c, n)
  <2>1. UNCHANGED database /\ binding' = binding
    BY <1>3 DEF CreateAccepted, SaveRollbackRef, AdvanceAccepted, ReturnAccepted
  <2> QED
    BY <2>1, LineStays DEF CoordinatorInvariant
<1> QED
  BY <1>1, <1>2, <1>3 DEF Promotion, Undoing

LEMMA LineSteps ==
  ASSUME CoordinatorInvariant, [Next]_vars
  PROVE  [Line!Next]_(Line!vars)
<1>1. ASSUME NEW n \in Node, Judge(n)
      PROVE  Line!Next
  BY <1>1, JudgeLine DEF Line!Next
<1>2. ASSUME NEW c \in Caller, NEW n \in Node, Promotion(c, n) \/ Undoing(c, n)
      PROVE  [Line!Next]_(Line!vars)
  <2>1. CASE AdvanceBinding(c, n)
    BY <2>1, AdvanceBindingLine DEF Line!Next
  <2>2. CASE ReturnBinding(c, n)
    BY <2>2, ReturnBindingLine DEF Line!Next
  <2>3. CASE ~AdvanceBinding(c, n) /\ ~ReturnBinding(c, n)
    BY <1>2, <2>3, PrepareAttemptLine, MarkBoundLine, FinalizePromotionLine,
       PrepareRollbackLine, MarkPublishedLine, CompleteRollbackLine, QuietLine
  <2> QED
    BY <2>1, <2>2, <2>3
<1>3. CASE (\E c \in Caller : Abort(c)) \/ EnsureBound \/ UNCHANGED vars
  <2>1. UNCHANGED database /\ binding' = binding
    BY <1>3 DEF Abort, EnsureBound, vars, database, physical
  <2> QED
    BY <2>1, LineStays DEF CoordinatorInvariant
<1> QED
  BY <1>1, <1>2, <1>3 DEF Next

\* With all its refs, journals, retries and cut-off calls, the publication changes
\* what workers see (the binding) by whole steps of the accepted line: a node that
\* was judged on what they saw is added, once, or the last one added is taken back,
\* once.
THEOREM BindingFollowsLine == Spec => BindingLine
<1>1. Init => Line!Init
  <2> SUFFICES ASSUME Init
               PROVE  Line!Init
    OBVIOUS
  <2>1. CoordinatorInvariant
    BY InitFits
  <2>2. /\ binding = <<>> /\ head.attempt = None
        /\ \A n \in Node : state[n] = "READY" /\ attempt[n] = NoAttempt
        /\ journal = <<>>
    BY DEF Init, NoHead, Baseline
  <2>3. Pending = {}
    BY <2>2 DEF Pending, PendingPromotions, PendingRollbacks, Rollback, NoAttempt
  <2>4. Moved = {} /\ Undoable = None
    BY <2>2, <2>3, NothingMoved, UndoOfHead
  <2> QED
    BY <2>2, <2>4 DEF Line!Init
<1>2. CoordinatorInvariant /\ [Next]_vars => [Line!Next]_(Line!vars)
  BY LineSteps
<1> QED
  BY <1>1, <1>2, AlwaysInvariant, PTL DEF Spec, BindingLine, Line!Spec
=============================================================================
