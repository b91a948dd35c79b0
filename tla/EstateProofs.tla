------------------------------ MODULE EstateProofs ------------------------------
(***************************************************************************)
(* Theorems about AssetFusion, for every set of observations, every site   *)
(* registry and every order of the pairs, and about the passes of Estate,  *)
(* for every scene and every order of what may come between.               *)
(***************************************************************************)
EXTENDS Estate, FiniteSetTheorems, WellFoundedInduction, TLAPS

\* The observations are a sequence, whatever the adapters return.
LEMMA ObservationsAreASequence ==
    ASSUME NEW results \in Results
    PROVE  /\ Len(Observations(results)) \in Nat
           /\ DOMAIN Observations(results) = 1..Len(Observations(results))
<1> DEFINE chosen == {r \in results : Authoritative(results, r)}
           n == Cardinality(chosen)
<1>1. IsFiniteSet(chosen)
    BY ResultsAssumption, FS_Subset
<1>2. n \in Nat
    BY <1>1, FS_CardinalityType
<1>3. DOMAIN Observations(results) = 1..n
    BY DEF Observations
<1>4. Observations(results) \in [1..n -> {Observations(results)[i] : i \in 1..n}]
    BY <1>3 DEF Observations
<1>5. Len(Observations(results)) = n
    BY <1>2, <1>4
<1> QED BY <1>2, <1>3, <1>5

\* Every key comes once, so that the places of the records are a permutation.
LEMMA BeforeIsAnOrder ==
    /\ \A r \in Records : ~Before(r, r)
    /\ \A r, s \in Records : Before(r, s) \/ Before(s, r) \/ (r.source = s.source /\ r.id = s.id)
    /\ \A r, s, t \in Records : Before(r, s) /\ Before(s, t) => Before(r, t)
<1>1. \A c \in Sources : SourceRank(c) \in 1..5 /\ Order[SourceRank(c)] = c
    BY DEF Sources, Vendors, SourceRank, Order
<1>2. \A r \in Records : r.source \in Sources /\ r.id \in Nat
    BY DEF Records
<1>3. \A r \in Records : SourceRank(r.source) \in Nat
    BY <1>1, <1>2
<1>4. \A r, s \in Records : SourceRank(r.source) = SourceRank(s.source) => r.source = s.source
    BY <1>1, <1>2
<1> QED BY <1>2, <1>3, <1>4 DEF Before

LEMMA ObservationsAreChosen ==
    ASSUME NEW results \in Results, NEW i \in DOMAIN Observations(results)
    PROVE  Observations(results)[i] \in results
<1> DEFINE chosen == {r \in results : Authoritative(results, r)}
           n == Cardinality(chosen)
           Place(r) == Cardinality({s \in chosen : Before(s, r)})
           f == [r \in chosen |-> Place(r)]
<1>1. IsFiniteSet(chosen) /\ chosen \subseteq Records
    BY ResultsAssumption, FS_Subset
<1>2. n \in Nat
    BY <1>1, FS_CardinalityType
<1>3. ASSUME NEW r \in chosen, NEW s \in chosen, r.source = s.source, r.id = s.id
      PROVE  r = s
    BY <1>3, ResultsAssumption, KeysAssumption DEF Authoritative, Key, Records
<1>4. ASSUME NEW r \in chosen
      PROVE  /\ IsFiniteSet({s \in chosen : Before(s, r)})
             /\ Place(r) \in 0..(n - 1)
    <2> DEFINE S == {s \in chosen : Before(s, r)}
    <2>1. S \in SUBSET chosen /\ r \notin S
        BY <1>1, BeforeIsAnOrder
    <2>2. IsFiniteSet(S) /\ Cardinality(S) <= n /\ Cardinality(S) # n
        BY <1>1, <2>1, FS_Subset
    <2>3. Cardinality(S) \in Nat
        BY <2>2, FS_CardinalityType
    <2> QED BY <1>2, <2>2, <2>3
<1>5. ASSUME NEW r \in chosen, NEW s \in chosen, Before(r, s)
      PROVE  Place(r) # Place(s)
    <2> DEFINE R == {t \in chosen : Before(t, r)}
               S == {t \in chosen : Before(t, s)}
    <2>1. R \in SUBSET S
        BY <1>1, <1>5, BeforeIsAnOrder
    <2>2. r \in S /\ r \notin R
        BY <1>1, <1>5, BeforeIsAnOrder
    <2>3. IsFiniteSet(S)
        BY <1>4
    <2>4. Cardinality(S) # Cardinality(R)
        BY <2>1, <2>2, <2>3, FS_Subset
    <2> QED BY <2>4
<1>6. \A r, s \in chosen : Place(r) = Place(s) => r = s
    BY <1>1, <1>3, <1>5, BeforeIsAnOrder
<1> HIDE DEF Place
<1>7. f \in Injection(chosen, 0..(n - 1))
    BY <1>4, <1>6 DEF Injection, IsInjective
<1>8. IsFiniteSet(0..(n - 1)) /\ Cardinality(0..(n - 1)) = n
    BY <1>2, FS_Interval
<1>9. f \in Surjection(chosen, 0..(n - 1))
    BY <1>7, <1>8, FS_Injection
<1>10. DOMAIN Observations(results) = 1..n
    BY DEF Observations
<1>11. i - 1 \in 0..(n - 1)
    BY <1>2, <1>10
<1>12. \E r \in chosen : Place(r) = i - 1
    BY <1>9, <1>11 DEF Surjection
<1>13. Observations(results)[i] = CHOOSE r \in chosen : Place(r) = i - 1
    BY <1>10 DEF Observations, Place
<1> QED BY <1>12, <1>13

-----------------------------------------------------------------------------
\* The labels are a function on the records, and the pairs are taken in order.
Numbered == Len(records) \in Nat /\ DOMAIN records = 1..Len(records)
Labelled == root = [i \in DOMAIN records |-> root[i]]

InOrder ==
    /\ at = <<at[1], at[2]>>
    /\ at[1] \in Nat \ {0} /\ at[2] \in Nat /\ at[1] < at[2]
    /\ at \in Pairs \/ at[2] = at[1] + 1

Shape == Numbered /\ Labelled /\ InOrder

\* A cluster of the label n, whether or not there is one.
Coherent(n) ==
    /\ \A x, y \in Serials(n) : x = y
    /\ \A i, j \in Members(n) : Compatible(records[i].kind, records[j].kind)

\* The pairs that have been compared.
Done(p) == p[1] < at[1] \/ (p[1] = at[1] /\ p[2] < at[2])
Settled(p) == Related(records[p[1]], records[p[2]]) => root[p[1]] = root[p[2]] \/ p \in low

Coherence == \A n : Coherent(n)
Reported == \A p \in Pairs : Done(p) => Settled(p)

FusionInv == Shape /\ Coherence /\ Reported

-----------------------------------------------------------------------------
\* Every record is its own cluster before the first pair.
LEMMA InitEstablishes == FusionInit => FusionInv
<1> SUFFICES ASSUME FusionInit PROVE FusionInv
    OBVIOUS
<1>1. Numbered
    BY ObservationsAreASequence DEF FusionInit, Numbered
<1>2. Labelled
    BY DEF FusionInit, Labelled
<1>3. InOrder
    BY DEF FusionInit, InOrder
<1>4. Coherence
    BY DEF FusionInit, Coherence, Coherent, Serials, Members, Compatible
<1>5. Reported
    BY <1>1 DEF FusionInit, Reported, Done, Pairs, Numbered
<1> QED BY <1>1, <1>2, <1>3, <1>4, <1>5 DEF FusionInv, Shape

\* The next pair is the least one that has not been compared.
LEMMA FollowingIsNext ==
    ASSUME Shape, at \in Pairs, at' = Following(at), UNCHANGED records
    PROVE  /\ InOrder'
           /\ \A p \in Pairs : Done(p)' => Done(p) \/ p = at
<1> DEFINE n == Len(records)
<1>1. n \in Nat /\ DOMAIN records = 1..n
    BY DEF Shape, Numbered
<1>2. PICK i \in 1..n, j \in 1..n : at = <<i, j>> /\ i < j
    BY <1>1 DEF Pairs
<1>3. \A p \in Pairs : p = <<p[1], p[2]>> /\ p[1] \in 1..n /\ p[2] \in 1..n /\ p[1] < p[2]
    BY <1>1 DEF Pairs
<1>4. ASSUME j < n
      PROVE  InOrder' /\ (\A p \in Pairs : Done(p)' => Done(p) \/ p = at)
    <2>1. at' = <<i, j + 1>>
        BY <1>2, <1>4 DEF Following
    <2>2. at' \in Pairs
        BY <1>1, <1>2, <1>4, <2>1 DEF Pairs
    <2>3. InOrder'
        BY <1>1, <1>2, <2>1, <2>2 DEF InOrder, Pairs
    <2> QED BY <1>1, <1>2, <1>3, <2>1, <2>3 DEF Done
<1>5. ASSUME j = n
      PROVE  InOrder' /\ (\A p \in Pairs : Done(p)' => Done(p) \/ p = at)
    <2>1. at' = <<i + 1, i + 2>>
        BY <1>2, <1>5 DEF Following
    <2>2. InOrder'
        BY <1>1, <1>2, <2>1 DEF InOrder
    <2> QED BY <1>1, <1>2, <1>3, <1>5, <2>1, <2>2 DEF Done
<1>6. j < n \/ j = n
    <2> HIDE DEF n
    <2> QED BY <1>1
<1>7. InOrder'
    BY <1>4, <1>5, <1>6
<1>8. \A p \in Pairs : Done(p)' => Done(p) \/ p = at
    BY <1>4, <1>5, <1>6
<1> QED BY <1>7, <1>8

\* Joining two labels keeps together what was together.
LEMMA UnitedKeeps ==
    ASSUME Labelled, NEW m, NEW n
    PROVE  /\ DOMAIN United(m, n) = DOMAIN records
           /\ \A i, j \in DOMAIN records : root[i] = root[j] => United(m, n)[i] = United(m, n)[j]
BY DEF Labelled, United

\* A union that is not refused leaves every cluster coherent.
LEMMA UnionIsCoherent ==
    ASSUME Labelled, Coherence, NEW m, NEW n, m = n \/ Unitable(m, n),
           root' = United(m, n), UNCHANGED records
    PROVE  Coherence'
<1> SUFFICES ASSUME NEW k PROVE Coherent(k)'
    BY DEF Coherence
<1> DEFINE joined == Members(m) \cup Members(n)
<1>1. Smaller(m, n) \in {m, n}
    BY DEF Smaller
<1>2. \/ Members(k)' \subseteq joined
      \/ Members(k)' \subseteq Members(k)
    BY <1>1 DEF Members, United, Labelled
<1>3. CASE Members(k)' \subseteq Members(k)
    <2>1. Serials(k)' \subseteq Serials(k)
        BY <1>3 DEF Serials
    <2> QED BY <1>3, <2>1 DEF Coherence, Coherent
<1>4. CASE Members(k)' \subseteq joined
    <2>1. Serials(k)' \subseteq Serials(m) \cup Serials(n)
        BY <1>4 DEF Serials
    <2>2. \A x, y \in Serials(m) \cup Serials(n) : x = y
        BY DEF Coherence, Coherent, Unitable
    <2>3. \A i, j \in joined : Compatible(records[i].kind, records[j].kind)
        BY DEF Coherence, Coherent, Unitable, Compatible
    <2> QED BY <1>4, <2>1, <2>2, <2>3 DEF Coherent
<1> QED BY <1>2, <1>3, <1>4

\* A step that keeps records and labels keeps the clusters coherent.
LEMMA SameIsCoherent ==
    ASSUME Coherence, UNCHANGED <<records, root>>
    PROVE  Coherence'
<1>1. \A n : Members(n)' = Members(n)
    BY DEF Members
<1>2. \A n : Serials(n)' = Serials(n)
    BY <1>1 DEF Serials
<1> QED BY <1>1, <1>2 DEF Coherence, Coherent

\* FusionInv is inductive.
LEMMA StepPreserves == FusionInv /\ [FusionNext]_fusionVars => FusionInv'
<1> SUFFICES ASSUME FusionInv, [FusionNext]_fusionVars PROVE FusionInv'
    OBVIOUS
<1>1. CASE UNCHANGED fusionVars
    <2>1. UNCHANGED <<records, root, at, low>>
        BY <1>1 DEF fusionVars
    <2>2. Shape' /\ Reported'
        BY <2>1 DEF FusionInv, Shape, Numbered, Labelled, InOrder, Pairs, Reported, Done, Settled
    <2> QED BY <2>1, <2>2, SameIsCoherent DEF FusionInv
<1>2. CASE Compare
    <2> DEFINE i == at[1]
               j == at[2]
    <2>1. at \in Pairs /\ at' = Following(at) /\ UNCHANGED records
        BY <1>2 DEF Compare
    <2>2. /\ InOrder'
          /\ \A p \in Pairs : Done(p)' => Done(p) \/ p = at
        BY <2>1, FollowingIsNext DEF FusionInv
    <2>3. i \in DOMAIN records /\ j \in DOMAIN records /\ at = <<i, j>>
        BY <2>1 DEF Pairs
    <2>4. Pairs' = Pairs /\ Numbered'
        BY <2>1 DEF Pairs, FusionInv, Shape, Numbered
    <2>5. CASE /\ Matches(records[i], records[j])
               /\ root[i] = root[j] \/ Unitable(root[i], root[j])
               /\ root' = United(root[i], root[j])
               /\ UNCHANGED low
        <3>1. Labelled'
            BY <2>1, <2>5 DEF FusionInv, Shape, Labelled, United
        <3>2. Coherence'
            BY <2>1, <2>5, UnionIsCoherent DEF FusionInv, Shape
        <3>3. root'[i] = root'[j]
            BY <2>3, <2>5 DEF United, FusionInv, Shape, Labelled
        <3>4. \A p \in Pairs : Settled(p) => Settled(p)'
            BY <2>1, <2>5, UnitedKeeps DEF Settled, Pairs, FusionInv, Shape
        <3>5. Reported'
            BY <2>1, <2>2, <2>3, <2>4, <3>3, <3>4 DEF Reported, Settled, FusionInv
        <3> QED BY <2>2, <2>4, <3>1, <3>2, <3>5 DEF FusionInv, Shape
    <2>6. CASE /\ UNCHANGED root /\ low \subseteq low'
               /\ Related(records[i], records[j]) => at \in low'
        <3>1. Labelled' /\ Coherence'
            BY <2>1, <2>6, SameIsCoherent DEF FusionInv, Shape, Labelled
        <3>2. Reported'
            BY <2>1, <2>2, <2>3, <2>4, <2>6 DEF Reported, Settled, FusionInv
        <3> QED BY <2>2, <2>4, <3>1, <3>2 DEF FusionInv, Shape
    <2>7. \/ /\ Matches(records[i], records[j])
             /\ root[i] = root[j] \/ Unitable(root[i], root[j])
             /\ root' = United(root[i], root[j])
             /\ UNCHANGED low
          \/ /\ low' = low \cup {at}
             /\ UNCHANGED root
          \/ /\ ~Related(records[i], records[j])
             /\ UNCHANGED <<root, low>>
        BY <1>2 DEF Compare
    <2> QED BY <2>5, <2>6, <2>7
<1> QED BY <1>1, <1>2 DEF FusionNext

-----------------------------------------------------------------------------
\* The clusters of a labelling, as values.
MembersOf(recs, labels, n) == {i \in DOMAIN recs : labels[i] = n}
SerialsOf(recs, labels, n) == {recs[i].serial : i \in MembersOf(recs, labels, n)} \ {None}
UnitableOf(recs, labels, m, n) ==
    LET one == SerialsOf(recs, labels, m)
        other == SerialsOf(recs, labels, n)
    IN  /\ one = {} \/ other = {} \/ one = other
        /\ \A i \in MembersOf(recs, labels, m), j \in MembersOf(recs, labels, n) :
             Compatible(recs[i].kind, recs[j].kind)

LEMMA OfTheClusters ==
    \A m, n : /\ Members(n) = MembersOf(records, root, n)
              /\ Serials(n) = SerialsOf(records, root, n)
              /\ Unitable(m, n) <=> UnitableOf(records, root, m, n)
<1>1. \A n : Members(n) = MembersOf(records, root, n) /\ Serials(n) = SerialsOf(records, root, n)
    BY DEF Members, MembersOf, Serials, SerialsOf
<1> QED BY <1>1 DEF Unitable, UnitableOf

\* A pair that matches is together, or its clusters speak against it.
Refused ==
    \A p \in Pairs :
        Done(p) /\ Matches(records[p[1]], records[p[2]])
            => \/ root[p[1]] = root[p[2]]
               \/ ~UnitableOf(records, root, root[p[1]], root[p[2]])

\* Clusters only grow, and what has been refused is refused for ever.
LEMMA RefusedIsFinal ==
    ASSUME NEW recs, NEW one, NEW other, NEW i \in DOMAIN recs, NEW j \in DOMAIN recs,
           \A n : \A x, y \in SerialsOf(recs, other, n) : x = y,
           \A k, l \in DOMAIN recs : one[k] = one[l] => other[k] = other[l],
           ~UnitableOf(recs, one, one[i], one[j])
    PROVE  ~UnitableOf(recs, other, other[i], other[j])
<1>1. ASSUME NEW k \in DOMAIN recs
      PROVE  /\ MembersOf(recs, one, one[k]) \subseteq MembersOf(recs, other, other[k])
             /\ SerialsOf(recs, one, one[k]) \subseteq SerialsOf(recs, other, other[k])
    <2>1. MembersOf(recs, one, one[k]) \subseteq MembersOf(recs, other, other[k])
        BY DEF MembersOf
    <2> QED BY <2>1 DEF SerialsOf
<1>2. ASSUME NEW k \in DOMAIN recs, SerialsOf(recs, one, one[k]) # {}
      PROVE  SerialsOf(recs, other, other[k]) = SerialsOf(recs, one, one[k])
    BY <1>1, <1>2
<1>3. CASE /\ SerialsOf(recs, one, one[i]) # {} /\ SerialsOf(recs, one, one[j]) # {}
           /\ SerialsOf(recs, one, one[i]) # SerialsOf(recs, one, one[j])
    <2>1. /\ SerialsOf(recs, other, other[i]) = SerialsOf(recs, one, one[i])
          /\ SerialsOf(recs, other, other[j]) = SerialsOf(recs, one, one[j])
        BY <1>2, <1>3
    <2> QED BY <1>3, <2>1 DEF UnitableOf
<1>4. CASE \E k \in MembersOf(recs, one, one[i]), l \in MembersOf(recs, one, one[j]) :
               ~Compatible(recs[k].kind, recs[l].kind)
    BY <1>1, <1>4 DEF UnitableOf
<1> QED BY <1>3, <1>4 DEF UnitableOf

LEMMA StepRefuses == FusionInv /\ Refused /\ [FusionNext]_fusionVars => Refused'
<1> SUFFICES ASSUME FusionInv, Refused, [FusionNext]_fusionVars PROVE Refused'
    OBVIOUS
<1>1. \A n : \A x, y \in SerialsOf(records', root', n) : x = y
    BY StepPreserves DEF FusionInv, Coherence, Coherent, Serials, Members, SerialsOf, MembersOf
<1>2. CASE UNCHANGED fusionVars
    BY <1>2 DEF fusionVars, Refused, Pairs, Done
<1>3. CASE Compare
    <2> DEFINE i == at[1]
               j == at[2]
    <2>1. at \in Pairs /\ at' = Following(at) /\ UNCHANGED records
        BY <1>3 DEF Compare
    <2>2. \A p \in Pairs : Done(p)' => Done(p) \/ p = at
        BY <2>1, FollowingIsNext DEF FusionInv
    <2>3. i \in DOMAIN records /\ j \in DOMAIN records /\ Pairs' = Pairs
        BY <2>1 DEF Pairs
    <2>4. \A k, l \in DOMAIN records : root[k] = root[l] => root'[k] = root'[l]
        BY <1>3, UnitedKeeps DEF Compare, FusionInv, Shape
    <2>5. ASSUME NEW p \in Pairs, Done(p), Matches(records[p[1]], records[p[2]]),
                 root'[p[1]] # root'[p[2]]
          PROVE  ~UnitableOf(records, root', root'[p[1]], root'[p[2]])
        <3>1. p[1] \in DOMAIN records /\ p[2] \in DOMAIN records
            BY DEF Pairs
        <3>2. ~UnitableOf(records, root, root[p[1]], root[p[2]])
            BY <2>4, <2>5, <3>1 DEF Refused
        <3>3. \A n : \A x, y \in SerialsOf(records, root', n) : x = y
            BY <1>1, <2>1
        <3> QED BY <2>4, <3>1, <3>2, <3>3, RefusedIsFinal
    <2>6. ASSUME Matches(records[i], records[j]), root'[i] # root'[j]
          PROVE  ~UnitableOf(records, root', root'[i], root'[j])
        <3>1. root' # United(root[i], root[j])
            BY <2>3, <2>6 DEF United, FusionInv, Shape, Labelled
        <3>2. UNCHANGED root /\ ~Unitable(root[i], root[j])
            BY <1>3, <2>6, <3>1 DEF Compare, Matches
        <3> QED BY <3>2, OfTheClusters
    <2> QED BY <2>1, <2>2, <2>3, <2>5, <2>6 DEF Refused
<1> QED BY <1>2, <1>3 DEF FusionNext

-----------------------------------------------------------------------------
LEMMA ClustersAreDevices == FusionInv => OneDevicePerCluster
BY DEF FusionInv, Coherence, Coherent, OneDevicePerCluster

LEMMA AllAreDone ==
    ASSUME FusionInv, Fused
    PROVE  \A p \in Pairs : Done(p)
<1>1. at[2] = at[1] + 1 /\ at = <<at[1], at[2]>> /\ at[1] \in Nat \ {0}
    BY DEF FusionInv, Shape, InOrder, Fused
<1>2. at[2] > Len(records)
    BY <1>1 DEF FusionInv, Shape, Numbered, Fused, Pairs
<1> QED BY <1>1, <1>2 DEF FusionInv, Shape, Numbered, Pairs, Done

LEMMA DoubtIsKept == FusionInv => DoubtIsReported
BY AllAreDone DEF FusionInv, Reported, Settled, DoubtIsReported, Related

\* FusionEngine.fuse: whatever the sources return, no cluster ever holds two
\* serial numbers or two incompatible types, although matching is pairwise and
\* every union makes later ones possible.
THEOREM OneDevice == FusionSpec => []OneDevicePerCluster
BY ClustersAreDevices, InitEstablishes, StepPreserves, PTL DEF FusionSpec

\* FusionEngine.fuse: two records with evidence of identity are in one asset in
\* the end, or the pair is among the possible duplicates that the engine reports.
THEOREM NoDoubtIsDropped == FusionSpec => []DoubtIsReported
BY DoubtIsKept, InitEstablishes, StepPreserves, PTL DEF FusionSpec

LEMMA LeastNatural ==
    ASSUME NEW T \in SUBSET Nat, T # {}
    PROVE  \E x \in T : \A y \in T : x <= y
<1> DEFINE R == OpToRel(<, Nat)
<1>1. IsWellFoundedOn(R, Nat)
    BY NatLessThanWellFounded
<1>2. \A x, y \in Nat : y < x => <<y, x>> \in R
    BY DEF OpToRel
<1> HIDE DEF R
<1>3. PICK x \in T : \A y \in T : ~ (<<y, x>> \in R)
    BY <1>1, WFMin
<1>4. ASSUME NEW y \in T PROVE x <= y
    <2>1. ~(y < x)
        BY <1>2, <1>3
    <2> QED BY <2>1
<1> QED BY <1>4

-----------------------------------------------------------------------------
(* One set of observations has one result, whenever it is fused.           *)

\* What Compare does, as values: the beginning, and what follows from a comparison.
InSequence(recs) == Len(recs) \in Nat /\ DOMAIN recs = 1..Len(recs)
PairsOf(recs) == {p \in (DOMAIN recs) \X (DOMAIN recs) : p[1] < p[2]}
FollowingOf(recs, p) == IF p[2] < Len(recs) THEN <<p[1], p[2] + 1>> ELSE <<p[1] + 1, p[1] + 2>>
Joins(recs, x) ==
    /\ Matches(recs[x.at[1]], recs[x.at[2]])
    /\ \/ x.root[x.at[1]] = x.root[x.at[2]]
       \/ UnitableOf(recs, x.root, x.root[x.at[1]], x.root[x.at[2]])

Begun(recs) == [at |-> <<1, 2>>, root |-> [i \in DOMAIN recs |-> i], low |-> {}]
Advanced(recs, x) ==
    LET m == x.root[x.at[1]]
        n == x.root[x.at[2]]
    IN  [at |-> FollowingOf(recs, x.at),
         root |-> IF Joins(recs, x)
                  THEN [i \in DOMAIN recs |-> IF x.root[i] \in {m, n} THEN Smaller(m, n) ELSE x.root[i]]
                  ELSE x.root,
         low |-> IF Related(recs[x.at[1]], recs[x.at[2]]) /\ ~Joins(recs, x)
                 THEN x.low \cup {x.at} ELSE x.low]

\* The least set that holds the beginning and, with each point, what follows from it.
Points(recs) ==
    [at : Nat \X Nat, root : [DOMAIN recs -> DOMAIN recs], low : SUBSET (Nat \X Nat)]
Closed(recs, R) ==
    /\ Begun(recs) \in R
    /\ \A x \in R : x.at \in PairsOf(recs) => Advanced(recs, x) \in R
Passed(recs) == {x \in Points(recs) : \A R \in SUBSET Points(recs) : Closed(recs, R) => x \in R}

LEMMA PointsAreClosed ==
    ASSUME NEW recs, InSequence(recs)
    PROVE  Closed(recs, Points(recs))
<1>1. Begun(recs) \in Points(recs)
    BY DEF Begun, Points
<1>2. ASSUME NEW x \in Points(recs), x.at \in PairsOf(recs)
      PROVE  Advanced(recs, x) \in Points(recs)
    <2>1. PICK i, j \in 1..Len(recs) : x.at = <<i, j>>
        BY <1>2 DEF PairsOf, InSequence
    <2>2. x.at \in Nat \X Nat /\ x.root \in [DOMAIN recs -> DOMAIN recs]
          /\ x.low \in SUBSET (Nat \X Nat)
        BY DEF Points
    <2>3. FollowingOf(recs, x.at) \in Nat \X Nat
        BY <2>1 DEF FollowingOf, InSequence
    <2> DEFINE m == x.root[x.at[1]]
               n == x.root[x.at[2]]
    <2>4. m \in DOMAIN recs /\ n \in DOMAIN recs
        BY <2>1, <2>2 DEF InSequence
    <2>5. Smaller(m, n) \in DOMAIN recs
        BY <2>4 DEF Smaller
    <2>6. [k \in DOMAIN recs |-> IF x.root[k] \in {m, n} THEN Smaller(m, n) ELSE x.root[k]]
            \in [DOMAIN recs -> DOMAIN recs]
        BY <2>2, <2>5
    <2>7. x.low \cup {x.at} \in SUBSET (Nat \X Nat)
        BY <2>2
    <2> HIDE DEF m, n
    <2> QED BY <2>2, <2>3, <2>6, <2>7 DEF Advanced, Points, m, n
<1> QED BY <1>1, <1>2 DEF Closed

LEMMA PassedIsClosed ==
    ASSUME NEW recs, InSequence(recs)
    PROVE  Closed(recs, Passed(recs)) /\ Passed(recs) \subseteq Points(recs)
<1>1. Closed(recs, Points(recs))
    BY PointsAreClosed
<1>2. Begun(recs) \in Passed(recs)
    BY <1>1 DEF Closed, Passed
<1>3. ASSUME NEW x \in Passed(recs), x.at \in PairsOf(recs)
      PROVE  Advanced(recs, x) \in Passed(recs)
    <2>1. x \in Points(recs)
        BY DEF Passed
    <2>2. Advanced(recs, x) \in Points(recs)
        BY <1>1, <1>3, <2>1 DEF Closed
    <2>3. ASSUME NEW R \in SUBSET Points(recs), Closed(recs, R)
          PROVE  Advanced(recs, x) \in R
        <3>1. x \in R
            BY <2>3 DEF Passed
        <3> QED BY <1>3, <2>3, <3>1 DEF Closed
    <2> QED BY <2>2, <2>3 DEF Passed
<1>4. Passed(recs) \subseteq Points(recs)
    BY DEF Passed
<1> QED BY <1>2, <1>3, <1>4 DEF Closed

\* A closed set misses no point that is passed.
LEMMA PassedIsLeast ==
    ASSUME NEW recs, NEW R \in SUBSET Points(recs), Closed(recs, R)
    PROVE  Passed(recs) \subseteq R
BY DEF Passed

\* The pairs follow one another without meeting again.
LEMMA FollowingOnce ==
    ASSUME NEW recs, InSequence(recs), NEW p \in PairsOf(recs)
    PROVE  /\ FollowingOf(recs, p) # <<1, 2>>
           /\ \A q \in PairsOf(recs) : FollowingOf(recs, q) = FollowingOf(recs, p) => q = p
           /\ \/ FollowingOf(recs, p) \in PairsOf(recs)
              \/ FollowingOf(recs, p) = <<Len(recs), Len(recs) + 1>>
<1> DEFINE n == Len(recs)
<1>1. n \in Nat /\ DOMAIN recs = 1..n
    BY DEF InSequence
<1> HIDE DEF n
<1>2. \A q \in PairsOf(recs) : \E i, j \in 1..n : q = <<i, j>> /\ i < j
    BY <1>1 DEF PairsOf
<1>3. \A i, j \in 1..n : FollowingOf(recs, <<i, j>>) = IF j < n THEN <<i, j + 1>> ELSE <<i + 1, i + 2>>
    BY DEF FollowingOf, n
<1>4. PICK i, j \in 1..n : p = <<i, j>> /\ i < j
    BY <1>2
<1>5. FollowingOf(recs, p) = IF j < n THEN <<i, j + 1>> ELSE <<i + 1, i + 2>>
    BY <1>3, <1>4
<1>6. FollowingOf(recs, p) # <<1, 2>>
    BY <1>1, <1>4, <1>5
<1>7. ASSUME NEW q \in PairsOf(recs), FollowingOf(recs, q) = FollowingOf(recs, p)
      PROVE  q = p
    <2>1. PICK k, l \in 1..n : q = <<k, l>> /\ k < l
        BY <1>2
    <2>2. FollowingOf(recs, q) = IF l < n THEN <<k, l + 1>> ELSE <<k + 1, k + 2>>
        BY <1>3, <2>1
    <2>3. k = i /\ l = j
        BY <1>1, <1>4, <1>5, <1>7, <2>1, <2>2
    <2> QED BY <1>4, <2>1, <2>3
<1>8. FollowingOf(recs, p) \in PairsOf(recs) \/ FollowingOf(recs, p) = <<n, n + 1>>
    <2>1. CASE j < n
        <3>1. FollowingOf(recs, p) = <<i, j + 1>> /\ j + 1 \in 1..n /\ i < j + 1
            BY <1>1, <1>4, <1>5, <2>1
        <3> QED BY <1>1, <3>1 DEF PairsOf
    <2>2. CASE j = n /\ i + 1 = n
        BY <1>1, <1>4, <1>5, <2>2
    <2>3. CASE j = n /\ i + 1 < n
        <3>1. FollowingOf(recs, p) = <<i + 1, i + 2>> /\ i + 1 \in 1..n /\ i + 2 \in 1..n
            BY <1>1, <1>4, <1>5, <2>3
        <3> QED BY <1>1, <3>1 DEF PairsOf
    <2> QED BY <1>1, <1>4, <2>1, <2>2, <2>3
<1> QED BY <1>6, <1>7, <1>8 DEF n

\* Each pair is compared once, with one state of the clusters.
LEMMA PassedOnce ==
    ASSUME NEW recs, InSequence(recs)
    PROVE  \A x, y \in Passed(recs) : x.at = y.at => x = y
<1> DEFINE L == Passed(recs)
           G == {x \in L : \A y \in L : y.at = x.at => y = x}
<1>1. Closed(recs, L) /\ L \subseteq Points(recs)
    BY PassedIsClosed
<1>2. \A x : Advanced(recs, x).at = FollowingOf(recs, x.at)
    BY DEF Advanced
<1>3. Begun(recs) \in L /\ Begun(recs).at = <<1, 2>>
    BY <1>1 DEF Closed, Begun
<1>4. \A x \in L : x.at \in PairsOf(recs) => Advanced(recs, x) \in L
    BY <1>1 DEF Closed
<1>5. \A R \in SUBSET Points(recs) : Closed(recs, R) => L \subseteq R
    BY PassedIsLeast
<1> HIDE DEF L
<1>6. ASSUME NEW y \in L, y.at = <<1, 2>>
      PROVE  y = Begun(recs)
    <2> SUFFICES ASSUME y # Begun(recs) PROVE FALSE
        OBVIOUS
    <2>1. ASSUME NEW z \in L \ {y}, z.at \in PairsOf(recs)
          PROVE  Advanced(recs, z) \in L \ {y}
        <3>1. FollowingOf(recs, z.at) # <<1, 2>>
            BY <2>1, FollowingOnce
        <3>2. Advanced(recs, z).at # y.at
            BY <1>2, <1>6, <3>1
        <3> QED BY <1>4, <2>1, <3>2
    <2>2. Closed(recs, L \ {y})
        BY <1>3, <2>1 DEF Closed
    <2>3. L \ {y} \in SUBSET Points(recs)
        BY <1>1
    <2> QED BY <1>5, <2>2, <2>3
<1>7. ASSUME NEW x \in G, x.at \in PairsOf(recs)
      PROVE  Advanced(recs, x) \in G
    <2> SUFFICES ASSUME NEW y \in L, y.at = Advanced(recs, x).at, y # Advanced(recs, x)
                 PROVE  FALSE
        BY <1>4, <1>7
    <2>1. y # Begun(recs)
        BY <1>2, <1>3, <1>7, FollowingOnce
    <2>2. ASSUME NEW z \in L \ {y}, z.at \in PairsOf(recs)
          PROVE  Advanced(recs, z) \in L \ {y}
        <3> SUFFICES ASSUME Advanced(recs, z) = y PROVE FALSE
            BY <1>4, <2>2
        <3>1. FollowingOf(recs, z.at) = FollowingOf(recs, x.at)
            BY <1>2
        <3>2. z.at = x.at
            BY <1>7, <2>2, <3>1, FollowingOnce
        <3>3. z = x
            BY <1>7, <3>2
        <3> QED BY <3>3
    <2>3. Closed(recs, L \ {y})
        BY <1>3, <2>1, <2>2 DEF Closed
    <2>4. L \ {y} \in SUBSET Points(recs)
        BY <1>1
    <2> QED BY <1>5, <2>3, <2>4
<1>8. Begun(recs) \in G
    BY <1>3, <1>6
<1>9. Closed(recs, G)
    BY <1>7, <1>8 DEF Closed
<1>10. L \subseteq G
    BY <1>1, <1>5, <1>9
<1> QED BY <1>10 DEF L

\* The comparison ends at one point.
LEMMA OneResult ==
    ASSUME NEW recs, InSequence(recs), NEW x \in Passed(recs), NEW y \in Passed(recs),
           x.at \notin PairsOf(recs), y.at \notin PairsOf(recs)
    PROVE  x = y
<1> DEFINE last == IF Len(recs) = 0 THEN <<1, 2>> ELSE <<Len(recs), Len(recs) + 1>>
           R == {z \in Points(recs) : z.at \in PairsOf(recs) \/ z.at = last}
<1>1. Closed(recs, Points(recs))
    BY PointsAreClosed
<1>2. <<1, 2>> \in PairsOf(recs) \/ <<1, 2>> = last
    <2>1. CASE Len(recs) = 0
        BY <2>1
    <2>2. CASE Len(recs) = 1
        BY <2>2
    <2>3. CASE ~(Len(recs) = 0 \/ Len(recs) = 1)
        <3>1. 1 \in DOMAIN recs /\ 2 \in DOMAIN recs
            BY <2>3 DEF InSequence
        <3> QED BY <3>1 DEF PairsOf
    <2> QED BY <2>1, <2>2, <2>3
<1>3. Begun(recs) \in R
    BY <1>1, <1>2 DEF Closed, Begun
<1>4. ASSUME NEW z \in R, z.at \in PairsOf(recs)
      PROVE  Advanced(recs, z) \in R
    <2>1. Len(recs) # 0
        BY <1>4 DEF PairsOf, InSequence
    <2>2. Advanced(recs, z) \in Points(recs) /\ Advanced(recs, z).at = FollowingOf(recs, z.at)
        BY <1>1, <1>4 DEF Closed, Advanced
    <2> QED BY <1>4, <2>1, <2>2, FollowingOnce
<1>5. Closed(recs, R)
    BY <1>3, <1>4 DEF Closed
<1>6. x \in R /\ y \in R
    BY <1>5, PassedIsLeast
<1>7. x.at = y.at
    BY <1>6
<1> QED BY <1>7, PassedOnce


-----------------------------------------------------------------------------
(* The fusion within the passes of the daemon.                             *)

Now == [at |-> at, root |-> root, low |-> low]

LEMMA CompareAdvances ==
    ASSUME Shape, Compare
    PROVE  at \in PairsOf(records) /\ UNCHANGED records /\ Now' = Advanced(records, Now)
<1>1. Pairs = PairsOf(records) /\ Following(at) = FollowingOf(records, at)
    BY DEF Pairs, PairsOf, Following, FollowingOf
<1>2. \A m, n : Unitable(m, n) <=> UnitableOf(records, root, m, n)
    BY OfTheClusters
<1> DEFINE r == records[at[1]]
           s == records[at[2]]
           m == root[at[1]]
           n == root[at[2]]
           joined == Matches(r, s) /\ (m = n \/ Unitable(m, n))
<1>3. Joins(records, Now) <=> joined
    BY <1>2 DEF Joins, Now
<1>4. DOMAIN root = DOMAIN records
    BY DEF Shape, Labelled
<1>5. Matches(r, s) => Related(r, s)
    BY DEF Matches
<1>6. /\ at' = FollowingOf(records, at)
      /\ root' = IF joined
                 THEN [i \in DOMAIN records |-> IF root[i] \in {m, n} THEN Smaller(m, n) ELSE root[i]]
                 ELSE root
      /\ low' = IF Related(r, s) /\ ~joined THEN low \cup {at} ELSE low
    BY <1>1, <1>4, <1>5 DEF Compare, United
<1> QED BY <1>1, <1>3, <1>6 DEF Compare, Advanced, Now

Fusing == FusionInv /\ Refused /\ Now \in Passed(records)

LEMMA BeginsFusing ==
    ASSUME InSequence(records), at = <<1, 2>>, root = [i \in DOMAIN records |-> i], low = {}
    PROVE  Fusing
<1>1. Shape
    BY DEF Shape, Numbered, Labelled, InOrder, InSequence
<1>2. Coherence
    BY DEF Coherence, Coherent, Serials, Members, Compatible
<1>3. Reported /\ Refused
    BY DEF Reported, Refused, Done, Pairs, InSequence
<1>4. Now = Begun(records)
    BY DEF Now, Begun
<1>5. Now \in Passed(records)
    BY <1>4, PassedIsClosed DEF Closed
<1> QED BY <1>1, <1>2, <1>3, <1>5 DEF Fusing, FusionInv

LEMMA CollectedIsFusing ==
    ASSUME InSequence(records)', at' = <<1, 2>>, root' = [i \in DOMAIN records' |-> i], low' = {}
    PROVE  Fusing'
<1>1. Shape'
    BY DEF Shape, Numbered, Labelled, InOrder, InSequence
<1>2. Coherence'
    BY DEF Coherence, Coherent, Serials, Members, Compatible
<1>3. Reported' /\ Refused'
    BY DEF Reported, Refused, Done, Pairs, InSequence
<1>4. Now' = Begun(records')
    BY DEF Now, Begun
<1>5. InSequence(records')
    BY DEF InSequence
<1>6. Now' \in Passed(records')
    BY <1>4, <1>5, PassedIsClosed DEF Closed
<1> QED BY <1>1, <1>2, <1>3, <1>6 DEF Fusing, FusionInv

LEMMA FuseIsFusing ==
    ASSUME Fusing, [FusionNext]_fusionVars
    PROVE  Fusing'
<1>1. FusionInv' /\ Refused'
    BY StepPreserves, StepRefuses DEF Fusing
<1>2. CASE UNCHANGED fusionVars
    <2>1. Now' = Now /\ records' = records
        BY <1>2 DEF fusionVars, Now
    <2> QED BY <1>1, <2>1 DEF Fusing
<1>3. CASE Compare
    <2>1. InSequence(records)
        BY DEF InSequence, Fusing, FusionInv, Shape, Numbered
    <2>2. Now' = Advanced(records, Now) /\ at \in PairsOf(records) /\ records' = records
        BY <1>3, CompareAdvances DEF Fusing, FusionInv
    <2>3. Now.at \in PairsOf(records)
        BY <2>2 DEF Now
    <2>4. Now' \in Passed(records)
        BY <2>1, <2>2, <2>3, PassedIsClosed DEF Closed, Fusing
    <2> QED BY <1>1, <2>2, <2>4 DEF Fusing
<1> QED BY <1>2, <1>3 DEF FusionNext

\* The scenes that there may be.
Evidence == Scenes \cup Configurations \cup {c[2] : c \in Changes}
Drawn == \A i \in DOMAIN records : records[i] \in UNION Results
Seen == scene \in Evidence /\ config \subseteq DOMAIN Packs /\ Drawn /\ Fusing

LEMMA EvidenceIsASequence ==
    ASSUME NEW s \in Evidence
    PROVE  /\ InSequence(Observations(Resolved(s.results)))
           /\ \A i \in DOMAIN Observations(Resolved(s.results)) :
                 Observations(Resolved(s.results))[i] \in UNION Results
<1>1. Resolved(s.results) \in Results
    BY ScenesAssumption DEF Evidence
<1> QED BY <1>1, ObservationsAreASequence, ObservationsAreChosen DEF InSequence

LEMMA InitIsSeen == Init => Seen
<1> SUFFICES ASSUME Init PROVE Seen
    OBVIOUS
<1>1. InSequence(records)
    BY DEF Init, InSequence
<1>2. root = [i \in DOMAIN records |-> i]
    BY DEF Init
<1>3. Fusing
    BY <1>1, <1>2, BeginsFusing DEF Init
<1>4. scene \in Evidence /\ config \subseteq DOMAIN Packs
    BY ScenesAssumption DEF Init, Evidence, Resolvable
<1> QED BY <1>3, <1>4 DEF Init, Seen, Drawn

LEMMA StepsAreSeen == Seen /\ [Next]_vars => Seen'
<1> SUFFICES ASSUME Seen, [Next]_vars PROVE Seen'
    OBVIOUS
<1>1. scene' \in Evidence
    BY DEF Seen, Evidence, Next, Pass, vars, Undisturbed, Start, Capabilities, Collected, Fuse,
           WriteState, RunRules, RateServices, Refresh, Collect, Restart, Fail, Command
<1>2. config' \subseteq DOMAIN Packs
    BY <1>1, ScenesAssumption
       DEF Seen, Evidence, Resolvable, Next, Pass, vars, Undisturbed, Start, Capabilities, Collected, Fuse,
           WriteState, RunRules, RateServices, Refresh, Collect, Restart, Fail, Command
<1>3. CASE Collected
    <2>1. InSequence(records)'
        BY <1>3, EvidenceIsASequence DEF Collected, Seen, InSequence
    <2>2. Fusing'
        BY <1>3, <2>1, CollectedIsFusing DEF Collected
    <2>3. Drawn'
        BY <1>3, EvidenceIsASequence DEF Collected, Seen, Drawn
    <2> QED BY <1>1, <1>2, <2>2, <2>3 DEF Seen
<1>4. CASE ~Collected
    <2>1. [FusionNext]_fusionVars
        BY <1>4 DEF Next, Pass, vars, Start, Capabilities, Fuse,
           WriteState, RunRules, RateServices, Refresh, Collect, Restart, Fail, Command
    <2>2. UNCHANGED records
        BY <2>1 DEF FusionNext, Compare, fusionVars
    <2> QED BY <1>1, <1>2, <2>1, <2>2, FuseIsFusing DEF Seen, Drawn
<1> QED BY <1>3, <1>4

-----------------------------------------------------------------------------
(* What the files say when they are told of the evidence of now.           *)

ManifestNow == Manifest(config, scene.runs)
RecordsNow == Observations(Resolved(scene.results))

\* The end of the fusion, and what is made of it.
ResultOf(recs) == CHOOSE x \in Passed(recs) : x.at \notin PairsOf(recs)
AssetsOf(recs, x) ==
    {Asset({recs[i] : i \in MembersOf(recs, x.root, n)}) : n \in Range(x.root)}
DoubtfulOf(recs, x) == {CanonicalId({recs[p[1]]}) : p \in x.low}
AssetsNow == AssetsOf(RecordsNow, ResultOf(RecordsNow))
DoubtfulNow == DoubtfulOf(RecordsNow, ResultOf(RecordsNow))

\* The state that is written when the operations of the pass before are items.
StateNow(items) ==
    InfrastructureState(AssetsNow, DoubtfulNow, items, config, ManifestNow, scene.runs)
OperationsNow == Operations(StateNow({}), config)
ServicesNow == Health(StateNow({}), OperationsNow, Registry(config), ManifestNow)
ReadinessNow == PublishedReadiness(config, ManifestNow, StateNow({}))
BoardNow(items) ==
    Board(StateNow(items), OperationsNow, Registry(config), ServicesNow, ReadinessNow)

LEMMA FusedAgrees ==
    ASSUME Fusing, Fused, records = RecordsNow
    PROVE  Assets = AssetsNow /\ Doubtful = DoubtfulNow
<1>1. InSequence(records)
    BY DEF InSequence, Fusing, FusionInv, Shape, Numbered
<1>2. Now \in Passed(records) /\ Now.at \notin PairsOf(records)
    BY DEF Fusing, Fused, Now, Pairs, PairsOf
<1>3. ResultOf(records) = Now
    BY <1>1, <1>2, OneResult DEF ResultOf
<1>4. AssetsOf(records, Now) = Assets
    BY DEF AssetsOf, Assets, Cluster, Members, MembersOf, Now
<1>5. DoubtfulOf(records, Now) = Doubtful
    BY DEF DoubtfulOf, Doubtful, Now
<1> QED BY <1>3, <1>4, <1>5 DEF AssetsNow, DoubtfulNow

\* Two states that are made of the same assets and runs.
AlikeStates(s, t) ==
    /\ s.assets = t.assets /\ s.collectors = t.collectors
    /\ s.wan = t.wan /\ s.security = t.security

LEMMA StatesAreAlike ==
    ASSUME NEW items
    PROVE  AlikeStates(StateNow(items), StateNow({}))
BY DEF AlikeStates, StateNow, InfrastructureState

\* The rules do not read what the state took from the operations before.
LEMMA SameOperations ==
    ASSUME NEW s, NEW t, AlikeStates(s, t), NEW e
    PROVE  Operations(s, e) = Operations(t, e)
<1>1. s.assets = t.assets /\ s.collectors = t.collectors /\ s.wan = t.wan
    BY DEF AlikeStates
<1>2. RuleSources(s, e) = RuleSources(t, e)
    BY <1>1 DEF RuleSources
<1>3. CollectorItems(s, e) = CollectorItems(t, e)
    BY <1>1, <1>2 DEF CollectorItems
<1>4. WanItems(s) = WanItems(t)
    BY <1>1 DEF WanItems
<1> QED BY <1>1, <1>3, <1>4 DEF Operations

LEMMA SameServices ==
    ASSUME NEW s, NEW t, AlikeStates(s, t), NEW items, NEW offered, NEW m
    PROVE  Health(s, items, offered, m) = Health(t, items, offered, m)
<1>1. \A site : Relevant(s, offered, site) = Relevant(t, offered, site)
    BY DEF AlikeStates, Relevant
<1>2. ASSUME NEW site
      PROVE  SiteContext(s, items, offered, m, site) = SiteContext(t, items, offered, m, site)
    <2> DEFINE one == Relevant(s, offered, site)
               other == Relevant(t, offered, site)
    <2>1. one = other
        BY <1>1
    <2>2. /\ s.assets = t.assets /\ s.collectors = t.collectors
          /\ s.wan = t.wan /\ s.security = t.security
        BY DEF AlikeStates
    <2> HIDE DEF one, other
    <2>3. {s.collectors[c] : c \in one} = {t.collectors[c] : c \in other}
        BY <2>1, <2>2
    <2>4. /\ {x \in s.wan : x.site = site} = {x \in t.wan : x.site = site}
          /\ {x \in s.security : x.site = site} = {x \in t.security : x.site = site}
          /\ {a \in s.assets : a.site = site} = {a \in t.assets : a.site = site}
        BY <2>2
    <2>5. {i \in Current(items, offered) :
              i.site = site \/ (i.category = "Collector" /\ i.device[2] \in one)}
            = {i \in Current(items, offered) :
              i.site = site \/ (i.category = "Collector" /\ i.device[2] \in other)}
        BY <2>1
    <2>6. {offered.offers[c] : c \in one} = {offered.offers[c] : c \in other}
        BY <2>1
    <2> QED BY <2>1, <2>3, <2>4, <2>5, <2>6, Zenon DEF SiteContext, one, other
<1>3. EstateContext(s, items, offered, m) = EstateContext(t, items, offered, m)
    BY DEF AlikeStates, EstateContext
<1> QED BY <1>2, <1>3 DEF Health

LEMMA SameReadiness ==
    ASSUME NEW s, NEW t, AlikeStates(s, t), NEW e, NEW m
    PROVE  PublishedReadiness(e, m, s) = PublishedReadiness(e, m, t)
BY DEF AlikeStates, PublishedReadiness

-----------------------------------------------------------------------------
(* Which file is told of the evidence of now, at which stage of which pass.*)
(* The first undisturbed pass brings the files in order one by one, the    *)
(* second writes every file from files that are in order, but for the      *)
(* state, which looks back at the operations of the pass before.           *)

Later == {"operations", "services", "dashboards"}

RegistryTold == passes >= 1 => pc # "start" /\ registry = Registry(config)
ManifestTold == passes >= 2 \/ (passes = 1 /\ pc # "capabilities") => manifest = ManifestNow
RecordsTold ==
    passes >= 2 \/ (passes = 1 /\ pc \notin {"capabilities", "infrastructure"}) => records = RecordsNow
FusedTold == (passes >= 2 /\ pc # "fusion") \/ (passes = 1 /\ pc \in Later) => Fused
StateTold == passes >= 2 \/ (passes = 1 /\ pc \in Later) => \E items : state = StateNow(items)
StateSettled == passes = 3 \/ (passes = 2 /\ pc \in Later) => state = StateNow(OperationsNow)
OperationsTold ==
    passes >= 2 \/ (passes = 1 /\ pc \in {"services", "dashboards"}) => operations = OperationsNow
ServicesTold == passes >= 2 \/ (passes = 1 /\ pc = "dashboards") => services = ServicesNow
BoardTold ==
    /\ passes >= 2 => readiness = ReadinessNow /\ \E items : board = BoardNow(items)
    /\ passes = 3 => board = BoardNow(OperationsNow)

Told ==
    /\ pc \in Stages /\ passes \in 0..3
    /\ RegistryTold /\ ManifestTold /\ RecordsTold /\ FusedTold /\ StateTold
    /\ StateSettled /\ OperationsTold /\ ServicesTold /\ BoardTold

EstateInv == Seen /\ Told

LEMMA NowIsKept ==
    ASSUME UNCHANGED <<scene, config>>
    PROVE  /\ ManifestNow' = ManifestNow /\ RecordsNow' = RecordsNow
           /\ OperationsNow' = OperationsNow /\ ServicesNow' = ServicesNow
           /\ ReadinessNow' = ReadinessNow
           /\ \A items : StateNow(items)' = StateNow(items) /\ BoardNow(items)' = BoardNow(items)
<1>1. ManifestNow' = ManifestNow /\ RecordsNow' = RecordsNow
    BY DEF ManifestNow, RecordsNow
<1>2. AssetsNow' = AssetsNow /\ DoubtfulNow' = DoubtfulNow
    BY <1>1 DEF AssetsNow, DoubtfulNow
<1>3. \A items : StateNow(items)' = StateNow(items)
    BY <1>1, <1>2 DEF StateNow
<1>4. OperationsNow' = OperationsNow
    BY <1>3 DEF OperationsNow
<1>5. ServicesNow' = ServicesNow /\ ReadinessNow' = ReadinessNow
    BY <1>1, <1>3, <1>4 DEF ServicesNow, ReadinessNow
<1>6. \A items : BoardNow(items)' = BoardNow(items)
    BY <1>3, <1>4, <1>5 DEF BoardNow
<1> QED BY <1>1, <1>3, <1>4, <1>5, <1>6

\* After a disturbance nothing is said.
LEMMA DisturbedIsTold ==
    ASSUME passes' = 0, pc' \in Stages
    PROVE  Told'
BY DEF Told, RegistryTold, ManifestTold, RecordsTold, FusedTold, StateTold, StateSettled,
       OperationsTold, ServicesTold, BoardTold

LEMMA StateOfNow ==
    ASSUME Seen, Fused, records = RecordsNow, manifest = ManifestNow, RunInfrastructure
    PROVE  state' = StateNow(operations)
BY FusedAgrees DEF Seen, RunInfrastructure, StateNow

LEMMA OperationsOfNow ==
    ASSUME registry = Registry(config), NEW items, state = StateNow(items), RunOperations
    PROVE  operations' = OperationsNow
BY StatesAreAlike, SameOperations DEF RunOperations, OperationsNow, Registry

LEMMA ServicesOfNow ==
    ASSUME registry = Registry(config), NEW items, state = StateNow(items),
           operations = OperationsNow, manifest = ManifestNow, RunServices
    PROVE  services' = ServicesNow
BY StatesAreAlike, SameServices DEF RunServices, ServicesNow

LEMMA BoardOfNow ==
    ASSUME NEW items, state = StateNow(items), operations = OperationsNow,
           services = ServicesNow, manifest = ManifestNow, Publish(manifest)
    PROVE  /\ readiness' = ReadinessNow /\ registry' = Registry(config)
           /\ board' = BoardNow(items)
<1>1. readiness' = ReadinessNow
    BY StatesAreAlike, SameReadiness DEF Publish, ReadinessNow
<1> QED BY <1>1 DEF Publish, BoardNow


LEMMA InitIsTold == Init => Told
BY DEF Init, Stages, Told, RegistryTold, ManifestTold, RecordsTold, FusedTold, StateTold,
       StateSettled, OperationsTold, ServicesTold, BoardTold

\* A stage of the pass that leaves the evidence alone.
LEMMA StagesAreTold ==
    ASSUME EstateInv, Pass
    PROVE  Told'
<1>1. UNCHANGED <<scene, config>>
    BY DEF Pass, Start, Capabilities, Collected, Fuse, WriteState, RunRules, RateServices,
           Refresh, Undisturbed
<1>2. /\ ManifestNow' = ManifestNow /\ RecordsNow' = RecordsNow
      /\ OperationsNow' = OperationsNow /\ ServicesNow' = ServicesNow
      /\ ReadinessNow' = ReadinessNow
      /\ \A items : StateNow(items)' = StateNow(items) /\ BoardNow(items)' = BoardNow(items)
    BY <1>1, NowIsKept
<1>3. pc' \in Stages /\ passes' \in 0..3
    BY DEF EstateInv, Told, Stages, Pass, Start, Capabilities, Collected, Fuse, WriteState,
           RunRules, RateServices, Refresh
<1>4. CASE Start
    <2>1. passes = 0 /\ passes' = 0
        BY <1>4 DEF Start, EstateInv, Told, RegistryTold
    <2> QED BY <1>3, <2>1, DisturbedIsTold
<1>5. CASE Capabilities
    <2>1. pc = "capabilities" /\ pc' = "infrastructure" /\ manifest' = ManifestNow
        BY <1>5 DEF Capabilities, GenerateManifests, ManifestNow, Undisturbed, published, fusionVars
    <2>2. UNCHANGED <<config, registry, state, operations, services, readiness, board, records, at, passes>>
        BY <1>5 DEF Capabilities, GenerateManifests, ManifestNow, Undisturbed, published, fusionVars
    <2>3. RegistryTold'
        BY <1>2, <1>3, <2>1, <2>2 DEF EstateInv, Told, RegistryTold
    <2>4. ManifestTold'
        BY <1>2, <1>3, <2>1, <2>2 DEF EstateInv, Told, ManifestTold
    <2>5. RecordsTold'
        BY <1>2, <1>3, <2>1, <2>2 DEF EstateInv, Told, RecordsTold
    <2>6. FusedTold'
        BY <1>2, <1>3, <2>1, <2>2 DEF EstateInv, Told, FusedTold, Fused, Pairs, Later
    <2>7. StateTold'
        BY <1>2, <1>3, <2>1, <2>2 DEF EstateInv, Told, StateTold, Later
    <2>8. StateSettled'
        BY <1>2, <1>3, <2>1, <2>2 DEF EstateInv, Told, StateSettled, StateTold, OperationsTold, Later
    <2>9. OperationsTold'
        BY <1>2, <1>3, <2>1, <2>2 DEF EstateInv, Told, OperationsTold
    <2>10. ServicesTold'
        BY <1>2, <1>3, <2>1, <2>2 DEF EstateInv, Told, ServicesTold
    <2>11. BoardTold'
        BY <1>2, <1>3, <2>1, <2>2 DEF EstateInv, Told, BoardTold
    <2> QED BY <1>3, <2>3, <2>4, <2>5, <2>6, <2>7, <2>8, <2>9, <2>10, <2>11 DEF Told
<1>6. CASE Collected
    <2>1. pc = "infrastructure" /\ pc' = "fusion" /\ records' = RecordsNow
        BY <1>6 DEF Collected, RecordsNow, Undisturbed, published, files
    <2>2. UNCHANGED <<config, registry, manifest, state, operations, services, readiness, board, passes>>
        BY <1>6 DEF Collected, RecordsNow, Undisturbed, published, files
    <2>3. RegistryTold'
        BY <1>2, <1>3, <2>1, <2>2 DEF EstateInv, Told, RegistryTold
    <2>4. ManifestTold'
        BY <1>2, <1>3, <2>1, <2>2 DEF EstateInv, Told, ManifestTold
    <2>5. RecordsTold'
        BY <1>2, <1>3, <2>1, <2>2 DEF EstateInv, Told, RecordsTold
    <2>6. FusedTold'
        BY <1>2, <1>3, <2>1, <2>2 DEF EstateInv, Told, FusedTold, Fused, Pairs, Later
    <2>7. StateTold'
        BY <1>2, <1>3, <2>1, <2>2 DEF EstateInv, Told, StateTold, Later
    <2>8. StateSettled'
        BY <1>2, <1>3, <2>1, <2>2 DEF EstateInv, Told, StateSettled, StateTold, OperationsTold, Later
    <2>9. OperationsTold'
        BY <1>2, <1>3, <2>1, <2>2 DEF EstateInv, Told, OperationsTold
    <2>10. ServicesTold'
        BY <1>2, <1>3, <2>1, <2>2 DEF EstateInv, Told, ServicesTold
    <2>11. BoardTold'
        BY <1>2, <1>3, <2>1, <2>2 DEF EstateInv, Told, BoardTold
    <2> QED BY <1>3, <2>3, <2>4, <2>5, <2>6, <2>7, <2>8, <2>9, <2>10, <2>11 DEF Told
<1>7. CASE Fuse
    <2>1. pc = "fusion" /\ pc' = "fusion"
        BY <1>7 DEF Fuse, FusionNext, Compare, Undisturbed, published, files
    <2>2. UNCHANGED <<config, registry, manifest, state, operations, services, readiness, board, records, passes>>
        BY <1>7 DEF Fuse, FusionNext, Compare, Undisturbed, published, files
    <2>3. RegistryTold'
        BY <1>2, <1>3, <2>1, <2>2 DEF EstateInv, Told, RegistryTold
    <2>4. ManifestTold'
        BY <1>2, <1>3, <2>1, <2>2 DEF EstateInv, Told, ManifestTold
    <2>5. RecordsTold'
        BY <1>2, <1>3, <2>1, <2>2 DEF EstateInv, Told, RecordsTold
    <2>6. FusedTold'
        BY <1>2, <1>3, <2>1, <2>2 DEF EstateInv, Told, FusedTold, Fused, Pairs, Later
    <2>7. StateTold'
        BY <1>2, <1>3, <2>1, <2>2 DEF EstateInv, Told, StateTold, Later
    <2>8. StateSettled'
        BY <1>2, <1>3, <2>1, <2>2 DEF EstateInv, Told, StateSettled, StateTold, OperationsTold, Later
    <2>9. OperationsTold'
        BY <1>2, <1>3, <2>1, <2>2 DEF EstateInv, Told, OperationsTold
    <2>10. ServicesTold'
        BY <1>2, <1>3, <2>1, <2>2 DEF EstateInv, Told, ServicesTold
    <2>11. BoardTold'
        BY <1>2, <1>3, <2>1, <2>2 DEF EstateInv, Told, BoardTold
    <2> QED BY <1>3, <2>3, <2>4, <2>5, <2>6, <2>7, <2>8, <2>9, <2>10, <2>11 DEF Told
<1>8. CASE WriteState
    <2>1. pc = "fusion" /\ pc' = "operations" /\ Fused
        BY <1>8 DEF WriteState, Undisturbed, published, fusionVars
    <2>2. UNCHANGED <<config, registry, manifest, operations, services, readiness, board, records, at, passes>>
        BY <1>8 DEF WriteState, Undisturbed, published, fusionVars
    <2>3. passes >= 1 => state' = StateNow(operations)
        BY <1>8, <2>1, StateOfNow DEF EstateInv, Told, ManifestTold, RecordsTold, WriteState
    <2>4. RegistryTold'
        BY <1>2, <1>3, <2>1, <2>2, <2>3 DEF EstateInv, Told, RegistryTold
    <2>5. ManifestTold'
        BY <1>2, <1>3, <2>1, <2>2, <2>3 DEF EstateInv, Told, ManifestTold
    <2>6. RecordsTold'
        BY <1>2, <1>3, <2>1, <2>2, <2>3 DEF EstateInv, Told, RecordsTold
    <2>7. FusedTold'
        BY <1>2, <1>3, <2>1, <2>2, <2>3 DEF EstateInv, Told, FusedTold, Fused, Pairs, Later
    <2>8. StateTold'
        BY <1>2, <1>3, <2>1, <2>2, <2>3 DEF EstateInv, Told, StateTold, Later
    <2>9. StateSettled'
        BY <1>2, <1>3, <2>1, <2>2, <2>3 DEF EstateInv, Told, StateSettled, StateTold, OperationsTold, Later
    <2>10. OperationsTold'
        BY <1>2, <1>3, <2>1, <2>2, <2>3 DEF EstateInv, Told, OperationsTold
    <2>11. ServicesTold'
        BY <1>2, <1>3, <2>1, <2>2, <2>3 DEF EstateInv, Told, ServicesTold
    <2>12. BoardTold'
        BY <1>2, <1>3, <2>1, <2>2, <2>3 DEF EstateInv, Told, BoardTold
    <2> QED BY <1>3, <2>4, <2>5, <2>6, <2>7, <2>8, <2>9, <2>10, <2>11, <2>12 DEF Told
<1>9. CASE RunRules
    <2>1. pc = "operations" /\ pc' = "services"
        BY <1>9 DEF RunRules, Undisturbed, published, fusionVars
    <2>2. UNCHANGED <<config, registry, manifest, state, services, readiness, board, records, at, passes>>
        BY <1>9 DEF RunRules, Undisturbed, published, fusionVars
    <2>3. passes >= 1 => operations' = OperationsNow
        BY <1>9, <2>1, OperationsOfNow DEF EstateInv, Told, RegistryTold, StateTold, RunRules, Later
    <2>4. RegistryTold'
        BY <1>2, <1>3, <2>1, <2>2, <2>3 DEF EstateInv, Told, RegistryTold
    <2>5. ManifestTold'
        BY <1>2, <1>3, <2>1, <2>2, <2>3 DEF EstateInv, Told, ManifestTold
    <2>6. RecordsTold'
        BY <1>2, <1>3, <2>1, <2>2, <2>3 DEF EstateInv, Told, RecordsTold
    <2>7. FusedTold'
        BY <1>2, <1>3, <2>1, <2>2, <2>3 DEF EstateInv, Told, FusedTold, Fused, Pairs, Later
    <2>8. StateTold'
        BY <1>2, <1>3, <2>1, <2>2, <2>3 DEF EstateInv, Told, StateTold, Later
    <2>9. StateSettled'
        BY <1>2, <1>3, <2>1, <2>2, <2>3 DEF EstateInv, Told, StateSettled, StateTold, OperationsTold, Later
    <2>10. OperationsTold'
        BY <1>2, <1>3, <2>1, <2>2, <2>3 DEF EstateInv, Told, OperationsTold
    <2>11. ServicesTold'
        BY <1>2, <1>3, <2>1, <2>2, <2>3 DEF EstateInv, Told, ServicesTold
    <2>12. BoardTold'
        BY <1>2, <1>3, <2>1, <2>2, <2>3 DEF EstateInv, Told, BoardTold
    <2> QED BY <1>3, <2>4, <2>5, <2>6, <2>7, <2>8, <2>9, <2>10, <2>11, <2>12 DEF Told
<1>10. CASE RateServices
    <2>1. pc = "services" /\ pc' = "dashboards"
        BY <1>10 DEF RateServices, Undisturbed, published, fusionVars
    <2>2. UNCHANGED <<config, registry, manifest, state, operations, readiness, board, records, at, passes>>
        BY <1>10 DEF RateServices, Undisturbed, published, fusionVars
    <2>3. passes >= 1 => services' = ServicesNow
        BY <1>10, <2>1, ServicesOfNow
           DEF EstateInv, Told, RegistryTold, ManifestTold, StateTold, OperationsTold, RateServices, Later
    <2>4. RegistryTold'
        BY <1>2, <1>3, <2>1, <2>2, <2>3 DEF EstateInv, Told, RegistryTold
    <2>5. ManifestTold'
        BY <1>2, <1>3, <2>1, <2>2, <2>3 DEF EstateInv, Told, ManifestTold
    <2>6. RecordsTold'
        BY <1>2, <1>3, <2>1, <2>2, <2>3 DEF EstateInv, Told, RecordsTold
    <2>7. FusedTold'
        BY <1>2, <1>3, <2>1, <2>2, <2>3 DEF EstateInv, Told, FusedTold, Fused, Pairs, Later
    <2>8. StateTold'
        BY <1>2, <1>3, <2>1, <2>2, <2>3 DEF EstateInv, Told, StateTold, Later
    <2>9. StateSettled'
        BY <1>2, <1>3, <2>1, <2>2, <2>3 DEF EstateInv, Told, StateSettled, StateTold, OperationsTold, Later
    <2>10. OperationsTold'
        BY <1>2, <1>3, <2>1, <2>2, <2>3 DEF EstateInv, Told, OperationsTold
    <2>11. ServicesTold'
        BY <1>2, <1>3, <2>1, <2>2, <2>3 DEF EstateInv, Told, ServicesTold
    <2>12. BoardTold'
        BY <1>2, <1>3, <2>1, <2>2, <2>3 DEF EstateInv, Told, BoardTold
    <2> QED BY <1>3, <2>4, <2>5, <2>6, <2>7, <2>8, <2>9, <2>10, <2>11, <2>12 DEF Told
<1>11. CASE Refresh
    <2>1. pc = "dashboards" /\ pc' = "capabilities" /\ passes' = (IF passes < 3 THEN passes + 1 ELSE passes)
        BY <1>11 DEF Refresh, Undisturbed, fusionVars
    <2>2. UNCHANGED <<config, manifest, state, operations, services, records, at>>
        BY <1>11 DEF Refresh, Undisturbed, fusionVars
    <2>3. passes >= 1 =>
              readiness' = ReadinessNow /\ \E items : state = StateNow(items) /\ board' = BoardNow(items)
        BY <1>11, <2>1, BoardOfNow
           DEF EstateInv, Told, ManifestTold, StateTold, OperationsTold, ServicesTold, Refresh, Later
    <2>4. passes >= 2 => board' = BoardNow(OperationsNow)
        BY <1>11, <2>1, BoardOfNow
           DEF EstateInv, Told, ManifestTold, StateSettled, OperationsTold, ServicesTold, Refresh, Later
    <2>5. registry' = Registry(config)
        BY <1>11 DEF Refresh, Publish
    <2>6. RegistryTold'
        BY <1>2, <1>3, <2>1, <2>2, <2>3, <2>4, <2>5 DEF EstateInv, Told, RegistryTold
    <2>7. ManifestTold'
        BY <1>2, <1>3, <2>1, <2>2, <2>3, <2>4, <2>5 DEF EstateInv, Told, ManifestTold
    <2>8. RecordsTold'
        BY <1>2, <1>3, <2>1, <2>2, <2>3, <2>4, <2>5 DEF EstateInv, Told, RecordsTold
    <2>9. FusedTold'
        BY <1>2, <1>3, <2>1, <2>2, <2>3, <2>4, <2>5 DEF EstateInv, Told, FusedTold, Fused, Pairs, Later
    <2>10. StateTold'
        BY <1>2, <1>3, <2>1, <2>2, <2>3, <2>4, <2>5 DEF EstateInv, Told, StateTold, Later
    <2>11. StateSettled'
        BY <1>2, <1>3, <2>1, <2>2, <2>3, <2>4, <2>5 DEF EstateInv, Told, StateSettled, StateTold, OperationsTold, Later
    <2>12. OperationsTold'
        BY <1>2, <1>3, <2>1, <2>2, <2>3, <2>4, <2>5 DEF EstateInv, Told, OperationsTold
    <2>13. ServicesTold'
        BY <1>2, <1>3, <2>1, <2>2, <2>3, <2>4, <2>5 DEF EstateInv, Told, ServicesTold
    <2>14. BoardTold'
        BY <1>2, <1>3, <2>1, <2>2, <2>3, <2>4, <2>5 DEF EstateInv, Told, BoardTold
    <2> QED BY <1>3, <2>6, <2>7, <2>8, <2>9, <2>10, <2>11, <2>12, <2>13, <2>14 DEF Told
<1> QED BY <1>4, <1>5, <1>6, <1>7, <1>8, <1>9, <1>10, <1>11 DEF Pass

LEMMA EstateInvIsInductive == EstateInv /\ [Next]_vars => EstateInv'
<1> SUFFICES ASSUME EstateInv, [Next]_vars PROVE EstateInv'
    OBVIOUS
<1>1. Seen'
    BY StepsAreSeen DEF EstateInv
<1>2. CASE Pass
    BY <1>1, <1>2, StagesAreTold DEF EstateInv
<1>3. CASE Collect \/ Restart \/ Fail \/ Command
    <2>1. passes' = 0 /\ pc' \in Stages
        BY <1>3 DEF Collect, Restart, Fail, Command, Disturbed, EstateInv, Told, Stages
    <2> QED BY <1>1, <2>1, DisturbedIsTold DEF EstateInv
<1>4. CASE UNCHANGED vars
    <2>1. /\ UNCHANGED <<scene, config, pc, passes, records, at, manifest, state, operations>>
          /\ UNCHANGED <<registry, services, readiness, board>>
        BY <1>4 DEF vars, files, published, fusionVars
    <2>2. /\ ManifestNow' = ManifestNow /\ RecordsNow' = RecordsNow
          /\ OperationsNow' = OperationsNow /\ ServicesNow' = ServicesNow
          /\ ReadinessNow' = ReadinessNow
          /\ \A items : StateNow(items)' = StateNow(items) /\ BoardNow(items)' = BoardNow(items)
        BY <2>1, NowIsKept
    <2>3. Fused' <=> Fused
        BY <2>1 DEF Fused, Pairs
    <2>4. Told'
        BY <2>1, <2>2, <2>3 DEF EstateInv, Told, RegistryTold, ManifestTold, RecordsTold, FusedTold,
           StateTold, StateSettled, OperationsTold, ServicesTold, BoardTold
    <2> QED BY <1>1, <2>4 DEF EstateInv
<1> QED BY <1>2, <1>3, <1>4 DEF Next

LEMMA EstateInvHolds == Spec => []EstateInv
<1>1. Init => EstateInv
    BY InitIsSeen, InitIsTold DEF EstateInv
<1> QED BY <1>1, EstateInvIsInductive, PTL DEF Spec

\* The operations pass: whatever was collected, failed, was restarted or was run
\* beside it before, three passes over the same evidence leave every file what
\* the engines make of that evidence and of one another.
THEOREM FilesAgreeInTheEnd == Spec => []Agreement
<1>1. EstateInv => Agreement
    <2> SUFFICES ASSUME EstateInv, Idle, passes = 3 PROVE Agreed
        BY DEF Agreement
    <2>1. /\ manifest = ManifestNow /\ records = RecordsNow /\ Fused /\ operations = OperationsNow
          /\ services = ServicesNow /\ state = StateNow(OperationsNow)
          /\ readiness = ReadinessNow /\ board = BoardNow(OperationsNow)
        BY DEF EstateInv, Told, ManifestTold, RecordsTold, FusedTold, OperationsTold, ServicesTold,
           StateSettled, BoardTold, Idle
    <2>2. Assets = AssetsNow /\ Doubtful = DoubtfulNow
        BY <2>1, FusedAgrees DEF EstateInv, Seen
    <2>3. AlikeStates(StateNow(OperationsNow), StateNow({}))
        BY StatesAreAlike
    <2>4. OperationsNow = Operations(StateNow(OperationsNow), config)
        BY <2>3, SameOperations DEF OperationsNow
    <2>5. ServicesNow = Health(StateNow(OperationsNow), OperationsNow, Registry(config), ManifestNow)
        BY <2>3, SameServices DEF ServicesNow
    <2>6. ReadinessNow = PublishedReadiness(config, ManifestNow, StateNow(OperationsNow))
        BY <2>3, SameReadiness DEF ReadinessNow
    <2>7. manifest = Manifest(config, scene.runs)
        BY <2>1 DEF ManifestNow
    <2>8. state = InfrastructureState(Assets, Doubtful, operations, config, manifest, scene.runs)
        BY <2>1, <2>2 DEF StateNow
    <2>9. board = Board(state, operations, Registry(config), services, readiness)
        BY <2>1 DEF BoardNow
    <2> QED BY <2>1, <2>4, <2>5, <2>6, <2>7, <2>8, <2>9 DEF Agreed
<1> QED BY <1>1, EstateInvHolds, PTL

\* The adapters and FusionEngine.fuse as the passes of the daemon run them: also
\* when a stage raises or the daemon is restarted amid a fusion, no cluster holds
\* two devices and no doubtful pair is dropped.
THEOREM FusionHoldsInThePasses == Spec => [](OneDevicePerCluster /\ DoubtIsReported)
<1>1. EstateInv => OneDevicePerCluster /\ DoubtIsReported
    BY ClustersAreDevices, DoubtIsKept DEF EstateInv, Seen, Fusing
<1> QED BY <1>1, EstateInvHolds, PTL

-----------------------------------------------------------------------------
(* The canonical ids of the firewalls.                                     *)

\* A non-empty set has a first element by three naturals.
Leads(a, b, c, r, s) ==
    \/ a[r] < a[s]
    \/ a[r] = a[s] /\ b[r] < b[s]
    \/ a[r] = a[s] /\ b[r] = b[s] /\ c[r] <= c[s]

LEMMA FirstOfThree ==
    ASSUME NEW S, S # {}, NEW a \in [S -> Nat], NEW b \in [S -> Nat], NEW c \in [S -> Nat]
    PROVE  \E r \in S : \A s \in S : Leads(a, b, c, r, s)
<1>1. PICK x \in {a[s] : s \in S} : \A y \in {a[s] : s \in S} : x <= y
    <2>1. {a[s] : s \in S} \in SUBSET Nat /\ {a[s] : s \in S} # {}
        OBVIOUS
    <2> QED BY <2>1, LeastNatural
<1> DEFINE A == {s \in S : a[s] = x}
<1>2. PICK y \in {b[s] : s \in A} : \A z \in {b[s] : s \in A} : y <= z
    <2>1. {b[s] : s \in A} \in SUBSET Nat /\ {b[s] : s \in A} # {}
        BY <1>1
    <2> QED BY <2>1, LeastNatural
<1> DEFINE B == {s \in A : b[s] = y}
<1>3. PICK z \in {c[s] : s \in B} : \A u \in {c[s] : s \in B} : z <= u
    <2>1. {c[s] : s \in B} \in SUBSET Nat /\ {c[s] : s \in B} # {}
        BY <1>2
    <2> QED BY <2>1, LeastNatural
<1>4. PICK r \in B : c[r] = z
    BY <1>3
<1>5. ASSUME NEW s \in S
      PROVE  Leads(a, b, c, r, s)
    <2>1. a[r] = x /\ b[r] = y /\ x <= a[s] /\ x \in Nat /\ y \in Nat /\ a[s] \in Nat /\ b[s] \in Nat
        BY <1>1, <1>2, <1>4
    <2>2. a[s] = x => y <= b[s]
        BY <1>2
    <2>3. a[s] = x /\ b[s] = y => c[r] <= c[s]
        BY <1>3, <1>4
    <2> QED BY <2>1, <2>2, <2>3 DEF Leads
<1>6. r \in S
    BY <1>4
<1> QED BY <1>5, <1>6

LEMMA RanksAreNaturals ==
    /\ \A r \in Records : SourceRank(r.source) \in Nat /\ 1000 - Priority(r) \in Nat
    /\ \A k \in Kinds : (CHOOSE i \in DOMAIN KindOrder : KindOrder[i] = k) \in Nat
<1>1. \A c \in Sources : SourceRank(c) \in 1..5
    BY DEF Sources, Vendors, SourceRank, Order
<1>2. \A k \in Kinds : \E i \in DOMAIN KindOrder : KindOrder[i] = k
    BY DEF Kinds, Range
<1>3. DOMAIN KindOrder = 1..9
    BY DEF KindOrder
<1> QED BY <1>1, <1>2, <1>3 DEF Records, Priority

\* The type of an asset is that of one of its records.
LEMMA KindIsSeen ==
    ASSUME NEW g \in SUBSET Records, Kind(g) # "unknown"
    PROVE  \E r \in g : r.kind = Kind(g)
<1> DEFINE Rank(k) == CHOOSE i \in DOMAIN KindOrder : KindOrder[i] = k
           stated == {r \in g : r["kind"] # "unknown"}
           Place(r) == <<1000 - Priority(r), SourceRank(r.source), Rank(r["kind"])>>
           Ahead(r, s) == LET p == Place(r) q == Place(s)
                          IN  \/ p[1] < q[1]
                              \/ p[1] = q[1] /\ p[2] < q[2]
                              \/ p[1] = q[1] /\ p[2] = q[2] /\ p[3] <= q[3]
           a == [r \in stated |-> 1000 - Priority(r)]
           b == [r \in stated |-> SourceRank(r.source)]
           c == [r \in stated |-> Rank(r["kind"])]
<1>1. a \in [stated -> Nat] /\ b \in [stated -> Nat] /\ c \in [stated -> Nat]
    BY RanksAreNaturals DEF Records
<1>2. Kind(g) = IF stated = {} THEN "unknown"
                ELSE (CHOOSE r \in stated : \A s \in stated : Ahead(r, s))["kind"]
    BY Zenon DEF Kind, Select
<1>3. stated # {}
    BY <1>2
<1>4. PICK r \in stated : \A s \in stated : Leads(a, b, c, r, s)
    <2> HIDE DEF stated, a, b, c
    <2> QED BY <1>1, <1>3, FirstOfThree
<1>5. ASSUME NEW s \in stated
      PROVE  Ahead(r, s)
    <2>1. a[r] = Place(r)[1] /\ b[r] = Place(r)[2] /\ c[r] = Place(r)[3]
        OBVIOUS
    <2>2. a[s] = Place(s)[1] /\ b[s] = Place(s)[2] /\ c[s] = Place(s)[3]
        OBVIOUS
    <2> HIDE DEF Place, a, b, c
    <2> QED BY <1>4, <2>1, <2>2 DEF Leads
<1> HIDE DEF Ahead
<1>6. (CHOOSE x \in stated : \A s \in stated : Ahead(x, s)) \in stated
    BY <1>5
<1> QED BY <1>2, <1>3, <1>6

LEMMA FirstIsSited ==
    ASSUME NEW P \in SUBSET Records, P # {}, NEW f \in {"host", "ip"}
    PROVE  (CHOOSE r \in P : \A s \in P : r[f] < s[f] \/ (r[f] = s[f] /\ r.site <= s.site)) \in P
<1> DEFINE Leading(r) == \A s \in P : r[f] < s[f] \/ (r[f] = s[f] /\ r.site <= s.site)
           a == [r \in P |-> r[f]]
           b == [r \in P |-> r.site]
           c == [r \in P |-> 0]
<1>1. \A r \in P : r[f] \in Nat /\ r.site \in Nat
    BY DEF Records
<1>2. a \in [P -> Nat] /\ b \in [P -> Nat] /\ c \in [P -> Nat]
    BY <1>1
<1>3. PICK r \in P : \A s \in P : Leads(a, b, c, r, s)
    <2> HIDE DEF a, b, c
    <2> QED BY <1>2, FirstOfThree
<1>4. Leading(r)
    BY <1>1, <1>3 DEF Leads
<1> HIDE DEF Leading
<1>5. (CHOOSE x \in P : Leading(x)) \in P
    BY <1>3, <1>4
<1> QED BY <1>5 DEF Leading

\* What an asset is called by, and what its records then lack.
CalledBy(g, f, id) ==
    \E r \in g : /\ r[f] # None
                 /\ f \in {"host", "ip"} => r.site # None
                 /\ id = <<f, r[f], IF f \in {"host", "ip"} THEN r.site ELSE None>>
Lacks(g, f) == \A r \in g : r[f] = None \/ (f \in {"host", "ip"} /\ r.site = None)

LEMMA CanonicalIdIsOfARecord ==
    ASSUME NEW g \in SUBSET Records
    PROVE  \/ CalledBy(g, "serial", CanonicalId(g))
           \/ Lacks(g, "serial") /\ CalledBy(g, "mac", CanonicalId(g))
           \/ Lacks(g, "serial") /\ Lacks(g, "mac") /\ CalledBy(g, "host", CanonicalId(g))
           \/ Lacks(g, "serial") /\ Lacks(g, "mac") /\ CalledBy(g, "ip", CanonicalId(g))
           \/ /\ CanonicalId(g)[1] = "source"
              /\ Lacks(g, "serial") /\ Lacks(g, "mac") /\ Lacks(g, "host") /\ Lacks(g, "ip")
<1> DEFINE Values(f) == {r[f] : r \in g} \ {None}
           Sited(f) == {r \in g : r[f] # None /\ r.site # None}
           First(f) == CHOOSE r \in Sited(f) : \A s \in Sited(f) :
                          r[f] < s[f] \/ (r[f] = s[f] /\ r.site <= s.site)
<1>1. ASSUME NEW f \in {"serial", "mac"}, Values(f) # {}
      PROVE  Min(Values(f)) \in Values(f)
    <2>1. Values(f) \in SUBSET Nat
        BY DEF Records
    <2> HIDE DEF Values
    <2>2. \E x \in Values(f) : \A y \in Values(f) : x <= y
        BY <1>1, <2>1, LeastNatural
    <2> QED BY <2>2 DEF Min
<1>2. ASSUME NEW f \in {"host", "ip"}, Sited(f) # {}
      PROVE  First(f) \in Sited(f)
    <2>1. Sited(f) \in SUBSET Records
        OBVIOUS
    <2> HIDE DEF Sited
    <2> QED BY <1>2, <2>1, FirstIsSited
<1>3. CanonicalId(g) =
          IF Values("serial") # {} THEN <<"serial", Min(Values("serial")), None>>
          ELSE IF Values("mac") # {} THEN <<"mac", Min(Values("mac")), None>>
          ELSE IF Sited("host") # {} THEN <<"host", First("host").host, First("host").site>>
          ELSE IF Sited("ip") # {} THEN <<"ip", First("ip").ip, First("ip").site>>
          ELSE <<"source", Min({r.id : r \in g}), None>>
    BY DEF CanonicalId
<1>4. \A f \in {"serial", "mac"} : Lacks(g, f) <=> Values(f) = {}
    BY DEF Lacks
<1>5. \A f \in {"host", "ip"} : Lacks(g, f) <=> Sited(f) = {}
    BY DEF Lacks
<1>6. ASSUME NEW f \in {"serial", "mac"}, Values(f) # {}
      PROVE  CalledBy(g, f, <<f, Min(Values(f)), None>>)
    BY <1>1, <1>6 DEF CalledBy
<1>7. ASSUME Sited("host") # {}
      PROVE  CalledBy(g, "host", <<"host", First("host").host, First("host").site>>)
    <2>1. PICK r \in Sited("host") : r = First("host")
        BY <1>2, <1>7
    <2> HIDE DEF First
    <2>2. CalledBy(g, "host", <<"host", r.host, r.site>>)
        <3>1. r \in g /\ r["host"] # None /\ r.site # None
            BY <2>1
        <3>2. <<"host", r["host"], IF "host" \in {"host", "ip"} THEN r.site ELSE None>> = <<"host", r.host, r.site>>
            OBVIOUS
        <3> QED BY <3>1, <3>2 DEF CalledBy
    <2> QED BY <2>1, <2>2
<1>8. ASSUME Sited("ip") # {}
      PROVE  CalledBy(g, "ip", <<"ip", First("ip").ip, First("ip").site>>)
    <2>1. PICK r \in Sited("ip") : r = First("ip")
        BY <1>2, <1>8
    <2> HIDE DEF First
    <2>2. CalledBy(g, "ip", <<"ip", r.ip, r.site>>)
        <3>1. r \in g /\ r["ip"] # None /\ r.site # None
            BY <2>1
        <3>2. <<"ip", r["ip"], IF "ip" \in {"host", "ip"} THEN r.site ELSE None>> = <<"ip", r.ip, r.site>>
            OBVIOUS
        <3> QED BY <3>1, <3>2 DEF CalledBy
    <2> QED BY <2>1, <2>2
<1> HIDE DEF Values, Sited, First
<1> QED BY <1>3, <1>4, <1>5, <1>6, <1>7, <1>8

\* What a firewall's record must say for it to be known again: a serial number, a
\* mac, or a name or an address at a site.
Identified(r) ==
    r.serial # None \/ r.mac # None \/ (r.site # None /\ (r.host # None \/ r.ip # None))
FirewallsIdentified ==
    \A results \in Results : \A r \in results : r.kind = "firewall" => Identified(r)

LEMMA MatchingIsSymmetric ==
    ASSUME NEW r, NEW s, Matches(r, s)
    PROVE  Matches(s, r)
<1>1. \A k, l : Compatible(k, l) => Compatible(l, k)
    BY DEF Compatible
<1>2. Contradict(s, r) => Contradict(r, s)
    BY <1>1 DEF Contradict, Differ
<1>3. SameHardware(s, r) <=> SameHardware(r, s)
    BY DEF SameHardware, Same
<1>4. Alias(r.site, s.site) => Alias(s.site, r.site)
    BY DEF Alias
<1>5. SameSite(r, s) => SameSite(s, r)
    BY <1>4 DEF SameSite, Same
<1>6. SameAddress(s, r) <=> SameAddress(r, s)
    BY DEF SameAddress, Same
<1> QED BY <1>2, <1>3, <1>5, <1>6 DEF Matches, Related

LEMMA UnitingIsSymmetric ==
    ASSUME NEW recs, NEW labels, NEW m, NEW n, UnitableOf(recs, labels, m, n)
    PROVE  UnitableOf(recs, labels, n, m)
<1>1. \A k, l : Compatible(k, l) => Compatible(l, k)
    BY DEF Compatible
<1> QED BY <1>1 DEF UnitableOf

\* Two clusters that nothing speaks against have no pair that matches.
LEMMA NothingIsLeft ==
    ASSUME FusionInv, Refused, Fused, NEW m, NEW n, m # n, UnitableOf(records, root, m, n),
           NEW i \in MembersOf(records, root, m), NEW j \in MembersOf(records, root, n)
    PROVE  ~Matches(records[i], records[j])
<1> SUFFICES ASSUME Matches(records[i], records[j]) PROVE FALSE
    OBVIOUS
<1>1. /\ i \in DOMAIN records /\ j \in DOMAIN records /\ i # j
      /\ root[i] = m /\ root[j] = n /\ i \in Nat /\ j \in Nat
    BY DEF MembersOf, FusionInv, Shape, Numbered
<1>2. CASE i < j
    <2>1. <<i, j>> \in Pairs
        BY <1>1, <1>2 DEF Pairs
    <2> QED BY <1>1, <2>1, AllAreDone DEF Refused
<1>3. CASE j < i
    <2>1. <<j, i>> \in Pairs
        BY <1>1, <1>3 DEF Pairs
    <2>2. Matches(records[j], records[i]) /\ UnitableOf(records, root, n, m)
        BY MatchingIsSymmetric, UnitingIsSymmetric
    <2> QED BY <1>1, <2>1, <2>2, AllAreDone DEF Refused
<1> QED BY <1>1, <1>2, <1>3

LEMMA ClustersAreRecords ==
    ASSUME Drawn, NEW n
    PROVE  /\ Cluster(n) \in SUBSET Records
           /\ \A r \in Cluster(n) : \E i \in MembersOf(records, root, n) : r = records[i]
           /\ \A i \in MembersOf(records, root, n) : records[i] \in Cluster(n)
<1>1. Members(n) = MembersOf(records, root, n)
    BY OfTheClusters
<1>2. \A i \in DOMAIN records : records[i] \in Records
    BY ResultsAssumption DEF Drawn
<1> QED BY <1>1, <1>2 DEF Cluster, MembersOf

\* All records of a firewall are of a firewall or of no known type.
LEMMA FirewallCluster ==
    ASSUME FirewallsIdentified, Drawn, FusionInv, NEW n, Kind(Cluster(n)) = "firewall"
    PROVE  /\ \A i \in MembersOf(records, root, n) : records[i].kind \in {"firewall", "unknown"}
           /\ \E r \in Cluster(n) : Identified(r)
<1>1. PICK r \in Cluster(n) : r.kind = "firewall"
    BY ClustersAreRecords, KindIsSeen
<1>2. PICK k \in MembersOf(records, root, n) : r = records[k]
    BY ClustersAreRecords
<1>3. Identified(r)
    BY <1>1, <1>2 DEF FirewallsIdentified, Drawn, MembersOf
<1>4. \A i \in MembersOf(records, root, n) : Compatible("firewall", records[i].kind)
    BY <1>1, <1>2, OfTheClusters DEF FusionInv, Coherence, Coherent
<1>5. \A l : Compatible("firewall", l) => l \in {"firewall", "unknown"}
    BY DEF Compatible, Families
<1> QED BY <1>1, <1>3, <1>4, <1>5

LEMMA CalledByItsName ==
    \A g, f, id : CalledBy(g, f, id) => id[1] = f
BY DEF CalledBy

LEMMA FirewallIdsDiffer ==
    ASSUME FirewallsIdentified, Drawn, FusionInv, Refused, Fused, NEW m, NEW n,
           Kind(Cluster(m)) = "firewall", Kind(Cluster(n)) = "firewall",
           CanonicalId(Cluster(m)) = CanonicalId(Cluster(n))
    PROVE  m = n
<1> SUFFICES ASSUME m # n PROVE FALSE
    OBVIOUS
<1> DEFINE g == Cluster(m)
           h == Cluster(n)
           id == CanonicalId(g)
<1>1. /\ \A r \in g : \E i \in MembersOf(records, root, m) : r = records[i]
      /\ \A r \in h : \E i \in MembersOf(records, root, n) : r = records[i]
      /\ \A i \in MembersOf(records, root, m) : records[i] \in g
      /\ \A i \in MembersOf(records, root, n) : records[i] \in h
      /\ g \in SUBSET Records /\ h \in SUBSET Records
    BY ClustersAreRecords
<1>2. \A i \in MembersOf(records, root, m), j \in MembersOf(records, root, n) :
          Compatible(records[i].kind, records[j].kind)
    BY FirewallCluster DEF Compatible
<1>3. \A x, y \in SerialsOf(records, root, m) : x = y
    BY OfTheClusters DEF FusionInv, Coherence, Coherent
<1>4. \A x, y \in SerialsOf(records, root, n) : x = y
    BY OfTheClusters DEF FusionInv, Coherence, Coherent
<1>5. /\ SerialsOf(records, root, m) = {r.serial : r \in g} \ {None}
      /\ SerialsOf(records, root, n) = {r.serial : r \in h} \ {None}
    BY <1>1 DEF SerialsOf
<1>6. ASSUME SerialsOf(records, root, m) = SerialsOf(records, root, n)
      PROVE  \A r \in g, s \in h : ~Matches(r, s)
    <2>1. UnitableOf(records, root, m, n)
        BY <1>2, <1>6 DEF UnitableOf
    <2> QED BY <1>1, <2>1, NothingIsLeft
<1>7. \A r \in g, s \in h : Compatible(r.kind, s.kind)
    BY <1>1, <1>2
<1> HIDE DEF g, h
<1>8. CASE CalledBy(g, "serial", id) /\ CalledBy(h, "serial", id)
    <2>1. PICK r \in g : r.serial # None /\ id = <<"serial", r.serial, None>>
        BY <1>8 DEF CalledBy
    <2>2. PICK s \in h : s.serial # None /\ id = <<"serial", s.serial, None>>
        BY <1>8 DEF CalledBy
    <2>3. r.serial = s.serial
        BY <2>1, <2>2
    <2>4. SerialsOf(records, root, m) = SerialsOf(records, root, n)
        BY <1>3, <1>4, <1>5, <2>1, <2>2, <2>3
    <2>5. Matches(r, s)
        BY <1>7, <2>1, <2>2, <2>3 DEF Matches, Related, SameHardware, Same, Contradict, Differ
    <2> QED BY <1>6, <2>4, <2>5
<1>9. ASSUME Lacks(g, "serial"), Lacks(h, "serial")
      PROVE  /\ \A r \in g, s \in h : ~Matches(r, s)
             /\ \A r \in g, s \in h : ~Contradict(r, s)
    <2>1. (\A r \in g : r.serial = None) /\ (\A s \in h : s.serial = None)
        BY <1>9 DEF Lacks
    <2>2. SerialsOf(records, root, m) = SerialsOf(records, root, n)
        BY <1>5, <2>1
    <2> QED BY <1>6, <1>7, <2>1, <2>2 DEF Contradict, Differ
<1>10. CASE /\ Lacks(g, "serial") /\ Lacks(h, "serial")
            /\ CalledBy(g, "mac", id) /\ CalledBy(h, "mac", id)
    <2>1. PICK r \in g : r.mac # None /\ id = <<"mac", r.mac, None>>
        BY <1>10 DEF CalledBy
    <2>2. PICK s \in h : s.mac # None /\ id = <<"mac", s.mac, None>>
        BY <1>10 DEF CalledBy
    <2>3. r.mac = s.mac
        BY <2>1, <2>2
    <2> QED BY <1>9, <1>10, <2>1, <2>3 DEF Matches, Related, SameHardware, Same
<1>11. CASE /\ Lacks(g, "serial") /\ Lacks(h, "serial")
            /\ CalledBy(g, "host", id) /\ CalledBy(h, "host", id)
    <2>1. PICK r \in g : r.host # None /\ r.site # None /\ id = <<"host", r.host, r.site>>
        BY <1>11 DEF CalledBy
    <2>2. PICK s \in h : s.host # None /\ s.site # None /\ id = <<"host", s.host, s.site>>
        BY <1>11 DEF CalledBy
    <2>3. r.host = s.host /\ r.site = s.site
        BY <2>1, <2>2
    <2> QED BY <1>9, <1>11, <2>1, <2>3 DEF Matches, Related, SameAddress, SameSite, Same
<1>12. CASE /\ Lacks(g, "serial") /\ Lacks(h, "serial")
            /\ CalledBy(g, "ip", id) /\ CalledBy(h, "ip", id)
    <2>1. PICK r \in g : r.ip # None /\ r.site # None /\ id = <<"ip", r.ip, r.site>>
        BY <1>12 DEF CalledBy
    <2>2. PICK s \in h : s.ip # None /\ s.site # None /\ id = <<"ip", s.ip, s.site>>
        BY <1>12 DEF CalledBy
    <2>3. r.ip = s.ip /\ r.site = s.site
        BY <2>1, <2>2
    <2> QED BY <1>9, <1>12, <2>1, <2>3 DEF Matches, Related, SameAddress, SameSite, Same
<1>13. CASE \/ /\ Lacks(g, "serial") /\ Lacks(g, "mac") /\ Lacks(g, "host") /\ Lacks(g, "ip")
            \/ /\ Lacks(h, "serial") /\ Lacks(h, "mac") /\ Lacks(h, "host") /\ Lacks(h, "ip")
    <2>1. (\E r \in g : Identified(r)) /\ (\E s \in h : Identified(s))
        BY FirewallCluster DEF g, h
    <2> QED BY <1>13, <2>1 DEF Lacks, Identified
<1>14. /\ \/ CalledBy(g, "serial", id)
          \/ Lacks(g, "serial") /\ (CalledBy(g, "mac", id) \/ CalledBy(g, "host", id) \/ CalledBy(g, "ip", id))
          \/ /\ Lacks(g, "serial") /\ Lacks(g, "mac") /\ Lacks(g, "host") /\ Lacks(g, "ip")
       /\ \/ CalledBy(h, "serial", id)
          \/ Lacks(h, "serial") /\ (CalledBy(h, "mac", id) \/ CalledBy(h, "host", id) \/ CalledBy(h, "ip", id))
          \/ /\ Lacks(h, "serial") /\ Lacks(h, "mac") /\ Lacks(h, "host") /\ Lacks(h, "ip")
    <2>1. CanonicalId(h) = id
        BY DEF g, h
    <2> QED BY <1>1, <2>1, CanonicalIdIsOfARecord
<1> HIDE DEF id
<1> QED BY <1>8, <1>10, <1>11, <1>12, <1>13, <1>14, CalledByItsName

-----------------------------------------------------------------------------
(* An offline firewall on its way to the board.                            *)

\* The connector c has completely seen the offline firewall a of an enabled site.
SeenDown(a, c) ==
    /\ a \in AssetsNow /\ a.kind = "firewall" /\ a.status = "offline" /\ a.site \in Enabled
    /\ c \in a.sources \cap config /\ "firewall" \in Packs[c]
    /\ scene.runs[c].source = "success" /\ scene.runs[c].outcome # "skipped"

SiteNow(s) == SiteContext(StateNow({}), OperationsNow, Registry(config), ManifestNow, s)

LEMMA FirewallConnectors ==
    ASSUME NEW c \in DOMAIN Packs, "firewall" \in Packs[c]
    PROVE  c \in {"fortigate", "paloalto"}
BY DEF Packs

LEMMA StatesHold ==
    ASSUME NEW items
    PROVE  /\ StateNow(items).assets = AssetsNow
           /\ StateNow(items).collectors = CollectorRecords(scene.runs, AssetsNow)
           /\ DOMAIN StateNow(items).estate = Enabled
BY DEF StateNow, InfrastructureState, EstateSites

\* The enabled collector c, whose run is recorded, has seen the asset a of an
\* enabled site.
SeenBy(a, c) ==
    /\ a \in AssetsNow /\ a.site \in Enabled
    /\ c \in a.sources \cap config /\ scene.runs[c].source # "none"

\* Its run is known at the site of the asset.
LEMMA CollectorIsRelevant ==
    ASSUME Seen, NEW a, NEW c, SeenBy(a, c)
    PROVE  /\ c \in SiteNow(a.site).enabled
           /\ Packs[c] \subseteq SiteNow(a.site).capabilities
           /\ a \in SiteNow(a.site).assets
           /\ CollectorRecords(scene.runs, AssetsNow)[c] \in SiteNow(a.site).collectors
           /\ SiteNow(a.site).manifest = ManifestNow
<1>1. c \in DOMAIN scene.runs
    BY ScenesAssumption DEF Seen, Evidence, SeenBy
<1> DEFINE known == StateNow({}).collectors
<1>2. known = CollectorRecords(scene.runs, AssetsNow)
    BY StatesHold
<1>3. c \in DOMAIN known
    BY <1>1, <1>2 DEF CollectorRecords, SeenBy
<1>4. a.site \in known[c].sites
    BY <1>2, <1>3 DEF CollectorRecords, SeenBy
<1> HIDE DEF known
<1>5. c \in Relevant(StateNow({}), Registry(config), a.site)
    BY <1>3, <1>4 DEF Relevant, Registry, SeenBy, known
<1>6. Registry(config).offers[c] = Packs[c]
    BY DEF Registry, SeenBy
<1>7. a \in {b \in StateNow({}).assets : b.site = a.site}
    BY StatesHold DEF SeenBy
<1> QED BY <1>2, <1>5, <1>6, <1>7 DEF SiteNow, SiteContext, SeenBy, known

LEMMA ConnectorIsRelevant ==
    ASSUME Seen, NEW a, NEW c, SeenDown(a, c)
    PROVE  /\ c \in SiteNow(a.site).enabled
           /\ "firewall" \in SiteNow(a.site).capabilities
           /\ a \in SiteNow(a.site).assets
           /\ SiteNow(a.site).manifest = ManifestNow
BY CollectorIsRelevant DEF SeenBy, SeenDown

\* Its manifest says of the firewalls that they are collected, or that they failed.
LEMMA FirewallsAreCollected ==
    ASSUME Seen, NEW a, NEW c, SeenDown(a, c)
    PROVE  \E i \in ManifestNow[c].items :
              i.service = "Security" /\ i.support = "supported" /\ i.state \in {"collected", "failed"}
<1>1. c \in {"fortigate", "paloalto"} /\ c \in DOMAIN scene.runs
    BY ScenesAssumption, FirewallConnectors DEF Seen, Evidence, SeenDown
<1> DEFINE run == scene.runs[c]
           d == <<"firewall_health", "supported", "Security">>
           i == [id |-> d[1], support |-> d[2], service |-> d[3],
                 state |-> CollectionState(d[1], d[2], c \in config, run)]
<1>2. d \in Manifests[c] /\ c \in DOMAIN Manifests
    BY <1>1 DEF Manifests, Declared
<1>3. /\ run.outcome \in {"none", "success", "failed"} /\ DOMAIN run.stated = {}
      /\ run.source = "success" /\ c \in config
    BY <1>1, ScenesAssumption DEF Seen, Evidence, SeenDown
<1>4. i \in Items(c, c \in config, run)
    BY <1>2, Zenon DEF Items
<1>5. ManifestNow[c].items = Items(c, c \in config, run)
    BY <1>2 DEF ManifestNow, Manifest
<1> HIDE DEF run
<1>6. CollectionState("firewall_health", "supported", c \in config, run) \in {"collected", "failed"}
    BY <1>3 DEF CollectionState, OfDiscovery
<1> QED BY <1>4, <1>5, <1>6

\* The service of the site is Critical, whatever else is found of it.
LEMMA SecurityIsCritical ==
    ASSUME Seen, NEW a, NEW c, SeenDown(a, c)
    PROVE  EvaluateService(SiteNow(a.site), "Security") = "Critical"
<1> DEFINE context == SiteNow(a.site)
           seen == Collections(Applicable(context, "Security"))
<1>1. /\ c \in context.enabled /\ "firewall" \in context.capabilities
      /\ a \in context.assets /\ context.manifest = ManifestNow
    BY ConnectorIsRelevant
<1>2. c \in DOMAIN ManifestNow
    BY FirewallConnectors DEF ManifestNow, Manifest, Manifests, Seen, SeenDown
<1> HIDE DEF context
<1>3. "collected" \in seen \/ "failed" \in seen
    <2>1. PICK i \in ManifestNow[c].items :
              i.service = "Security" /\ i.support = "supported" /\ i.state \in {"collected", "failed"}
        BY FirewallsAreCollected
    <2>2. i \in Applicable(context, "Security")
        BY <1>1, <1>2, <2>1 DEF Applicable, DeclaredFor
    <2> QED BY <2>1, <2>2 DEF Collections
<1>4. Security(context) = "Critical"
    <2>1. a \in Offline({b \in context.assets : b.kind = "firewall"})
        BY <1>1 DEF Offline, SeenDown
    <2> QED BY <2>1 DEF Security
<1>5. Enabling["Security"] = "firewall"
    BY DEF Enabling
<1> HIDE DEF seen
<1> QED BY <1>1, <1>3, <1>4, <1>5 DEF EvaluateService, context, seen

\* So is that of the estate, with the overall health of both.
LEMMA ScopesAreCritical ==
    ASSUME Seen, NEW a, NEW c, SeenDown(a, c), NEW scope \in {AllSites, a.site}
    PROVE  Overall(StatusesOf(ServicesNow, scope)) = "Critical"
<1>1. "Security" \in Services
    BY DEF Services, Enabling
<1>2. /\ ServicesNow.sites = [s \in Enabled |-> StatusOfServices(SiteNow(s))]
      /\ ServicesNow.estate = [s \in Services |-> Rollup(ServicesNow.sites, s)]
    BY DEF ServicesNow, Health, SiteNow, SeenDown
<1>3. a.site \in Enabled /\ a.site # AllSites
    BY SiteAssumption DEF SeenDown, AllSites
<1>4. ServicesNow.sites[a.site]["Security"] = "Critical"
    BY <1>1, <1>2, <1>3, SecurityIsCritical DEF StatusOfServices
<1>5. Rollup(ServicesNow.sites, "Security") = "Critical"
    BY <1>2, <1>3, <1>4 DEF Rollup, Worst
<1>6. /\ DOMAIN StatusesOf(ServicesNow, scope) = Services
      /\ StatusesOf(ServicesNow, scope)["Security"] = "Critical"
    <2>1. CASE scope = AllSites
        BY <1>1, <1>2, <1>5, <2>1 DEF StatusesOf
    <2>2. CASE scope = a.site
        BY <1>2, <1>3, <1>4, <2>2 DEF StatusesOf, StatusOfServices
    <2> QED BY <2>1, <2>2
<1>7. "Critical" \in EnabledStatuses(StatusesOf(ServicesNow, scope))
    BY <1>1, <1>6 DEF EnabledStatuses, Range
<1> QED BY <1>7 DEF Overall

\* No readiness outweighs it.
LEMMA ReadinessIsRanked ==
    ASSUME NEW enabled, NEW m, NEW collectors, NEW assets, NEW stale
    PROVE  Evaluate(enabled, m, collectors, assets, stale).overall.state \in DOMAIN Precedence
<1>1. \A states, succeeded : Observability(enabled, states, succeeded).state \in DOMAIN Precedence
    BY DEF Observability, Precedence
<1>2. \A observability : Infrastructure(observability, assets).state \in DOMAIN Precedence
    BY DEF Infrastructure, Precedence
<1>3. \A x, y : x.state \in DOMAIN Precedence /\ y.state \in DOMAIN Precedence
                  => Aggregate(x, y).state \in DOMAIN Precedence
    BY DEF Aggregate
<1> HIDE DEF Precedence
<1> QED BY <1>1, <1>2, <1>3 DEF Evaluate

LEMMA CriticalStays ==
    ASSUME NEW told, told.overall.state \in DOMAIN Precedence
    PROVE  ScopeHealth("Critical", told) = "Critical"
<1>1. \A x \in DOMAIN Precedence : Precedence[x] \in 0..5
    BY DEF Precedence
<1>2. OperationalRank("Critical") = 5
    BY DEF OperationalRank
<1> QED BY <1>1, <1>2 DEF ScopeHealth

\* The item of an offline firewall.
DownItem(a) == OfAsset("issue", "firewall.unavailable", "Firewall", "Critical", a, "none")

LEMMA FirewallItems ==
    ASSUME NEW s, NEW e, NEW i \in Operations(s, e), i.rule = "firewall.unavailable"
    PROVE  \E b \in Offline(s.assets) : b.kind = "firewall" /\ i = DownItem(b)
<1>1. i \notin CollectorItems(s, e)
    BY DEF CollectorItems, OfCollector, Item
<1>2. i \notin PaloAltoItems(s.assets)
    BY DEF PaloAltoItems, OfAsset, Item
<1>3. i \notin PaperCutItems(s.assets)
    BY DEF PaperCutItems, OfAsset, Item
<1>4. i \notin WanItems(s)
    BY DEF WanItems, Item
<1>5. i \in OfflineItems(s.assets)
    BY <1>1, <1>2, <1>3, <1>4 DEF Operations
<1> QED BY <1>5 DEF OfflineItems, DownItem, OfAsset, Item

LEMMA AssetsHaveIds ==
    ASSUME Drawn, NEW n
    PROVE  CanonicalId(Cluster(n)) # NoId
<1>1. Cluster(n) \in SUBSET Records
    BY ClustersAreRecords
<1>2. CanonicalId(Cluster(n))[1] \in {"serial", "mac", "host", "ip", "source"}
    BY <1>1, CanonicalIdIsOfARecord, CalledByItsName
<1> QED BY <1>2 DEF NoId

\* One row of the work list stands for it alone.
LEMMA OutageIsListed ==
    ASSUME FirewallsIdentified, Seen, Fused, Assets = AssetsNow, NEW a, NEW c, SeenDown(a, c)
    PROVE  DownItem(a) \in Firsts(Listed(OperationsNow, Registry(config)))
<1> DEFINE items == Listed(OperationsNow, Registry(config))
           it == DownItem(a)
           k == ActionKey(it)
           Alike == {i \in items : ActionKey(i) = k}
<1>1. PICK m \in Range(root) : a = Asset(Cluster(m))
    BY DEF SeenDown, Assets
<1>2. a.id = CanonicalId(Cluster(m)) /\ a.id # NoId /\ Kind(Cluster(m)) = "firewall"
    BY <1>1, AssetsHaveIds DEF Asset, SeenDown, Seen
<1>3. it \in OperationsNow
    <2>1. a \in Offline(StateNow({}).assets)
        BY StatesHold DEF Offline, SeenDown
    <2>2. it \in OfflineItems(StateNow({}).assets)
        BY <2>1 DEF OfflineItems, DownItem, SeenDown
    <2> QED BY <2>2 DEF OperationsNow, Operations
<1>4. /\ it.kind = "issue" /\ it.rule = "firewall.unavailable" /\ it.category = "Firewall"
      /\ it.severity = "Critical" /\ it.id = a.id
    BY DEF DownItem, OfAsset, Item
<1>5. "firewall" \in CapabilitiesOf(Registry(config))
    BY DEF CapabilitiesOf, Registry, SeenDown
<1>6. it \in items
    BY <1>3, <1>4, <1>5 DEF Listed, Domains
<1>7. k = <<"firewall.unavailable", a.id>>
    BY <1>2, <1>4 DEF ActionKey
<1>8. ASSUME NEW i \in Alike
      PROVE  i = it
    <2>1. i.rule = "firewall.unavailable"
        BY <1>7 DEF ActionKey
    <2>2. PICK b \in Offline(StateNow({}).assets) : b.kind = "firewall" /\ i = DownItem(b)
        BY <2>1, FirewallItems DEF Listed, OperationsNow
    <2>3. PICK n \in Range(root) : b = Asset(Cluster(n))
        BY <2>2, StatesHold DEF Offline, Assets
    <2>4. b.id = CanonicalId(Cluster(n)) /\ b.id # NoId /\ Kind(Cluster(n)) = "firewall"
        BY <2>2, <2>3, AssetsHaveIds DEF Asset, Seen
    <2>5. i.id = b.id
        BY <2>2 DEF DownItem, OfAsset, Item
    <2>6. ActionKey(i) = <<"firewall.unavailable", b.id>>
        BY <2>1, <2>4, <2>5 DEF ActionKey
    <2>7. b.id = a.id
        BY <1>7, <2>6
    <2>8. n = m
        BY <1>2, <2>4, <2>7, FirewallIdsDiffer DEF Seen, Fusing
    <2> QED BY <1>1, <2>2, <2>3, <2>8
<1>9. Alike = {it}
    BY <1>6, <1>8
<1> DEFINE Ahead(i, j) ==
               \/ i.kind = "issue" /\ j.kind = "risk"
               \/ i.kind = j.kind /\ SeverityRank[i.severity] >= SeverityRank[j.severity]
<1>10. Ahead(it, it)
    BY <1>4 DEF SeverityRank
<1> HIDE DEF items, it, Ahead
<1>11. (CHOOSE i \in Alike : \A j \in Alike : Ahead(i, j)) = it
    BY <1>9, <1>10
<1>12. (CHOOSE i \in Alike : \A j \in Alike : Ahead(i, j)) \in Firsts(items)
    BY <1>6 DEF Firsts, Ahead
<1> QED BY <1>11, <1>12 DEF items, it

\* A row of the highest severity is shown, unless all that are shown are of it.
LEMMA CriticalRowIsShown ==
    ASSUME NEW items, NEW e, NEW scope, NEW it \in Firsts(Listed(items, Registry(e))),
           In(scope, it), it.severity = "Critical"
    PROVE  LET actions == ActionRows(items, Registry(e), scope)
           IN  \/ it \in actions
               \/ /\ Cardinality(actions) = ActionLimit
                  /\ \A i \in actions : i.severity = "Critical"
<1> DEFINE rows == {i \in Firsts(Listed(items, Registry(e))) : In(scope, i)}
           actions == ActionRows(items, Registry(e), scope)
<1>1. it \in rows
    OBVIOUS
<1>2. \A i : RowRank(i) >= 5 => i.severity = "Critical"
    BY DEF RowRank, SeverityRank
<1>3. RowRank(it) = 5
    BY DEF RowRank, SeverityRank
<1>4. actions = IF MostSevere(rows) = {} THEN rows ELSE CHOOSE S \in MostSevere(rows) : TRUE
    BY DEF ActionRows
<1> HIDE DEF rows, actions
<1>5. CASE MostSevere(rows) = {}
    BY <1>1, <1>4, <1>5 DEF actions
<1>6. CASE MostSevere(rows) # {} /\ it \notin actions
    <2>1. actions \in MostSevere(rows)
        BY <1>4, <1>6
    <2>2. /\ Cardinality(actions) = ActionLimit
          /\ \A i \in actions : RowRank(i) >= RowRank(it)
        BY <1>1, <1>6, <2>1 DEF MostSevere
    <2> QED BY <1>2, <1>3, <2>2 DEF actions
<1> QED BY <1>5, <1>6 DEF actions

\* infrastructure.fuse to wallboard.evaluate: once a pass has been made of the
\* evidence of now, an offline firewall that a complete run has seen makes its site
\* and the estate Critical and is in the work list of both, unless the list is full
\* of what is as severe, however long it may be.  Firewalls that no
\* serial number, mac, or name or address at a site tells apart may share a row.
THEOREM OutagesAreShown ==
    ASSUME FirewallsIdentified
    PROVE  Spec => []OutageIsShown
<1>1. EstateInv => OutageIsShown
    <2> SUFFICES ASSUME EstateInv, Quiet, NEW a \in Outages, NEW scope \in {AllSites, a.site}
                 PROVE  /\ board[scope].overall = "Critical"
                        /\ \/ \E i \in board[scope].actions : i.id = a.id /\ i.severity = "Critical"
                           \/ /\ Cardinality(board[scope].actions) = ActionLimit
                              /\ \A i \in board[scope].actions : i.severity = "Critical"
        BY DEF OutageIsShown
    <2>1. /\ Seen /\ records = RecordsNow /\ Fused
          /\ \E items : board = BoardNow(items)
        BY DEF EstateInv, Told, RecordsTold, FusedTold, BoardTold, Quiet, Idle
    <2>2. Assets = AssetsNow
        BY <2>1, FusedAgrees DEF Seen
    <2>3. PICK c : SeenDown(a, c)
        BY <2>2 DEF Outages, Placed, SeenDown
    <2>4. PICK items : board = BoardNow(items)
        BY <2>1
    <2>5. scope \in Scopes(StateNow(items))
        BY <2>3, StatesHold DEF Scopes, SeenDown
    <2>6. Overall(StatusesOf(ServicesNow, scope)) = "Critical"
        BY <2>1, <2>3, ScopesAreCritical
    <2>7. ReadinessNow.overall.state \in DOMAIN Precedence
        BY ReadinessIsRanked DEF ReadinessNow, PublishedReadiness
    <2>8. board[scope].overall = "Critical"
        BY <2>4, <2>5, <2>6, <2>7, CriticalStays DEF BoardNow, Board
    <2>9. board[scope].actions = ActionRows(OperationsNow, Registry(config), scope)
        BY <2>4, <2>5 DEF BoardNow, Board
    <2>10. DownItem(a) \in Firsts(Listed(OperationsNow, Registry(config)))
        BY <2>1, <2>2, <2>3, OutageIsListed
    <2>11. /\ DownItem(a).id = a.id /\ DownItem(a).severity = "Critical"
           /\ DownItem(a).site = a.site
        BY DEF DownItem, OfAsset, Item
    <2>12. In(scope, DownItem(a))
        BY <2>11 DEF In
    <2>13. \/ DownItem(a) \in board[scope].actions
           \/ /\ Cardinality(board[scope].actions) = ActionLimit
              /\ \A i \in board[scope].actions : i.severity = "Critical"
        BY <2>9, <2>10, <2>11, <2>12, CriticalRowIsShown
    <2> QED BY <2>8, <2>11, <2>13
<1> QED BY <1>1, EstateInvHolds, PTL

-----------------------------------------------------------------------------
(* What a Healthy estate owes to its evidence.                             *)

\* The last words of a readiness: Healthy is said of no other state, and of no
\* estate whose collectors are not.
LEMMA HealthyIsSaidOfHealthy ==
    ASSUME NEW enabled, NEW m, NEW collectors, NEW assets, NEW stale, NEW told,
           told = Evaluate(enabled, m, collectors, assets, stale)
    PROVE  /\ told.overall.label = "Healthy" => told.overall.state = "healthy"
           /\ told.overall.state = "healthy" => told.observability.state = "healthy"
<1>1. /\ told.observability.state \in DOMAIN Precedence
      /\ told.observability.label = "Healthy" => told.observability.state = "healthy"
    BY DEF Evaluate, Observability, Precedence
<1>2. /\ told.infrastructure.state \in DOMAIN Precedence
      /\ told.infrastructure.label = "Healthy" => told.infrastructure.state = "healthy"
    BY DEF Evaluate, Infrastructure, Precedence
<1>3. told.overall = Aggregate(told.observability, told.infrastructure)
    BY DEF Evaluate
<1>4. \A x \in DOMAIN Precedence : Precedence[x] \in Nat /\ (Precedence[x] = 0 => x = "healthy")
    BY DEF Precedence
<1>5. Precedence["healthy"] = 0
    BY DEF Precedence
<1> HIDE DEF Precedence
<1> QED BY <1>1, <1>2, <1>3, <1>4, <1>5 DEF Aggregate

LEMMA HealthyScope ==
    ASSUME NEW status, NEW told,
           told.overall.state \in DOMAIN Precedence,
           told.overall.label = "Healthy" => told.overall.state = "healthy",
           ScopeHealth(status, told) = "Healthy"
    PROVE  status = "Healthy" /\ told.overall.state = "healthy"
<1>1. \A x \in DOMAIN Precedence : Precedence[x] \in Nat /\ (Precedence[x] = 0 => x = "healthy")
    BY DEF Precedence
<1>2. Precedence["healthy"] = 0
    BY DEF Precedence
<1>3. OperationalRank(status) \in Nat /\ (status = "Healthy" => OperationalRank(status) = 0)
    BY DEF OperationalRank
<1> HIDE DEF Precedence
<1> QED BY <1>1, <1>2, <1>3 DEF ScopeHealth

\* A healthy observability has no collector that is unavailable or warns.
LEMMA HealthyCollectors ==
    ASSUME NEW enabled, NEW m, NEW collectors, NEW assets, NEW stale, NEW c \in enabled,
           Evaluate(enabled, m, collectors, assets, stale).observability.state = "healthy"
    PROVE  CollectorState(Record(m, collectors, c), stale) \notin {"unavailable", "warning"}
<1> DEFINE record == [x \in enabled |-> Record(m, collectors, x)]
           states == [x \in enabled |-> CollectorState(record[x], stale)]
           succeeded == \E x \in enabled : record[x].succeeded
<1>1. Evaluate(enabled, m, collectors, assets, stale).observability
          = Observability(enabled, states, succeeded)
    BY Zenon DEF Evaluate
<1>2. states[c] \notin {"unavailable", "warning"}
    <2> HIDE DEF states, succeeded
    <2> QED BY <1>1 DEF Observability
<1> QED BY <1>2

\* A Healthy overall status is that of Healthy services.
LEMMA HealthyServices ==
    ASSUME NEW statuses, Overall(statuses) = "Healthy", NEW s \in DOMAIN statuses
    PROVE  statuses[s] \notin {"Critical", "Warning", "Unknown"}
<1>1. statuses[s] \in Range(statuses)
    BY DEF Range
<1> QED BY <1>1 DEF Overall, EnabledStatuses

LEMMA HealthyRollup ==
    ASSUME NEW sites, NEW service, NEW s \in DOMAIN sites,
           Rollup(sites, service) \notin {"Critical", "Warning", "Unknown"}
    PROVE  sites[s][service] \notin {"Critical", "Warning", "Unknown"}
<1> DEFINE seen == {sites[x][service] : x \in DOMAIN sites} \ {"Not_Enabled"}
<1>1. Worst(seen) \notin {"Critical", "Warning", "Unknown"}
    BY DEF Rollup
<1>2. sites[s][service] \in {"Critical", "Warning", "Unknown"} => sites[s][service] \in seen
    OBVIOUS
<1> HIDE DEF seen
<1> QED BY <1>1, <1>2 DEF Worst

\* The run of an enabled collector with a manifest, as its readiness is told it.
LEMMA RunIsTold ==
    ASSUME Seen, NEW c \in config \cap DOMAIN Manifests, ReadinessNow.observability.state = "healthy"
    PROVE  /\ Attempted(c) => scene.runs[c].age <= Stale
           /\ ManifestNow[c].execution \notin {"failed", "partial"}
<1> DEFINE run == scene.runs[c]
<1>1. run.age \in Nat
    BY ScenesAssumption DEF Seen, Evidence
<1>2. c \in DOMAIN ManifestNow
    BY DEF ManifestNow, Manifest
<1>3. ManifestNow[c].age = run.age /\ (ManifestNow[c].attempted <=> Attempted(c))
    BY DEF ManifestNow, Manifest, Attempted
<1> DEFINE r == Record(ManifestNow, StateNow({}).collectors, c)
<1>4. /\ r.status = StatusOf(ManifestNow[c].execution)
      /\ r.attempted = ManifestNow[c].attempted /\ r.age = ManifestNow[c].age
    BY <1>2 DEF Record, FromManifest
<1>5. CollectorState(r, Stale) \notin {"unavailable", "warning"}
    BY HealthyCollectors DEF ReadinessNow, PublishedReadiness
<1> HIDE DEF r, run
<1>6. r.status \notin {"failed", "warning"} /\ ~(r.attempted /\ r.age > Stale)
    BY <1>5 DEF CollectorState
<1>7. ManifestNow[c].execution \notin {"failed", "partial"}
    BY <1>4, <1>6 DEF StatusOf
<1>8. Attempted(c) => run.age <= Stale
    BY <1>1, <1>3, <1>4, <1>6 DEF Stale
<1> QED BY <1>7, <1>8 DEF run

\* One capability of which the collector has stated nothing tells of the failure.
LEMMA FailureIsTold ==
    ASSUME Seen, NEW c \in config \cap DOMAIN Manifests, ~Silenced(c),
           scene.runs[c].outcome = "failed" \/ scene.runs[c].source = "partial"
    PROVE  ManifestNow[c].execution \in {"failed", "partial"}
<1> DEFINE run == scene.runs[c]
<1>1. PICK d \in Manifests[c] :
          /\ d[2] # "unsupported" /\ d[1] \notin OfDiscovery \cup WithoutImpact[c]
          /\ d[1] \notin DOMAIN run.stated
    BY DEF Silenced
<1> DEFINE i == [id |-> d[1], support |-> d[2], service |-> d[3],
                 state |-> CollectionState(d[1], d[2], TRUE, run)]
<1>2. i \in Items(c, TRUE, run)
    BY Zenon DEF Items
<1>3. CollectionState(d[1], d[2], TRUE, run) \in {"failed", "partial"}
    <2>1. run.outcome \in {"none", "success", "failed", "skipped"}
        BY ScenesAssumption DEF Seen, Evidence
    <2>2. run.outcome = "failed" \/ run.source = "partial"
        OBVIOUS
    <2> HIDE DEF run
    <2> QED BY <1>1, <2>1, <2>2 DEF CollectionState
<1>4. i.id = d[1] /\ i.state \in {"failed", "partial"}
    BY <1>3
<1> HIDE DEF run, i
<1>5. Execution(c, TRUE, Items(c, TRUE, run)) \in {"failed", "partial"}
    BY <1>1, <1>2, <1>4 DEF Execution
<1>6. ManifestNow[c].execution = Execution(c, c \in config, Items(c, c \in config, run))
    BY DEF ManifestNow, Manifest, run
<1>7. (c \in config) = TRUE
    OBVIOUS
<1> QED BY <1>5, <1>6, <1>7

\* No service of a site that a Healthy estate rests on is worse.
LEMMA HealthySites ==
    ASSUME NEW s \in Enabled, Overall(StatusesOf(ServicesNow, AllSites)) = "Healthy",
           NEW service \in Services
    PROVE  EvaluateService(SiteNow(s), service) \notin {"Critical", "Warning", "Unknown"}
<1>1. /\ ServicesNow.sites = [x \in Enabled |-> StatusOfServices(SiteNow(x))]
      /\ ServicesNow.estate = [x \in Services |-> Rollup(ServicesNow.sites, x)]
    BY DEF ServicesNow, Health, SiteNow
<1>2. StatusesOf(ServicesNow, AllSites) = ServicesNow.estate
    BY DEF StatusesOf
<1>3. ServicesNow.estate[service] \notin {"Critical", "Warning", "Unknown"}
    BY <1>1, <1>2, HealthyServices
<1>4. Rollup(ServicesNow.sites, service) \notin {"Critical", "Warning", "Unknown"}
    BY <1>1, <1>3
<1>5. ServicesNow.sites[s][service] \notin {"Critical", "Warning", "Unknown"}
    BY <1>1, <1>4, HealthyRollup
<1> QED BY <1>1, <1>5 DEF StatusOfServices

\* Monitoring tells of a discovery that failed or was partial.
LEMMA DiscoveryIsTold ==
    ASSUME Seen, NEW a, NEW c, SeenBy(a, c), scene.runs[c].source # "success"
    PROVE  EvaluateService(SiteNow(a.site), "Monitoring") \in {"Critical", "Warning"}
<1> DEFINE context == SiteNow(a.site)
           seen == Collections(Applicable(context, "Monitoring"))
           record == CollectorRecords(scene.runs, AssetsNow)[c]
<1>1. c \in DOMAIN scene.runs /\ scene.runs[c].source \in {"partial", "failed"}
    BY ScenesAssumption DEF Seen, Evidence, SeenBy
<1>2. record.status \in {"failed", "warning"}
    BY <1>1 DEF CollectorRecords, SourceStatus
<1>3. "telemetry" \in Packs[c]
    BY <1>1, ScenesAssumption DEF Seen, Evidence, Packs
<1>4. record \in context.collectors /\ "telemetry" \in context.capabilities
    BY <1>3, CollectorIsRelevant
<1> HIDE DEF context, record
<1>5. record.status \in {x.status : x \in context.collectors}
    BY <1>4
<1>6. Generic(context, "Monitoring") \in {"Critical", "Warning"}
    BY <1>2, <1>5 DEF Generic
<1>7. Enabling["Monitoring"] = "telemetry"
    BY DEF Enabling
<1> HIDE DEF seen
<1> QED BY <1>4, <1>6, <1>7 DEF EvaluateService, context, seen

\* Security tells of an offline firewall, whatever the run that has seen it.
LEMMA OfflineIsTold ==
    ASSUME Seen, NEW a, NEW c, SeenBy(a, c), "firewall" \in Packs[c],
           a.kind = "firewall", a.status = "offline"
    PROVE  EvaluateService(SiteNow(a.site), "Security") \in {"Critical", "Warning"}
<1> DEFINE context == SiteNow(a.site)
           seen == Collections(Applicable(context, "Security"))
<1>1. a \in context.assets /\ "firewall" \in context.capabilities
    BY CollectorIsRelevant
<1> HIDE DEF context
<1>2. a \in Offline({b \in context.assets : b.kind = "firewall"})
    BY <1>1 DEF Offline
<1>3. Security(context) = "Critical"
    BY <1>2 DEF Security
<1>4. Enabling["Security"] = "firewall"
    BY DEF Enabling
<1> HIDE DEF seen
<1> QED BY <1>1, <1>3, <1>4 DEF EvaluateService, context, seen

\* What an asset carries comes from one of its records.
LEMMA ExtensionsAreSeen ==
    ASSUME NEW g \in SUBSET Records, Number(g, "extensions") # None
    PROVE  \E r \in g : r.extensions = Number(g, "extensions")
<1> DEFINE stated == {r \in g : r["extensions"] # None}
           Place(r) == <<1000 - Priority(r), SourceRank(r.source), r["extensions"]>>
           Ahead(r, s) == LET p == Place(r) q == Place(s)
                          IN  \/ p[1] < q[1]
                              \/ p[1] = q[1] /\ p[2] < q[2]
                              \/ p[1] = q[1] /\ p[2] = q[2] /\ p[3] <= q[3]
           a == [r \in stated |-> 1000 - Priority(r)]
           b == [r \in stated |-> SourceRank(r.source)]
           c == [r \in stated |-> r["extensions"]]
<1>1. a \in [stated -> Nat] /\ b \in [stated -> Nat] /\ c \in [stated -> Nat]
    BY RanksAreNaturals DEF Records
<1>2. Number(g, "extensions") = IF stated = {} THEN None
                ELSE (CHOOSE r \in stated : \A s \in stated : Ahead(r, s))["extensions"]
    BY Zenon DEF Number, Select
<1>3. stated # {}
    BY <1>2
<1>4. PICK r \in stated : \A s \in stated : Leads(a, b, c, r, s)
    <2> HIDE DEF stated, a, b, c
    <2> QED BY <1>1, <1>3, FirstOfThree
<1>5. ASSUME NEW s \in stated
      PROVE  Ahead(r, s)
    <2>1. a[r] = Place(r)[1] /\ b[r] = Place(r)[2] /\ c[r] = Place(r)[3]
        OBVIOUS
    <2>2. a[s] = Place(s)[1] /\ b[s] = Place(s)[2] /\ c[s] = Place(s)[3]
        OBVIOUS
    <2> HIDE DEF Place, a, b, c
    <2> QED BY <1>4, <2>1, <2>2 DEF Leads
<1> HIDE DEF Ahead
<1>6. (CHOOSE x \in stated : \A s \in stated : Ahead(x, s)) \in stated
    BY <1>5
<1> QED BY <1>2, <1>3, <1>6

LEMMA PayloadsAreTyped ==
    ASSUME Drawn, NEW a \in Assets, a.extensions # None
    PROVE  Payload(a) \in PayloadType
<1>1. PICK n : a = Asset(Cluster(n))
    BY DEF Assets
<1>2. Cluster(n) \in SUBSET Records /\ a.extensions = Number(Cluster(n), "extensions")
    BY <1>1, ClustersAreRecords DEF Asset
<1>3. PICK r \in Cluster(n) : r.extensions = a.extensions
    BY <1>2, ExtensionsAreSeen
<1>4. r \in UNION Results
    BY ClustersAreRecords DEF Drawn, MembersOf
<1>5. a.extensions \in 1..Len(Payloads)
    BY <1>3, <1>4, PayloadAssumption DEF None
<1> QED BY <1>5, PayloadAssumption DEF Payload

\* Internet tells of an uplink that is not known to be up.
LEMMA UplinkIsTold ==
    ASSUME Seen, Assets = AssetsNow, NEW a, NEW c, SeenBy(a, c), "firewall" \in Packs[c],
           a.extensions # None, NEW u \in Payload(a).wan,
           EvaluateService(SiteNow(a.site), "Internet") \notin {"Critical", "Warning", "Unknown"}
    PROVE  u.available = "up" /\ ~u.missing /\ u.age <= WanFreshness
<1> DEFINE context == SiteNow(a.site)
           supported == {i \in DeclaredFor(context, "Internet") : i.id = "wan_classification"}
           signal == [name |-> u.name, role |-> u.role, available |-> u.available,
                      missing |-> u.missing, age |-> u.age, site |-> a.site, sources |-> a.sources]
<1>1. u \in Uplinks
    BY PayloadsAreTyped DEF PayloadType, Seen, SeenBy
<1>2. c \in {"fortigate", "paloalto"} /\ "internet" \in Packs[c] /\ c \in DOMAIN ManifestNow
    <2>1. c \in {"fortigate", "paloalto"}
        BY FirewallConnectors DEF Seen, SeenBy
    <2> QED BY <2>1 DEF Packs, ManifestNow, Manifest, Manifests
<1>3. /\ c \in context.enabled /\ "internet" \in context.capabilities
      /\ context.manifest = ManifestNow
    BY <1>2, CollectorIsRelevant
<1>4. supported # {}
    <2> DEFINE d == <<"wan_classification", "conditional", "Internet">>
               i == [id |-> d[1], support |-> d[2], service |-> d[3],
                     state |-> CollectionState(d[1], d[2], c \in config, scene.runs[c])]
    <2>1. d \in Manifests[c]
        BY <1>2 DEF Manifests, Declared
    <2>2. i \in Items(c, c \in config, scene.runs[c])
        BY <2>1, Zenon DEF Items
    <2>3. i \in ManifestNow[c].items
        BY <1>2, <2>2 DEF ManifestNow, Manifest
    <2>4. i.service = "Internet" /\ i.id = "wan_classification"
        OBVIOUS
    <2> HIDE DEF i, context
    <2> QED BY <1>2, <1>3, <2>3, <2>4 DEF DeclaredFor
<1>5. signal \in context.wan
    <2>1. signal \in WanSignals(AssetsNow)
        BY DEF WanSignals, Extended, SeenBy
    <2>2. StateNow({}).wan = WanSignals(AssetsNow)
        BY DEF StateNow, InfrastructureState
    <2> HIDE DEF signal
    <2>3. signal.site = a.site
        BY DEF signal
    <2> QED BY <2>1, <2>2, <2>3 DEF SiteNow, SiteContext
<1>6. EvaluateService(context, "Internet") = Internet(context)
    <2>1. Enabling["Internet"] = "internet"
        BY DEF Enabling
    <2> QED BY <1>3, <2>1 DEF EvaluateService
<1> HIDE DEF context, supported
<1>7. Uplink(context, "failed" \in Collections(supported)) \notin {"Critical", "Warning", "Unknown"}
    BY <1>4, <1>5, <1>6 DEF Internet, context, supported
<1>8. /\ signal.available = u.available /\ signal.missing = u.missing /\ signal.age = u.age
    OBVIOUS
<1>9. /\ ~signal.missing /\ ~(signal.age > WanFreshness) /\ signal.available \notin {"down", "unknown"}
    <2> HIDE DEF signal
    <2> QED BY <1>5, <1>7 DEF Uplink
<1> QED BY <1>1, <1>8, <1>9 DEF Uplinks, WanFreshness

\* scheduler._operations_loop to wallboard.evaluate: once a pass has been made of the
\* evidence of now, a Healthy estate has no enabled collector that is stale, failed
\* or was partial without having stated all that counts itself, no failed discovery
\* behind an asset of a site, and there no offline firewall and no doubtful uplink.
THEOREM HealthyHolds == Spec => []HealthyIsEarned
<1>1. EstateInv => HealthyIsEarned
    <2> SUFFICES ASSUME EstateInv, Quiet, board[AllSites].overall = "Healthy"
                 PROVE  /\ \A c \in config \cap DOMAIN Manifests :
                             /\ Attempted(c) => scene.runs[c].age <= Stale
                             /\ ~Silenced(c) => /\ scene.runs[c].outcome # "failed"
                                                /\ scene.runs[c].source # "partial"
                        /\ \A a \in {a \in Assets : Placed(a)} :
                             \A c \in {c \in a.sources \cap config : scene.runs[c].source # "none"} :
                                 /\ scene.runs[c].source = "success"
                                 /\ "firewall" \in Packs[c] =>
                                      /\ ~(a.kind = "firewall" /\ a.status = "offline")
                                      /\ a.extensions # None =>
                                           \A u \in Payload(a).wan :
                                             u.available = "up" /\ ~u.missing /\ u.age <= WanFreshness
        BY Zenon DEF HealthyIsEarned
    <2>1. /\ Seen /\ records = RecordsNow /\ Fused
          /\ \E items : board = BoardNow(items)
        BY DEF EstateInv, Told, RecordsTold, FusedTold, BoardTold, Quiet, Idle
    <2>2. Assets = AssetsNow
        BY <2>1, FusedAgrees DEF Seen
    <2>3. PICK items : board = BoardNow(items)
        BY <2>1
    <2>4. AllSites \in Scopes(StateNow(items))
        BY DEF Scopes
    <2>5. ScopeHealth(Overall(StatusesOf(ServicesNow, AllSites)), ReadinessNow) = "Healthy"
        BY <2>3, <2>4 DEF BoardNow, Board
    <2>6. /\ ReadinessNow.overall.state \in DOMAIN Precedence
          /\ ReadinessNow.overall.label = "Healthy" => ReadinessNow.overall.state = "healthy"
          /\ ReadinessNow.overall.state = "healthy" => ReadinessNow.observability.state = "healthy"
        BY ReadinessIsRanked, HealthyIsSaidOfHealthy DEF ReadinessNow, PublishedReadiness
    <2>7. /\ Overall(StatusesOf(ServicesNow, AllSites)) = "Healthy"
          /\ ReadinessNow.observability.state = "healthy"
        BY <2>5, <2>6, HealthyScope
    <2>8. ASSUME NEW c \in config \cap DOMAIN Manifests
          PROVE  /\ Attempted(c) => scene.runs[c].age <= Stale
                 /\ ~Silenced(c) => scene.runs[c].outcome # "failed" /\ scene.runs[c].source # "partial"
        BY <2>1, <2>7, RunIsTold, FailureIsTold
    <2>9. ASSUME NEW a \in {a \in Assets : Placed(a)},
                 NEW c \in {c \in a.sources \cap config : scene.runs[c].source # "none"}
          PROVE  /\ scene.runs[c].source = "success"
                 /\ "firewall" \in Packs[c] =>
                        /\ ~(a.kind = "firewall" /\ a.status = "offline")
                        /\ a.extensions # None =>
                               \A u \in Payload(a).wan :
                                   u.available = "up" /\ ~u.missing /\ u.age <= WanFreshness
        <3>1. SeenBy(a, c) /\ a.site \in Enabled
            BY <2>2 DEF SeenBy, Placed
        <3>2. \A service \in {"Monitoring", "Security", "Internet"} :
                  EvaluateService(SiteNow(a.site), service) \notin {"Critical", "Warning", "Unknown"}
            BY <2>7, <3>1, HealthySites DEF Services, Enabling
        <3>3. scene.runs[c].source = "success"
            BY <2>1, <3>1, <3>2, DiscoveryIsTold
        <3>4. ASSUME "firewall" \in Packs[c]
              PROVE  ~(a.kind = "firewall" /\ a.status = "offline")
            BY <2>1, <3>1, <3>2, <3>4, OfflineIsTold
        <3>5. ASSUME "firewall" \in Packs[c], a.extensions # None, NEW u \in Payload(a).wan
              PROVE  u.available = "up" /\ ~u.missing /\ u.age <= WanFreshness
            BY <2>1, <2>2, <3>1, <3>2, <3>5, UplinkIsTold
        <3> QED BY <3>3, <3>4, <3>5
    <2> QED BY <2>8, <2>9
<1> QED BY <1>1, EstateInvHolds, PTL

===============================================================================
