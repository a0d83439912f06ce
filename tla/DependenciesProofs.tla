------------------------- MODULE DependenciesProofs -------------------------
(***************************************************************************)
(* Theorems about Dependencies, for any tables, references between them    *)
(* and selection of them.                                                  *)
(***************************************************************************)
EXTENDS Dependencies, FiniteSetTheorems, TLAPS

\* What the walk has collected: tables the selection leads to, each with the
\* tables that led there.
WalkInv ==
  /\ at # 0 /\ selected \subseteq closure
  /\ \A i \in DOMAIN frontier : frontier[i] \in closure
  /\ \A i \in DOMAIN next : next[i] \in closure
  /\ closure \subseteq Ancestors(selected)
  /\ \A t \in Tables : /\ requiredBy[t] \subseteq closure
                       /\ \A c \in requiredBy[t] : <<c, t>> \in edges
  /\ \A t \in closure \ selected : \E c \in requiredBy[t] : depth[t] = depth[c] + 1

\* The tables whose references are still to be looked at.
Pending == {frontier[i] : i \in {j \in DOMAIN frontier : at <= j}}
           \cup {next[i] : i \in DOMAIN next}

\* Without a table that refers to two others the next frontier grows by at
\* most one table a step: it overwrites what has been visited, and nothing
\* is lost.
ChainInv ==
  (\A t \in Tables : ~ Diverges(t)) =>
    /\ Len(next) < at
    /\ \A c \in closure \ Pending :
         /\ ParentsOf(c) \subseteq closure
         /\ \A p \in ParentsOf(c) \ selected : c \in requiredBy[p]

\* A table is placed once, after those of the closure it refers to.
WellOrdered ==
  /\ \A i \in DOMAIN order : order[i] \in closure
  /\ \A i, j \in DOMAIN order : order[i] = order[j] => i = j
  /\ \A i \in DOMAIN order : \A p \in ParentsOf(order[i]) \cap closure :
       \E j \in 1 .. i : order[j] = p

\* The order is begun when the walk has ended; it is the one of the keys
\* only if there is a circle.
OrderInv ==
  /\ order # <<>> => Walked
  /\ \/ WellOrdered
     \/ Circular /\ order \in Sorted(closure)

DepInv == DepTypeOK /\ WalkInv /\ ChainInv /\ OrderInv

-----------------------------------------------------------------------------
\* Lists.

\* A list as long as a finite set, of its members and without repetition,
\* has them all.
LEMMA ListsAll ==
  ASSUME NEW S, IsFiniteSet(S), NEW s \in [1 .. Cardinality(S) -> S],
         \A i, j \in DOMAIN s : s[i] = s[j] => i = j
  PROVE  /\ Cardinality(S) \in Nat
         /\ s \in Seq(S) /\ Len(s) = Cardinality(S)
         /\ {s[i] : i \in DOMAIN s} = S
         /\ \A t \in S : \E i \in DOMAIN s : s[i] = t
<1> DEFINE n == Cardinality(S)
           I == 1 .. n
<1>1. n \in Nat
  BY FS_CardinalityType
<1>2. IsFiniteSet(I) /\ Cardinality(I) = n
  BY <1>1, FS_Interval
<1>3. s \in Injection(I, S)
  BY DEF Injection, IsInjective
<1>4. Cardinality(I) = n <=> s \in Surjection(I, S)
  <2> HIDE DEF I
  <2> QED BY <1>3, FS_Injection
<1>5. \A t \in S : \E i \in DOMAIN s : s[i] = t
  BY <1>2, <1>4 DEF Surjection
<1>6. s \in Seq(S) /\ Len(s) = n
  BY <1>1
<1> QED BY <1>1, <1>5, <1>6

\* Sorting a set of tables lists it.
LEMMA SortedLists ==
  ASSUME NEW S \in SUBSET Tables, NEW s \in Sorted(S)
  PROVE  /\ s \in Seq(Tables) /\ Len(s) = Cardinality(S)
         /\ {s[i] : i \in DOMAIN s} = S
         /\ \A i \in DOMAIN s : s[i] \in S
         /\ \A t \in S : \E i \in DOMAIN s : s[i] = t
         /\ \A i, j \in DOMAIN s : s[i] = s[j] => i = j
<1>1. IsFiniteSet(S)
  BY TablesAssumption, FS_Subset
<1>2. s \in [1 .. Cardinality(S) -> S]
  BY DEF Sorted
<1>3. Cardinality(S) \in Nat
  BY <1>1, FS_CardinalityType
<1>4. \A i, j \in DOMAIN s : s[i] = s[j] => i = j
  <2>1. \A i, j \in DOMAIN s : i < j => s[i] < s[j]
    BY DEF Sorted
  <2>2. S \subseteq Nat
    BY TablesAssumption
  <2>3. \A i \in DOMAIN s : i \in Nat /\ s[i] \in S
    BY <1>2, <1>3
  <2>4. SUFFICES ASSUME NEW i \in DOMAIN s, NEW j \in DOMAIN s, s[i] = s[j] PROVE i = j
    OBVIOUS
  <2>5. s[i] \in Nat /\ i \in Nat /\ j \in Nat
    BY <2>2, <2>3
  <2>6. ~ i < j /\ ~ j < i
    BY <2>1, <2>4, <2>5
  <2> QED BY <2>5, <2>6
<1>5. /\ s \in Seq(S) /\ Len(s) = Cardinality(S)
      /\ {s[i] : i \in DOMAIN s} = S
      /\ \A t \in S : \E i \in DOMAIN s : s[i] = t
  BY <1>1, <1>2, <1>4, ListsAll
<1>6. s \in Seq(Tables)
  BY <1>2, <1>3
<1> QED BY <1>2, <1>4, <1>5, <1>6

\* A child's new parents, listed.
LEMMA NewParentsLists ==
  ASSUME NEW child, NEW new \in NewParents(child)
  PROVE  /\ new \in Seq(Tables)
         /\ Len(new) = Cardinality(ParentsOf(child) \ closure)
         /\ {new[i] : i \in DOMAIN new} = ParentsOf(child) \ closure
<1> DEFINE S == ParentsOf(child) \ closure
<1>1. S \subseteq Tables
  BY DEF ParentsOf
<1>2. IsFiniteSet(S)
  BY <1>1, TablesAssumption, FS_Subset
<1>3. new \in [1 .. Cardinality(S) -> S]
  BY DEF NewParents
<1>4. \A i, j \in DOMAIN new : new[i] = new[j] => i = j
  BY DEF NewParents
<1>5. /\ Cardinality(S) \in Nat
      /\ new \in Seq(S) /\ Len(new) = Cardinality(S)
      /\ {new[i] : i \in DOMAIN new} = S
  <2> HIDE DEF S
  <2> QED BY <1>2, <1>3, <1>4, ListsAll
<1>6. new \in Seq(Tables)
  BY <1>1, <1>3, <1>5
<1> QED BY <1>5, <1>6

-----------------------------------------------------------------------------
\* Steps.

\* The selection leads to what it has led to leads to.
LEMMA AncestorsAreClosed ==
  ASSUME NEW c \in Ancestors(selected), NEW p \in ParentsOf(c)
  PROVE  p \in Ancestors(selected)
<1>1. p \in Tables
  BY DEF ParentsOf
<1>2. SUFFICES ASSUME NEW C \in SUBSET Tables, selected \subseteq C,
                      \A d \in C : ParentsOf(d) \subseteq C
               PROVE  p \in C
  BY <1>1 DEF Ancestors
<1>3. c \in C
  BY <1>2 DEF Ancestors
<1> QED BY <1>2, <1>3

\* What is selected is among what it leads to.
LEMMA SelectedAreAncestors ==
  ASSUME selected \subseteq Tables
  PROVE  selected \subseteq Ancestors(selected)
BY DEF Ancestors

\* Nothing but what the selection leads to is in a set that holds the
\* selection and is closed under references.
LEMMA AncestorsAreLeast ==
  ASSUME NEW C \in SUBSET Tables, selected \subseteq C,
         \A c \in C : ParentsOf(c) \subseteq C
  PROVE  Ancestors(selected) \subseteq C
BY DEF Ancestors

\* What a step of the inner loops leaves.
LEMMA VisitEffect ==
  ASSUME DepTypeOK, WalkInv, Visit
  PROVE  /\ at \in 1 .. Len(frontier) /\ frontier[at] \in closure
         /\ at' = at + 1
         /\ \E new \in Seq(Tables) :
              /\ Len(new) = Cardinality(ParentsOf(frontier[at]) \ closure)
              /\ {new[i] : i \in DOMAIN new} = ParentsOf(frontier[at]) \ closure
              /\ next' = next \o new
              /\ frontier' = Overwritten(next \o new)
         /\ closure' = closure \cup ParentsOf(frontier[at])
         /\ depth' = [p \in Tables |-> IF p \in ParentsOf(frontier[at]) \ closure
                                       THEN depth[frontier[at]] + 1 ELSE depth[p]]
         /\ requiredBy' = [p \in Tables |->
              IF p \in ParentsOf(frontier[at]) \ selected
              THEN requiredBy[p] \cup {frontier[at]} ELSE requiredBy[p]]
         /\ UNCHANGED <<edges, selected, order>>
<1> DEFINE child == frontier[at]
<1>1. PICK new \in NewParents(child) :
        LET found == {new[i] : i \in DOMAIN new} IN
        /\ next' = next \o new
        /\ frontier' = Overwritten(next \o new)
        /\ closure' = closure \cup found
        /\ depth' = [p \in Tables |-> IF p \in found THEN depth[child] + 1 ELSE depth[p]]
        /\ requiredBy' = [p \in Tables |->
             IF p \in ParentsOf(child) \ selected THEN requiredBy[p] \cup {child}
             ELSE requiredBy[p]]
  BY Zenon DEF Visit
<1>2. /\ new \in Seq(Tables)
      /\ Len(new) = Cardinality(ParentsOf(child) \ closure)
      /\ {new[i] : i \in DOMAIN new} = ParentsOf(child) \ closure
  BY NewParentsLists, Zenon
<1>3. at \in 1 .. Len(frontier) /\ at \in DOMAIN frontier
  BY DEF Visit, Walking, WalkInv, DepTypeOK
<1>4. child \in closure
  BY <1>3 DEF WalkInv
<1>5. at' = at + 1 /\ UNCHANGED <<edges, selected, order>>
  BY DEF Visit
<1>6. closure' = closure \cup ParentsOf(child)
  BY <1>1, <1>2
<1>7. depth' = [p \in Tables |-> IF p \in ParentsOf(child) \ closure
                                 THEN depth[child] + 1 ELSE depth[p]]
  BY <1>1, <1>2, Zenon
<1>8. requiredBy' = [p \in Tables |->
             IF p \in ParentsOf(child) \ selected THEN requiredBy[p] \cup {child}
             ELSE requiredBy[p]]
  BY <1>1, Zenon
<1>9. \E s \in Seq(Tables) :
        /\ Len(s) = Cardinality(ParentsOf(child) \ closure)
        /\ {s[i] : i \in DOMAIN s} = ParentsOf(child) \ closure
        /\ next' = next \o s
        /\ frontier' = Overwritten(next \o s)
  BY <1>1, <1>2, Zenon
<1> HIDE DEF child
<1> QED BY <1>3, <1>4, <1>5, <1>6, <1>7, <1>8, <1>9, Zenon DEF child

\* The members of the array and of what is appended to it.
LEMMA ArrayAfter ==
  ASSUME DepTypeOK, NEW new \in Seq(Tables)
  PROVE  /\ next \o new \in Seq(Tables)
         /\ Len(next \o new) = Len(next) + Len(new)
         /\ \A i \in 1 .. Len(next) : (next \o new)[i] = next[i]
         /\ \A i \in 1 .. Len(new) : (next \o new)[Len(next) + i] = new[i]
         /\ Overwritten(next \o new) \in Seq(Tables)
         /\ Len(Overwritten(next \o new)) = Len(frontier)
         /\ \A i \in 1 .. Len(frontier) :
              Overwritten(next \o new)[i] =
                IF Len(next) < i /\ i <= Len(next) + Len(new)
                THEN new[i - Len(next)] ELSE frontier[i]
<1> DEFINE appended == next \o new
           F == Overwritten(appended)
<1>1. next \in Seq(Tables) /\ frontier \in Seq(Tables)
  BY DEF DepTypeOK
<1>2. /\ appended \in Seq(Tables)
      /\ Len(appended) = Len(next) + Len(new)
      /\ Len(next) \in Nat /\ Len(new) \in Nat /\ Len(frontier) \in Nat
  BY <1>1
<1>3. \A i \in 1 .. Len(next) : appended[i] = next[i]
  BY <1>1
<1>4. \A i \in 1 .. Len(new) : appended[Len(next) + i] = new[i]
  BY <1>1
<1>5. \A i \in 1 .. Len(appended) : appended[i] \in Tables
  BY <1>2
<1>6. F = [i \in 1 .. Len(frontier) |->
             IF Len(next) < i /\ i <= Len(appended) THEN appended[i] ELSE frontier[i]]
  BY <1>1 DEF Overwritten
<1>7. \A i \in 1 .. Len(frontier) : F[i] \in Tables
  <2> HIDE DEF appended
  <2> SUFFICES ASSUME NEW i \in 1 .. Len(frontier) PROVE F[i] \in Tables
    OBVIOUS
  <2>1. F[i] = IF Len(next) < i /\ i <= Len(appended) THEN appended[i] ELSE frontier[i]
    BY <1>6
  <2>2. i \in Nat /\ 0 < i
    BY <1>2
  <2>3. frontier[i] \in Tables
    BY <1>1
  <2>4. Len(next) < i /\ i <= Len(appended) => appended[i] \in Tables
    BY <1>2, <1>5, <2>2
  <2> QED BY <2>1, <2>3, <2>4
<1>8. F \in Seq(Tables) /\ Len(F) = Len(frontier)
  <2> HIDE DEF appended
  <2>1. DOMAIN F = 1 .. Len(frontier)
    BY <1>6
  <2> HIDE DEF F
  <2>2. F \in [1 .. Len(frontier) -> Tables]
    BY <1>6, <1>7, <2>1
  <2> QED BY <1>2, <2>2
<1>9. ASSUME NEW i \in 1 .. Len(frontier)
      PROVE  F[i] = IF Len(next) < i /\ i <= Len(next) + Len(new)
                    THEN new[i - Len(next)] ELSE frontier[i]
  <2>1. F[i] = IF Len(next) < i /\ i <= Len(next) + Len(new) THEN appended[i] ELSE frontier[i]
    BY <1>2, <1>6
  <2>2. ASSUME Len(next) < i, i <= Len(next) + Len(new)
        PROVE  appended[i] = new[i - Len(next)]
    <3>1. i - Len(next) \in 1 .. Len(new) /\ Len(next) + (i - Len(next)) = i
      BY <1>2, <2>2
    <3> HIDE DEF appended
    <3> QED BY <1>4, <3>1
  <2> HIDE DEF appended, F
  <2> QED BY <2>1, <2>2
<1> QED BY <1>2, <1>3, <1>4, <1>8, <1>9

-----------------------------------------------------------------------------
\* Types.

LEMMA TypesAtFirst == DepInit => DepTypeOK
<1> SUFFICES ASSUME DepInit PROVE DepTypeOK
  OBVIOUS
<1>1. edges \subseteq Edges /\ selected \subseteq Tables
  BY DEF DepInit
<1>2. frontier \in Seq(Tables)
  BY <1>1, SortedLists DEF DepInit
<1>3. depth \in [Tables -> Nat] /\ requiredBy \in [Tables -> SUBSET Tables]
  BY DEF DepInit
<1>4. at \in Nat /\ next \in Seq(Tables) /\ order \in Seq(Tables) /\ closure \subseteq Tables
  BY <1>1 DEF DepInit
<1> QED BY <1>1, <1>2, <1>3, <1>4 DEF DepTypeOK

LEMMA TypesAfterVisit ==
  ASSUME DepTypeOK, WalkInv, Visit
  PROVE  DepTypeOK'
<1> DEFINE child == frontier[at]
<1>1. PICK new \in Seq(Tables) :
        next' = next \o new /\ frontier' = Overwritten(next \o new)
  BY VisitEffect, Zenon
<1>2. frontier' \in Seq(Tables) /\ next' \in Seq(Tables)
  BY <1>1, ArrayAfter
<1>3. at' \in Nat
  BY VisitEffect DEF DepTypeOK
<1>4. closure' \subseteq Tables
  BY VisitEffect DEF DepTypeOK, ParentsOf
<1>5. child \in closure /\ child \in Tables
  BY VisitEffect DEF DepTypeOK
<1>6. depth' \in [Tables -> Nat]
  <2> HIDE DEF child
  <2>1. depth' = [p \in Tables |-> IF p \in ParentsOf(child) \ closure
                                   THEN depth[child] + 1 ELSE depth[p]]
    BY VisitEffect DEF child
  <2>2. \A p \in Tables : depth[p] \in Nat
    BY DEF DepTypeOK
  <2> QED BY <1>5, <2>1, <2>2
<1>7. requiredBy' \in [Tables -> SUBSET Tables]
  <2> HIDE DEF child
  <2>1. requiredBy' = [p \in Tables |-> IF p \in ParentsOf(child) \ selected
                                        THEN requiredBy[p] \cup {child} ELSE requiredBy[p]]
    BY VisitEffect DEF child
  <2>2. \A p \in Tables : requiredBy[p] \subseteq Tables
    BY DEF DepTypeOK
  <2> QED BY <1>5, <2>1, <2>2
<1>8. UNCHANGED <<edges, selected, order>>
  BY VisitEffect
<1>9. (edges \subseteq Edges /\ selected \subseteq Tables /\ order \in Seq(Tables))'
  BY <1>8 DEF DepTypeOK, Edges
<1> QED BY <1>2, <1>3, <1>4, <1>6, <1>7, <1>9 DEF DepTypeOK

\* What a new frontier is made of.
LEMMA AdvanceEffect ==
  ASSUME DepTypeOK, Advance
  PROVE  /\ {next[i] : i \in DOMAIN next} \in SUBSET Tables
         /\ frontier' \in Seq(Tables)
         /\ {frontier'[i] : i \in DOMAIN frontier'} = {next[i] : i \in DOMAIN next}
         /\ at' = 1 /\ next' = <<>>
         /\ ~ Walking /\ next # <<>>
         /\ UNCHANGED <<edges, selected, closure, depth, requiredBy, order>>
<1> DEFINE S == {next[i] : i \in DOMAIN next}
<1>1. S \in SUBSET Tables
  BY DEF DepTypeOK
<1>2. frontier' \in Sorted(S)
  BY DEF Advance
<1>3. frontier' \in Seq(Tables) /\ {frontier'[i] : i \in DOMAIN frontier'} = S
  <2> HIDE DEF S
  <2> QED BY <1>1, <1>2, SortedLists, Zenon
<1> QED BY <1>1, <1>3 DEF Advance

LEMMA TypesAfterAdvance ==
  ASSUME DepTypeOK, Advance
  PROVE  DepTypeOK'
<1>1. frontier' \in Seq(Tables) /\ at' = 1 /\ next' = <<>>
      /\ UNCHANGED <<edges, selected, closure, depth, requiredBy, order>>
  BY AdvanceEffect
<1> QED BY <1>1 DEF DepTypeOK, Edges

LEMMA TypesAfterPlace ==
  ASSUME DepTypeOK, Place
  PROVE  DepTypeOK'
<1>1. PICK t \in Ready : order' = Append(order, t)
  BY DEF Place
<1>2. t \in Tables
  BY DEF Ready, DepTypeOK
<1>3. order' \in Seq(Tables)
  BY <1>1, <1>2 DEF DepTypeOK
<1> QED BY <1>3 DEF Place, DepTypeOK, Edges

LEMMA TypesAfterFallBack ==
  ASSUME DepTypeOK, FallBack
  PROVE  DepTypeOK'
<1>1. closure \in SUBSET Tables /\ order' \in Sorted(closure)
  BY DEF DepTypeOK, FallBack
<1>2. order' \in Seq(Tables)
  BY <1>1, SortedLists
<1> QED BY <1>2 DEF FallBack, DepTypeOK, Edges

-----------------------------------------------------------------------------
\* The walk.

LEMMA WalkAtFirst == DepInit => WalkInv
<1> SUFFICES ASSUME DepInit PROVE WalkInv
  OBVIOUS
<1>1. selected \in SUBSET Tables
  BY DEF DepInit
<1>2. \A i \in DOMAIN frontier : frontier[i] \in selected
  BY <1>1, SortedLists DEF DepInit
<1>3. closure \subseteq Ancestors(selected)
  BY <1>1, SelectedAreAncestors DEF DepInit
<1>4. at # 0 /\ closure = selected /\ requiredBy = [t \in Tables |-> {}]
  BY DEF DepInit
<1>5. \A i \in DOMAIN next : next[i] \in closure
  BY DEF DepInit
<1> QED BY <1>2, <1>3, <1>4, <1>5 DEF WalkInv

LEMMA WalkAfterVisit ==
  ASSUME DepTypeOK, WalkInv, Visit
  PROVE  WalkInv'
<1> DEFINE child == frontier[at]
           found == ParentsOf(child) \ closure
<1>1. PICK new \in Seq(Tables) :
        /\ {new[i] : i \in DOMAIN new} = found
        /\ next' = next \o new /\ frontier' = Overwritten(next \o new)
  BY VisitEffect, Zenon
<1>2. child \in closure /\ child \in Tables
  BY VisitEffect DEF DepTypeOK
<1>3. closure' = closure \cup ParentsOf(child) /\ selected' = selected /\ edges' = edges
  BY VisitEffect
<1>4. \A i \in 1 .. Len(new) : new[i] \in closure'
  BY <1>1, <1>3
<1>5. /\ next \in Seq(Tables) /\ frontier \in Seq(Tables)
      /\ Len(next) \in Nat /\ Len(new) \in Nat /\ Len(frontier) \in Nat
  BY DEF DepTypeOK
<1>6. at' # 0
  BY VisitEffect DEF DepTypeOK
<1>7. \A i \in DOMAIN frontier' : frontier'[i] \in closure'
  <2> SUFFICES ASSUME NEW i \in DOMAIN frontier' PROVE frontier'[i] \in closure'
    OBVIOUS
  <2>1. i \in 1 .. Len(frontier) /\ i \in Nat
    BY <1>1, <1>5, ArrayAfter
  <2>2. frontier'[i] = IF Len(next) < i /\ i <= Len(next) + Len(new)
                       THEN new[i - Len(next)] ELSE frontier[i]
    BY <1>1, <2>1, ArrayAfter
  <2>3. frontier[i] \in closure
    BY <1>5, <2>1 DEF WalkInv
  <2>4. ASSUME Len(next) < i, i <= Len(next) + Len(new)
        PROVE  new[i - Len(next)] \in closure'
    <3>1. i - Len(next) \in 1 .. Len(new)
      BY <1>5, <2>1, <2>4
    <3> QED BY <1>4, <3>1
  <2> HIDE DEF child, found
  <2> QED BY <1>3, <2>2, <2>3, <2>4
<1>8. \A i \in DOMAIN next' : next'[i] \in closure'
  <2> SUFFICES ASSUME NEW i \in DOMAIN next' PROVE next'[i] \in closure'
    OBVIOUS
  <2>1. i \in 1 .. Len(next) + Len(new)
    BY <1>1, ArrayAfter
  <2>2. CASE i \in 1 .. Len(next)
    <3>1. next'[i] = next[i]
      BY <1>1, <2>2, ArrayAfter
    <3> QED BY <1>3, <1>5, <2>2, <3>1 DEF WalkInv
  <2>3. CASE i \notin 1 .. Len(next)
    <3>1. i - Len(next) \in 1 .. Len(new) /\ Len(next) + (i - Len(next)) = i
      BY <1>5, <2>1, <2>3
    <3>2. next'[Len(next) + (i - Len(next))] = new[i - Len(next)]
      BY <1>1, <3>1, ArrayAfter
    <3> QED BY <1>4, <3>1, <3>2
  <2> QED BY <2>2, <2>3
<1>9. closure' \subseteq Ancestors(selected)'
  <2>1. Ancestors(selected)' = Ancestors(selected)
    BY <1>3 DEF Ancestors, ParentsOf
  <2>2. child \in Ancestors(selected)
    BY <1>2 DEF WalkInv
  <2>3. \A p \in ParentsOf(child) : p \in Ancestors(selected)
    <3> HIDE DEF child
    <3> QED BY <2>2, AncestorsAreClosed
  <2>4. closure \subseteq Ancestors(selected)
    BY DEF WalkInv
  <2> HIDE DEF child, found
  <2> QED BY <1>3, <2>1, <2>3, <2>4, Zenon
<1>10. requiredBy' = [p \in Tables |-> IF p \in ParentsOf(child) \ selected
                                       THEN requiredBy[p] \cup {child} ELSE requiredBy[p]]
  BY VisitEffect
<1>11. depth' = [p \in Tables |-> IF p \in found THEN depth[child] + 1 ELSE depth[p]]
  BY VisitEffect
<1>12. \A t \in Tables : /\ requiredBy'[t] \subseteq closure'
                         /\ \A c \in requiredBy'[t] : <<c, t>> \in edges'
  <2> SUFFICES ASSUME NEW t \in Tables
               PROVE  /\ requiredBy'[t] \subseteq closure'
                      /\ \A c \in requiredBy'[t] : <<c, t>> \in edges'
    OBVIOUS
  <2>1. requiredBy[t] \subseteq closure /\ \A c \in requiredBy[t] : <<c, t>> \in edges
    BY DEF WalkInv
  <2>2. t \in ParentsOf(child) => <<child, t>> \in edges
    BY DEF ParentsOf
  <2> HIDE DEF child, found
  <2>3. requiredBy'[t] = IF t \in ParentsOf(child) \ selected
                         THEN requiredBy[t] \cup {child} ELSE requiredBy[t]
    BY <1>10
  <2> QED BY <1>2, <1>3, <2>1, <2>2, <2>3
<1>13. \A t \in closure' \ selected' : \E c \in requiredBy'[t] : depth'[t] = depth'[c] + 1
  <2> SUFFICES ASSUME NEW t \in closure' \ selected'
               PROVE  \E c \in requiredBy'[t] : depth'[t] = depth'[c] + 1
    OBVIOUS
  <2>1. t \in Tables /\ t \notin selected /\ selected \subseteq closure /\ closure \subseteq Tables
    BY <1>3 DEF DepTypeOK, WalkInv, ParentsOf
  <2> HIDE DEF child
  <2>2. requiredBy'[t] = IF t \in ParentsOf(child) \ selected
                         THEN requiredBy[t] \cup {child} ELSE requiredBy[t]
    BY <1>10, <2>1
  <2>3. CASE t \in closure
    <3>1. PICK c \in requiredBy[t] : depth[t] = depth[c] + 1
      BY <2>1, <2>3 DEF WalkInv
    <3>2. c \in closure /\ c \in Tables
      BY <2>1 DEF WalkInv
    <3>3. depth'[t] = depth[t] /\ depth'[c] = depth[c]
      BY <1>11, <2>1, <2>3, <3>2
    <3> QED BY <2>2, <3>1, <3>3
  <2>4. CASE t \notin closure
    <3>1. t \in found
      BY <1>3, <2>4
    <3>2. depth'[t] = depth[child] + 1 /\ depth'[child] = depth[child]
      BY <1>2, <1>11, <2>1, <3>1
    <3> QED BY <2>1, <2>2, <3>1, <3>2
  <2> QED BY <2>3, <2>4
<1>14. selected' \subseteq closure'
  BY <1>3 DEF WalkInv
<1> HIDE DEF child, found
<1> QED BY <1>6, <1>7, <1>8, <1>9, <1>12, <1>13, <1>14 DEF WalkInv

LEMMA WalkAfterAdvance ==
  ASSUME DepTypeOK, WalkInv, Advance
  PROVE  WalkInv'
<1>1. /\ {frontier'[i] : i \in DOMAIN frontier'} = {next[i] : i \in DOMAIN next}
      /\ at' = 1 /\ next' = <<>>
      /\ UNCHANGED <<edges, selected, closure, depth, requiredBy>>
  BY AdvanceEffect
<1>2. \A i \in DOMAIN frontier' : frontier'[i] \in closure'
  <2> SUFFICES ASSUME NEW i \in DOMAIN frontier' PROVE frontier'[i] \in closure'
    OBVIOUS
  <2>1. frontier'[i] \in {next[j] : j \in DOMAIN next}
    BY <1>1
  <2> QED BY <1>1, <2>1 DEF WalkInv
<1>3. \A i \in DOMAIN next' : next'[i] \in closure'
  BY <1>1
<1>4. closure' \subseteq Ancestors(selected)'
  BY <1>1 DEF WalkInv, Ancestors, ParentsOf
<1> QED BY <1>1, <1>2, <1>3, <1>4 DEF WalkInv

\* The order does not touch what the walk has left.
LEMMA WalkStands ==
  ASSUME WalkInv, UNCHANGED <<edges, selected, frontier, at, next, closure, depth, requiredBy>>
  PROVE  WalkInv'
BY DEF WalkInv, Ancestors, ParentsOf

-----------------------------------------------------------------------------
\* Chains.

\* A table that refers to at most one other has at most one new parent.
LEMMA OneNewParent ==
  ASSUME NEW child \in closure, child \in Tables, ~ Diverges(child)
  PROVE  Cardinality(ParentsOf(child) \ closure) <= 1
<1> DEFINE Others == ParentsOf(child) \ {child}
           New == ParentsOf(child) \ closure
<1>1. Others \subseteq Tables /\ New \subseteq Others
  BY DEF ParentsOf
<1>2. IsFiniteSet(Others)
  BY <1>1, TablesAssumption, FS_Subset
<1>3. ~ (Cardinality(Others) > 1)
  BY DEF Diverges
<1> HIDE DEF Others, New
<1>4. IsFiniteSet(New) /\ Cardinality(New) <= Cardinality(Others)
  BY <1>1, <1>2, FS_Subset
<1>5. Cardinality(Others) \in Nat /\ Cardinality(New) \in Nat
  BY <1>2, <1>4, FS_CardinalityType
<1>6. Cardinality(New) <= 1
  BY <1>3, <1>4, <1>5
<1> QED BY <1>6 DEF New

LEMMA ChainsAtFirst == DepInit => ChainInv
<1> SUFFICES ASSUME DepInit PROVE ChainInv
  OBVIOUS
<1>1. selected \in SUBSET Tables
  BY DEF DepInit
<1>2. {frontier[i] : i \in DOMAIN frontier} = selected /\ frontier \in Seq(Tables)
  BY <1>1, SortedLists DEF DepInit
<1>3. at = 1 /\ next = <<>> /\ closure = selected
  BY DEF DepInit
<1>4. \A c \in closure : c \in Pending
  <2> SUFFICES ASSUME NEW c \in closure PROVE c \in Pending
    OBVIOUS
  <2>1. PICK i \in DOMAIN frontier : c = frontier[i]
    BY <1>2, <1>3
  <2>2. at <= i
    BY <1>2, <1>3
  <2> QED BY <2>1, <2>2 DEF Pending
<1>5. Len(next) < at
  BY <1>3
<1> QED BY <1>4, <1>5 DEF ChainInv

LEMMA ChainsAfterVisit ==
  ASSUME DepTypeOK, WalkInv, ChainInv, Visit
  PROVE  ChainInv'
<1> DEFINE child == frontier[at]
           found == ParentsOf(child) \ closure
<1>1. PICK new \in Seq(Tables) :
        /\ Len(new) = Cardinality(found)
        /\ {new[i] : i \in DOMAIN new} = found
        /\ next' = next \o new /\ frontier' = Overwritten(next \o new)
  BY VisitEffect, Zenon
<1>2. child \in closure /\ child \in Tables /\ at \in 1 .. Len(frontier)
  BY VisitEffect DEF DepTypeOK
<1>3. /\ closure' = closure \cup ParentsOf(child)
      /\ selected' = selected /\ edges' = edges /\ at' = at + 1
  BY VisitEffect
<1>4. requiredBy' = [p \in Tables |-> IF p \in ParentsOf(child) \ selected
                                      THEN requiredBy[p] \cup {child} ELSE requiredBy[p]]
  BY VisitEffect
<1>5. /\ next \in Seq(Tables) /\ frontier \in Seq(Tables) /\ closure \subseteq Tables
      /\ Len(next) \in Nat /\ Len(new) \in Nat /\ Len(frontier) \in Nat /\ at \in Nat
  BY DEF DepTypeOK
<1>6. /\ \A c : ParentsOf(c)' = ParentsOf(c)
      /\ \A t : Diverges(t)' <=> Diverges(t)
  BY <1>3 DEF Diverges, ParentsOf
<1>7. SUFFICES ASSUME \A t \in Tables : ~ Diverges(t)
               PROVE  /\ Len(next') < at'
                      /\ \A c \in closure' \ Pending' :
                           /\ ParentsOf(c) \subseteq closure'
                           /\ \A p \in ParentsOf(c) \ selected : c \in requiredBy'[p]
  BY <1>3, <1>6 DEF ChainInv
<1>8. /\ Len(next) < at
      /\ \A c \in closure \ Pending :
           /\ ParentsOf(c) \subseteq closure
           /\ \A p \in ParentsOf(c) \ selected : c \in requiredBy[p]
  BY <1>7 DEF ChainInv
<1>9. Len(new) <= 1
  <2>1. ~ Diverges(child)
    BY <1>2, <1>7
  <2> HIDE DEF child
  <2> QED BY <1>1, <1>2, <2>1, OneNewParent
<1>10. Len(next') < at'
  <2>1. Len(next') = Len(next) + Len(new)
    BY <1>1, ArrayAfter
  <2> QED BY <1>3, <1>5, <1>8, <1>9, <2>1
<1>11. /\ DOMAIN next' = 1 .. Len(next) + Len(new)
       /\ DOMAIN frontier' = 1 .. Len(frontier)
       /\ DOMAIN next = 1 .. Len(next) /\ DOMAIN new = 1 .. Len(new)
       /\ DOMAIN frontier = 1 .. Len(frontier)
  <2>1. next' \in Seq(Tables) /\ Len(next') = Len(next) + Len(new)
    BY <1>1, ArrayAfter
  <2>2. frontier' \in Seq(Tables) /\ Len(frontier') = Len(frontier)
    BY <1>1, ArrayAfter
  <2> QED BY <1>5, <2>1, <2>2
<1>12. \A t \in found : t \in Pending'
  <2> SUFFICES ASSUME NEW t \in found PROVE t \in Pending'
    OBVIOUS
  <2>1. PICK i \in DOMAIN new : new[i] = t
    BY <1>1
  <2>2. next'[Len(next) + i] = t
    BY <1>1, <1>11, <2>1, ArrayAfter
  <2>3. Len(next) + i \in DOMAIN next'
    BY <1>5, <1>11
  <2> QED BY <2>2, <2>3 DEF Pending
<1>13. \A t \in Pending : t = child \/ t \in Pending'
  <2> SUFFICES ASSUME NEW t \in Pending, t # child PROVE t \in Pending'
    OBVIOUS
  <2>1. CASE \E i \in DOMAIN frontier : at <= i /\ t = frontier[i]
    <3>1. PICK i \in DOMAIN frontier : at <= i /\ t = frontier[i]
      BY <2>1
    <3>2. i \in 1 .. Len(frontier) /\ i \in Nat /\ at + 1 <= i
      <4>1. at # i
        BY <3>1
      <4> QED BY <1>5, <1>11, <3>1, <4>1
    <3>3. frontier'[i] = IF Len(next) < i /\ i <= Len(next) + Len(new)
                         THEN new[i - Len(next)] ELSE frontier[i]
      BY <1>1, <3>2, ArrayAfter
    <3>4. ~ (i <= Len(next) + Len(new))
      BY <1>5, <1>8, <1>9, <3>2
    <3>5. frontier'[i] = t /\ i \in DOMAIN frontier' /\ at' <= i
      BY <1>3, <1>11, <3>1, <3>2, <3>3, <3>4
    <3> QED BY <3>5 DEF Pending
  <2>2. CASE \E i \in DOMAIN next : t = next[i]
    <3>1. PICK i \in DOMAIN next : t = next[i]
      BY <2>2
    <3>2. next'[i] = t
      BY <1>1, <1>11, <3>1, ArrayAfter
    <3>3. i \in DOMAIN next'
      BY <1>5, <1>11
    <3> QED BY <3>2, <3>3 DEF Pending
  <2>3. \/ \E i \in DOMAIN frontier : at <= i /\ t = frontier[i]
        \/ \E i \in DOMAIN next : t = next[i]
    BY DEF Pending
  <2> QED BY <2>1, <2>2, <2>3
<1>14. ASSUME NEW c \in closure' \ Pending'
       PROVE  /\ ParentsOf(c) \subseteq closure'
              /\ \A p \in ParentsOf(c) \ selected : c \in requiredBy'[p]
  <2>1. c \in closure
    BY <1>3, <1>12
  <2>2. CASE c = child
    <3>1. \A p \in ParentsOf(child) \ selected : child \in requiredBy'[p]
      <4> SUFFICES ASSUME NEW p \in ParentsOf(child) \ selected PROVE child \in requiredBy'[p]
        OBVIOUS
      <4>1. p \in Tables
        BY DEF ParentsOf
      <4> HIDE DEF child
      <4> QED BY <1>4, <4>1
    <3> HIDE DEF child, found
    <3> QED BY <1>3, <2>2, <3>1
  <2>3. CASE c # child
    <3>1. c \notin Pending
      BY <1>13, <2>3
    <3>2. /\ ParentsOf(c) \subseteq closure
          /\ \A p \in ParentsOf(c) \ selected : c \in requiredBy[p]
      BY <1>8, <2>1, <3>1
    <3>3. \A p \in ParentsOf(c) \ selected : c \in requiredBy'[p]
      <4> SUFFICES ASSUME NEW p \in ParentsOf(c) \ selected PROVE c \in requiredBy'[p]
        OBVIOUS
      <4>1. p \in Tables /\ c \in requiredBy[p]
        BY <3>2 DEF ParentsOf
      <4> HIDE DEF child
      <4> QED BY <1>4, <4>1
    <3> HIDE DEF child, found
    <3> QED BY <1>3, <3>2, <3>3
  <2> QED BY <2>2, <2>3
<1> QED BY <1>10, <1>14

LEMMA ChainsAfterAdvance ==
  ASSUME DepTypeOK, ChainInv, Advance
  PROVE  ChainInv'
<1>1. /\ {frontier'[i] : i \in DOMAIN frontier'} = {next[i] : i \in DOMAIN next}
      /\ frontier' \in Seq(Tables) /\ ~ Walking
      /\ at' = 1 /\ next' = <<>>
      /\ UNCHANGED <<edges, selected, closure, requiredBy>>
  BY AdvanceEffect
<1>2. /\ \A c : ParentsOf(c)' = ParentsOf(c)
      /\ \A t : Diverges(t)' <=> Diverges(t)
  BY <1>1 DEF Diverges, ParentsOf
<1>3. Len(next') < at'
  BY <1>1
<1>4. ASSUME NEW t \in Pending PROVE t \in Pending'
  <2>1. ~ (\E i \in DOMAIN frontier : at <= i)
    <3>1. frontier \in Seq(Tables) /\ at \in Nat /\ ~ (at <= Len(frontier))
      BY <1>1 DEF Walking, DepTypeOK
    <3>2. DOMAIN frontier = 1 .. Len(frontier) /\ Len(frontier) \in Nat
      BY <3>1
    <3> QED BY <3>1, <3>2
  <2>2. t \in {next[i] : i \in DOMAIN next}
    BY <2>1 DEF Pending
  <2>3. PICK i \in DOMAIN frontier' : t = frontier'[i]
    BY <1>1, <2>2
  <2>4. at' <= i
    BY <1>1
  <2> QED BY <2>3, <2>4 DEF Pending
<1>5. SUFFICES ASSUME \A t \in Tables : ~ Diverges(t),
                      NEW c \in closure' \ Pending'
               PROVE  /\ ParentsOf(c) \subseteq closure'
                      /\ \A p \in ParentsOf(c) \ selected : c \in requiredBy'[p]
  BY <1>1, <1>2, <1>3 DEF ChainInv
<1>6. c \in closure \ Pending
  BY <1>1, <1>4, <1>5
<1> QED BY <1>1, <1>5, <1>6 DEF ChainInv

LEMMA ChainsStand ==
  ASSUME ChainInv, UNCHANGED <<edges, selected, frontier, at, next, closure, requiredBy>>
  PROVE  ChainInv'
<1>1. /\ \A c : ParentsOf(c)' = ParentsOf(c)
      /\ \A t : Diverges(t)' <=> Diverges(t)
      /\ Pending' = Pending
  BY DEF Diverges, ParentsOf, Pending
<1> QED BY <1>1 DEF ChainInv

-----------------------------------------------------------------------------
\* The order.

\* While the walk goes on there is no order.
LEMMA NoOrderYet ==
  ASSUME order' = <<>>
  PROVE  OrderInv'
<1>1. DOMAIN order' = {}
  BY SMT
<1> QED BY <1>1 DEF OrderInv, WellOrdered

LEMMA OrderAfterVisit ==
  ASSUME DepTypeOK, WalkInv, OrderInv, Visit
  PROVE  OrderInv'
<1>1. order = <<>>
  BY DEF Visit, OrderInv, Walked
<1>2. order' = order
  BY VisitEffect
<1> QED BY <1>1, <1>2, NoOrderYet

LEMMA OrderAfterAdvance ==
  ASSUME OrderInv, Advance
  PROVE  OrderInv'
<1>1. order = <<>> /\ order' = order
  BY DEF Advance, OrderInv, Walked
<1> QED BY <1>1, NoOrderYet

\* The fallback has every table of the closure.
LEMMA FallBackIsComplete ==
  ASSUME closure \subseteq Tables, order \in Sorted(closure)
  PROVE  Placed = closure /\ Len(order) = Cardinality(closure)
BY SortedLists DEF Placed

LEMMA OrderAfterPlace ==
  ASSUME DepTypeOK, OrderInv, Place
  PROVE  OrderInv'
<1>1. PICK t \in Ready : order' = Append(order, t)
  BY DEF Place
<1>2. UNCHANGED <<edges, selected, frontier, at, next, closure, depth, requiredBy>> /\ Walked
  BY DEF Place
<1>3. Walked' /\ \A u : ParentsOf(u)' = ParentsOf(u)
  BY <1>2 DEF Walked, Walking, ParentsOf
<1>4. /\ t \in closure /\ t \in Tables /\ t \notin Placed
      /\ ParentsOf(t) \cap closure \subseteq Placed \cup {t}
  BY DEF Ready, DepTypeOK
<1>5. WellOrdered
  BY <1>4, FallBackIsComplete DEF OrderInv, DepTypeOK
<1> DEFINE n == Len(order)
<1>6. order \in Seq(Tables) /\ n \in Nat /\ DOMAIN order = 1 .. n
  BY DEF DepTypeOK
<1>7. /\ DOMAIN order' = 1 .. n + 1
      /\ order'[n + 1] = t
      /\ \A i \in 1 .. n : order'[i] = order[i]
  BY <1>1, <1>4, <1>6
<1>8. \A i \in 1 .. n : order[i] # t
  BY <1>4, <1>6 DEF Placed
<1> HIDE DEF n
<1>9. \A i \in DOMAIN order' : i = n + 1 \/ i \in 1 .. n
  BY <1>6, <1>7
<1>10. \A i \in DOMAIN order' : order'[i] \in closure
  BY <1>4, <1>5, <1>6, <1>7, <1>9 DEF WellOrdered
<1>11. \A i, j \in DOMAIN order' : order'[i] = order'[j] => i = j
  <2> SUFFICES ASSUME NEW i \in DOMAIN order', NEW j \in DOMAIN order', order'[i] = order'[j]
               PROVE  i = j
    OBVIOUS
  <2>1. CASE i \in 1 .. n /\ j \in 1 .. n
    BY <1>5, <1>6, <1>7, <2>1 DEF WellOrdered
  <2>2. CASE i = n + 1 \/ j = n + 1
    BY <1>7, <1>8, <1>9, <2>2
  <2> QED BY <1>9, <2>1, <2>2
<1>12. \A i \in DOMAIN order' : \A p \in ParentsOf(order'[i]) \cap closure :
         \E j \in 1 .. i : order'[j] = p
  <2> SUFFICES ASSUME NEW i \in DOMAIN order', NEW p \in ParentsOf(order'[i]) \cap closure
               PROVE  \E j \in 1 .. i : order'[j] = p
    OBVIOUS
  <2>1. CASE i = n + 1
    <3>1. CASE p = t
      <4>1. n + 1 \in 1 .. i
        BY <1>6, <2>1
      <4> QED BY <1>7, <3>1, <4>1
    <3>2. CASE p # t
      <4>1. p \in Placed
        BY <1>4, <1>7, <2>1, <3>2
      <4>2. PICK j \in 1 .. n : order[j] = p
        BY <1>6, <4>1 DEF Placed
      <4>3. j \in 1 .. i /\ order'[j] = p
        BY <1>6, <1>7, <2>1, <4>2
      <4> QED BY <4>3
    <3> QED BY <3>1, <3>2
  <2>2. CASE i \in 1 .. n
    <3>1. p \in ParentsOf(order[i]) \cap closure
      BY <1>7, <2>2
    <3>2. PICK j \in 1 .. i : order[j] = p
      BY <1>5, <1>6, <2>2, <3>1 DEF WellOrdered
    <3>3. j \in 1 .. n
      BY <1>6, <2>2, <3>2
    <3> QED BY <1>7, <3>2, <3>3
  <2> QED BY <1>9, <2>1, <2>2
<1>13. WellOrdered'
  BY <1>2, <1>3, <1>10, <1>11, <1>12 DEF WellOrdered
<1> QED BY <1>3, <1>13 DEF OrderInv

\* If no table can be placed, the tables left refer to each other.
LEMMA StuckIsCircular ==
  ASSUME Ready = {}, Placed \subseteq closure, Placed # closure
  PROVE  Circular
<1> DEFINE S == closure \ Placed
<1>1. S \in (SUBSET closure) \ {{}}
  <2>1. \E t \in closure : t \notin Placed
    BY Zenon
  <2>2. S # {} /\ S \subseteq closure
    BY <2>1
  <2> HIDE DEF S
  <2> QED BY <2>2
<1>2. ASSUME NEW t \in S
      PROVE  \E p \in S \ {t} : <<t, p>> \in edges
  <2>1. ~ (ParentsOf(t) \cap closure \subseteq Placed \cup {t})
    BY <1>2 DEF Ready
  <2>2. PICK p \in ParentsOf(t) \cap closure : p \notin Placed \cup {t}
    BY <2>1
  <2> QED BY <2>2 DEF ParentsOf
<1> HIDE DEF S
<1> QED BY <1>1, <1>2, Zenon DEF Circular

LEMMA OrderAfterFallBack ==
  ASSUME DepTypeOK, OrderInv, FallBack
  PROVE  OrderInv'
<1>1. /\ UNCHANGED <<edges, frontier, at, next, closure>> /\ Walked
      /\ Ready = {} /\ Placed # closure /\ order' \in Sorted(closure)
  BY DEF FallBack
<1>2. Walked' /\ (Circular' <=> Circular) /\ Sorted(closure)' = Sorted(closure)
  BY <1>1 DEF Walked, Walking, Circular, Sorted
<1>3. WellOrdered
  BY <1>1, FallBackIsComplete DEF OrderInv, DepTypeOK
<1>4. Placed \subseteq closure
  BY <1>3 DEF WellOrdered, Placed
<1>5. Circular
  BY <1>1, <1>4, StuckIsCircular
<1> QED BY <1>1, <1>2, <1>5 DEF OrderInv

-----------------------------------------------------------------------------
\* The invariant.

LEMMA DepInvAtFirst == DepInit => DepInv
<1> SUFFICES ASSUME DepInit PROVE DepInv
  OBVIOUS
<1>1. order = <<>> /\ DOMAIN order = {}
  BY SMT DEF DepInit
<1>2. OrderInv
  BY <1>1 DEF OrderInv, WellOrdered
<1> QED BY <1>2, TypesAtFirst, WalkAtFirst, ChainsAtFirst DEF DepInv

LEMMA DepInvAfterStep == DepInv /\ [DepNext]_depVars => DepInv'
<1> SUFFICES ASSUME DepInv, [DepNext]_depVars PROVE DepInv'
  OBVIOUS
<1>1. DepTypeOK /\ WalkInv /\ ChainInv /\ OrderInv
  BY DEF DepInv
<1>2. CASE Visit
  BY <1>1, <1>2, TypesAfterVisit, WalkAfterVisit, ChainsAfterVisit, OrderAfterVisit DEF DepInv
<1>3. CASE Advance
  BY <1>1, <1>3, TypesAfterAdvance, WalkAfterAdvance, ChainsAfterAdvance, OrderAfterAdvance
     DEF DepInv
<1>4. CASE Place
  <2>1. WalkInv' /\ ChainInv'
    BY <1>1, <1>4, WalkStands, ChainsStand DEF Place
  <2> QED BY <1>1, <1>4, <2>1, TypesAfterPlace, OrderAfterPlace DEF DepInv
<1>5. CASE FallBack
  <2>1. WalkInv' /\ ChainInv'
    BY <1>1, <1>5, WalkStands, ChainsStand DEF FallBack
  <2> QED BY <1>1, <1>5, <2>1, TypesAfterFallBack, OrderAfterFallBack DEF DepInv
<1>6. CASE UNCHANGED depVars
  <2>1. WalkInv' /\ ChainInv'
    BY <1>1, <1>6, WalkStands, ChainsStand DEF depVars
  <2>2. DepTypeOK'
    BY <1>1, <1>6 DEF depVars, DepTypeOK, Edges
  <2>3. OrderInv'
    BY <1>1, <1>6 DEF depVars, OrderInv, WellOrdered, Walked, Walking, Circular, Sorted, ParentsOf
  <2> QED BY <2>1, <2>2, <2>3 DEF DepInv
<1> QED BY <1>2, <1>3, <1>4, <1>5, <1>6 DEF DepNext

\* What has been collected, what is still to be looked at and what has been
\* placed fit together at every step of the walk and of the order.
THEOREM DepInvariant == DepSpec => []DepInv
<1>1. DepInit => DepInv
  BY DepInvAtFirst
<1>2. DepInv /\ [DepNext]_depVars => DepInv'
  BY DepInvAfterStep
<1> QED BY <1>1, <1>2, PTL DEF DepSpec

\* Only ancestors of the selection are suggested, each with tables of the
\* closure that require it and one level above one of them - although the
\* array is overwritten while it is ranged over.
THEOREM SuggestedTablesAreNeeded == DepSpec => []SuggestionsAreNeeded
<1>1. DepInv => SuggestionsAreNeeded
  <2> SUFFICES ASSUME DepInv PROVE SuggestionsAreNeeded
    OBVIOUS
  <2>1. closure \subseteq Tables /\ WalkInv
    BY DEF DepInv, DepTypeOK
  <2> QED BY <2>1 DEF WalkInv, SuggestionsAreNeeded
<1> QED BY <1>1, DepInvariant, PTL

\* A chain of references is followed to its end: the walk is transitive if
\* no table refers to two others.
THEOREM WalkFollowsChains == DepSpec => []ChainsAreClosed
<1>1. DepInv => ChainsAreClosed
  <2> SUFFICES ASSUME DepInv, Walked, \A t \in Tables : ~ Diverges(t)
               PROVE  /\ closure = Ancestors(selected)
                      /\ \A t \in closure \ selected :
                           requiredBy[t] = {c \in closure : <<c, t>> \in edges}
    BY DEF ChainsAreClosed
  <2>1. DepTypeOK /\ WalkInv /\ ChainInv
    BY DEF DepInv
  <2>2. closure \in SUBSET Tables
    BY <2>1 DEF DepTypeOK
  <2>3. Pending = {}
    <3>1. DOMAIN next = {}
      BY SMT DEF Walked
    <3>2. /\ frontier \in Seq(Tables) /\ at \in Nat /\ ~ (at <= Len(frontier))
      BY <2>1 DEF Walked, Walking, DepTypeOK
    <3>3. DOMAIN frontier = 1 .. Len(frontier) /\ Len(frontier) \in Nat
      BY <3>2
    <3>4. \A i \in DOMAIN frontier : ~ (at <= i)
      BY <3>2, <3>3
    <3> QED BY <3>1, <3>4 DEF Pending
  <2>4. \A c \in closure : /\ ParentsOf(c) \subseteq closure
                           /\ \A p \in ParentsOf(c) \ selected : c \in requiredBy[p]
    BY <2>1, <2>3 DEF ChainInv
  <2>5. closure = Ancestors(selected)
    <3>1. Ancestors(selected) \subseteq closure
      BY <2>1, <2>2, <2>4, AncestorsAreLeast DEF WalkInv
    <3> QED BY <2>1, <3>1 DEF WalkInv
  <2>6. ASSUME NEW t \in closure \ selected
        PROVE  requiredBy[t] = {c \in closure : <<c, t>> \in edges}
    <3>1. t \in Tables
      BY <2>2
    <3>2. requiredBy[t] \subseteq closure /\ \A c \in requiredBy[t] : <<c, t>> \in edges
      BY <2>1, <3>1 DEF WalkInv
    <3>3. ASSUME NEW c \in closure, <<c, t>> \in edges PROVE c \in requiredBy[t]
      <4>1. t \in ParentsOf(c) \ selected
        BY <2>6, <3>1, <3>3 DEF ParentsOf
      <4> QED BY <2>4, <4>1
    <3> QED BY <3>2, <3>3
  <2> QED BY <2>5, <2>6
<1> QED BY <1>1, DepInvariant, PTL

\* The finished order has every table of the closure once, a table after
\* those it refers to unless there is a circle.
THEOREM OrderHasParentsFirst == DepSpec => []ParentsComeFirst
<1>1. DepInv => ParentsComeFirst
  <2> SUFFICES ASSUME DepInv, Finished
               PROVE  /\ Len(order) = Cardinality(closure)
                      /\ \A i, j \in DOMAIN order :
                           <<order[i], order[j]>> \in edges => j <= i \/ Circular
    BY DEF ParentsComeFirst
  <2>1. order \in Seq(Tables) /\ closure \subseteq Tables /\ OrderInv /\ Placed = closure
    BY DEF DepInv, DepTypeOK, Finished
  <2>2. CASE WellOrdered
    <3>1. DOMAIN order = 1 .. Len(order) /\ Len(order) \in Nat
      BY <2>1
    <3>2. Len(order) = Cardinality(closure)
      <4> DEFINE I == 1 .. Len(order)
      <4>1. IsFiniteSet(I) /\ Cardinality(I) = Len(order)
        <5> DEFINE n == Len(order)
        <5>1. n \in Nat
          BY <3>1
        <5> HIDE DEF n
        <5>2. IsFiniteSet(1 .. n) /\ Cardinality(1 .. n) = n
          BY <5>1, FS_Interval
        <5> QED BY <5>2 DEF n
      <4>2. order \in [I -> closure]
        BY <2>1, <2>2, <3>1 DEF WellOrdered
      <4>3. \A t \in closure : \E i \in I : order[i] = t
        BY <2>1, <3>1 DEF Placed
      <4>4. order \in Surjection(I, closure)
        BY <4>2, <4>3 DEF Surjection
      <4>5. order \in Injection(I, closure)
        BY <2>2, <4>2 DEF Injection, IsInjective, WellOrdered
      <4> HIDE DEF I
      <4>6. Cardinality(closure) = Cardinality(I)
        BY <4>1, <4>4, <4>5, FS_Surjection
      <4> QED BY <4>1, <4>6
    <3>3. ASSUME NEW i \in DOMAIN order, NEW j \in DOMAIN order, <<order[i], order[j]>> \in edges
          PROVE  j <= i
      <4>1. order[j] \in ParentsOf(order[i]) \cap closure
        BY <2>1, <2>2, <3>3 DEF WellOrdered, ParentsOf
      <4>2. PICK k \in 1 .. i : order[k] = order[j]
        BY <2>2, <4>1 DEF WellOrdered
      <4>3. k \in DOMAIN order
        BY <3>1, <4>2
      <4>4. k = j
        BY <2>2, <4>2, <4>3 DEF WellOrdered
      <4> QED BY <3>1, <4>2, <4>4
    <3> QED BY <3>2, <3>3
  <2>3. CASE Circular /\ order \in Sorted(closure)
    BY <2>1, <2>3, FallBackIsComplete
  <2> QED BY <2>1, <2>2, <2>3 DEF OrderInv
<1> QED BY <1>1, DepInvariant, PTL
=============================================================================
