---------------------------- MODULE Dependencies ----------------------------
(***************************************************************************)
(* Which tables a selection of tables depends on, and the order in which   *)
(* to migrate them (ResolveTableDependencies and topologicalMigrationOrder *)
(* in internal/dbconn/fkdeps.go).                                          *)
(*                                                                         *)
(* The walk goes from the selected tables to the tables they refer to, a   *)
(* frontier at a time.  The next frontier is collected in frontier[:0],    *)
(* that is in the array that is still being ranged over.  One step is one  *)
(* child of the frontier, one new frontier, or one table placed in the     *)
(* order.                                                                  *)
(*                                                                         *)
(* Tables are numbered as their keys (OWNER.NAME) sort.  A reference of    *)
(* several columns is one edge here: the code counts it up and down as     *)
(* often.                                                                  *)
(***************************************************************************)
EXTENDS Naturals, FiniteSets, Sequences

CONSTANTS Tables,      \* tables of the schema
          MaxEdges,    \* bound: references between them
          MaxSelected  \* bound: tables selected

ASSUME TablesAssumption ==
  /\ Tables \subseteq Nat /\ IsFiniteSet(Tables)
  /\ MaxEdges \in Nat /\ MaxSelected \in Nat

VARIABLES
  edges,       \* the references: <<child, parent>>
  selected,    \* the tables the user selected
  frontier,    \* the array the loop ranges over, up to the frontier's length
  at,          \* how far the loop is
  next,        \* the next frontier, so far
  closure, depth, requiredBy,
  order        \* SuggestedMigrationOrder, so far

depVars == <<edges, selected, frontier, at, next, closure, depth, requiredBy, order>>

Edges == Tables \X Tables
ParentsOf(t) == {p \in Tables : <<t, p>> \in edges}

DepTypeOK ==
  /\ edges \subseteq Edges /\ selected \subseteq Tables
  /\ frontier \in Seq(Tables) /\ next \in Seq(Tables)
  /\ at \in Nat /\ closure \subseteq Tables
  /\ depth \in [Tables -> Nat]
  /\ requiredBy \in [Tables -> SUBSET Tables]
  /\ order \in Seq(Tables)

\* The members of S in increasing order (sort.Strings).
Sorted(S) ==
  {s \in [1 .. Cardinality(S) -> S] : \A i, j \in DOMAIN s : i < j => s[i] < s[j]}

DepInit ==
  /\ edges \in {E \in SUBSET Edges : Cardinality(E) <= MaxEdges}
  /\ selected \in {S \in SUBSET Tables : Cardinality(S) <= MaxSelected}
  /\ frontier \in Sorted(selected)
  /\ at = 1 /\ next = <<>>
  /\ closure = selected
  /\ depth = [t \in Tables |-> 0]
  /\ requiredBy = [t \in Tables |-> {}]
  /\ order = <<>>

-----------------------------------------------------------------------------
\* A name that ends in a _Word is a faulty variant of the definition that
\* follows it.

\* The parents of a child that are not in the closure yet, in any order (the
\* one of their constraints' names).
NewParents(child) ==
  LET new == ParentsOf(child) \ closure IN
  {s \in [1 .. Cardinality(new) -> new] : \A i, j \in DOMAIN s : i # j => s[i] # s[j]}

\* Appending to next writes to the frontier's array.  (When that is full next
\* moves to an array of its own; by then the frontier is overwritten.)
Overwritten(appended) ==
  [i \in DOMAIN frontier |->
     IF Len(next) < i /\ i <= Len(appended) THEN appended[i] ELSE frontier[i]]

Walking == at <= Len(frontier)

Visit_Grandparent ==
  /\ Walking
  /\ LET child == frontier[at] IN
     \E new \in NewParents(child) :
       LET appended == next \o new
           found == {new[i] : i \in DOMAIN new}
       IN
       /\ next' = appended
       /\ frontier' = Overwritten(appended)
       /\ closure' = closure \cup found
       /\ depth' = [p \in Tables |-> IF p \in found THEN depth[child] + 1 ELSE depth[p]]
       /\ requiredBy' = [p \in Tables |->
            IF p \in found THEN requiredBy[p] \cup selected ELSE requiredBy[p]]
  /\ at' = at + 1
  /\ UNCHANGED <<edges, selected, order>>

\* The body of the loop over the frontier.
Visit ==
  /\ Walking
  /\ LET child == frontier[at] IN
     \E new \in NewParents(child) :
       LET appended == next \o new
           found == {new[i] : i \in DOMAIN new}
       IN
       /\ next' = appended
       /\ frontier' = Overwritten(appended)
       /\ closure' = closure \cup found
       /\ depth' = [p \in Tables |-> IF p \in found THEN depth[child] + 1 ELSE depth[p]]
       /\ requiredBy' = [p \in Tables |->
            IF p \in ParentsOf(child) \ selected THEN requiredBy[p] \cup {child}
            ELSE requiredBy[p]]
  /\ at' = at + 1
  /\ UNCHANGED <<edges, selected, order>>

Advance_NoReset ==
  /\ ~ Walking /\ next # <<>>
  /\ frontier' \in Sorted({next[i] : i \in DOMAIN next})
  /\ next' = <<>>
  /\ UNCHANGED <<edges, selected, at, closure, depth, requiredBy, order>>

\* frontier = next, sorted.
Advance ==
  /\ ~ Walking /\ next # <<>>
  /\ frontier' \in Sorted({next[i] : i \in DOMAIN next})
  /\ at' = 1 /\ next' = <<>>
  /\ UNCHANGED <<edges, selected, closure, depth, requiredBy, order>>

-----------------------------------------------------------------------------
\* Kahn's algorithm over the closure, the smallest ready table first; the
\* queue holds the tables whose inDegree has come down to 0.
Walked == ~ Walking /\ next = <<>>
Placed == {order[i] : i \in DOMAIN order}

Ready_SelfCounts ==
  {t \in closure \ Placed : ParentsOf(t) \cap closure \subseteq Placed}

Ready == {t \in closure \ Placed : ParentsOf(t) \cap closure \subseteq Placed \cup {t}}

Place ==
  /\ Walked /\ Ready # {}
  /\ \E t \in Ready : /\ \A u \in Ready : t <= u
                      /\ order' = Append(order, t)
  /\ UNCHANGED <<edges, selected, frontier, at, next, closure, depth, requiredBy>>

\* A cycle: the tables in the order of their keys.
FallBack ==
  /\ Walked /\ Ready = {} /\ Placed # closure
  /\ order' \in Sorted(closure)
  /\ UNCHANGED <<edges, selected, frontier, at, next, closure, depth, requiredBy>>

DepNext == Visit \/ Advance \/ Place \/ FallBack
DepSpec == DepInit /\ [][DepNext]_depVars /\ WF_depVars(DepNext)

-----------------------------------------------------------------------------
\* S and what it refers to, directly or not: what every set has that holds S
\* and is closed under references.
Ancestors(S) ==
  {t \in Tables : \A C \in SUBSET Tables :
     S \subseteq C /\ (\A c \in C : ParentsOf(c) \subseteq C) => t \in C}

\* Only ancestors of the selection are suggested, and for a reason: a
\* dependency is required by tables of the closure that refer to it, and its
\* depth is one more than that of one of them (array reuse or not).
SuggestionsAreNeeded ==
  /\ closure \subseteq Ancestors(selected)
  /\ \A t \in closure \ selected :
       /\ requiredBy[t] \subseteq closure
       /\ \A c \in requiredBy[t] : <<c, t>> \in edges
       /\ \E c \in requiredBy[t] : depth[t] = depth[c] + 1

\* fkdeps.go:144 says that the walk is transitive.  It is if no table refers
\* to two others; otherwise the reused array loses children not yet visited,
\* with the tables only they refer to.
Diverges(t) == Cardinality(ParentsOf(t) \ {t}) > 1
ChainsAreClosed ==
  Walked /\ (\A t \in Tables : ~ Diverges(t)) =>
    /\ closure = Ancestors(selected)
    /\ \A t \in closure \ selected : requiredBy[t] = {c \in closure : <<c, t>> \in edges}

\* The sentence itself (fkdeps.go:144).
WalkIsTransitive == Walked => closure = Ancestors(selected)

\* The finished order has every table of the closure once, after the tables
\* it refers to - unless these references go round in a circle.
Circular == \E S \in (SUBSET closure) \ {{}} :
              \A t \in S : \E p \in S \ {t} : <<t, p>> \in edges
Finished == Walked /\ Placed = closure
ParentsComeFirst ==
  Finished =>
    /\ Len(order) = Cardinality(closure)
    /\ \A i, j \in DOMAIN order :
         <<order[i], order[j]>> \in edges => j <= i \/ Circular
=============================================================================
