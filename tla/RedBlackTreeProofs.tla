------------------------- MODULE RedBlackTreeProofs -------------------------
(***************************************************************************)
(* Theorems about RedBlackTree for any set of integer prices: it stays a   *)
(* red-black tree through every fix-up, it implements a set of price       *)
(* levels, and GetLevels lists that set best first.                        *)
(*                                                                         *)
(* Two functions carry the argument: sub, the prices below each node, and  *)
(* bh, its black height.  They are described by what they are at a node    *)
(* and its children (Spans, Links, Balanced, ...), so that each step gives *)
(* the functions of the next tree, and a subtree the step does not reach   *)
(* keeps its own.  What the model says with recursive functions is shown   *)
(* to be what sub and bh say, by induction from the leaves or the root.    *)
(***************************************************************************)
EXTENDS RedBlackTree, FiniteSetTheorems, SequenceTheorems, TLAPS

Colors == {"red", "black"}
Trees == [root : Nodes, color : [Nodes -> Colors],
          child : [Nodes -> [Sides -> Nodes \cup {Null}]], parent : [Nodes -> Nodes \cup {Null}]]

Typed(t) ==
    /\ t \in Trees
    /\ \A n \in Prices : t.parent[n] \in Nodes
    /\ \A n \in Prices, d \in Sides : t.child[n][d] \in Nodes

\* m is strictly on side d of n
Beyond(d, m, n) == IF d = "left" THEN m < n ELSE m > n

\* sub gives the prices below and at every node
Spans(t, sub) ==
    /\ sub \in [Nodes -> SUBSET Prices]
    /\ sub[Nil] = {}
    /\ \A n \in Prices : IsFiniteSet(sub[n])
    /\ \A n \in Prices, m \in Prices :
          m \in sub[n] <=> m = n \/ \E d \in Sides : m \in sub[t.child[n][d]]
    /\ \A n \in Prices, d \in Sides : \A m \in sub[t.child[n][d]] : Beyond(d, m, n)

\* parents match children, and what is not below the root has no links
Links(t, sub) ==
    /\ t.root # Nil => t.parent[t.root] = Nil
    /\ \A n \in Prices, d \in Sides : t.child[n][d] # Nil => t.parent[t.child[n][d]] = n
    /\ \A n \in Prices : n \notin sub[t.root] =>
          t.parent[n] = Nil /\ \A d \in Sides : t.child[n][d] = Nil
    /\ t.child[Nil] = Behind

Shape(t, sub) == Typed(t) /\ Spans(t, sub) /\ Links(t, sub)

-----------------------------------------------------------------------------
LEMMA LeastOne ==
    ASSUME NEW S \in SUBSET Nat, IsFiniteSet(S), S # {}
    PROVE  \E m \in S : \A x \in S : m <= x
<1> DEFINE Under(x) == {y \in S : y < x}
           R == StrictSubsetOrdering(S)
<1>1. IsWellFoundedOn(R, SUBSET S)
  BY FS_StrictSubsetOrderingWellFounded, FS_FiniteSubsetsOfFinite
<1>2. PICK U \in {Under(x) : x \in S} : \A V \in {Under(x) : x \in S} : ~(<<V, U>> \in R)
  <2>1. {Under(x) : x \in S} \subseteq SUBSET S /\ {Under(x) : x \in S} # {}
    OBVIOUS
  <2> HIDE DEF R, Under
  <2> QED
    BY <1>1, <2>1, WFMin
<1>3. PICK m \in S : U = Under(m)
  BY <1>2
<1>4. ASSUME NEW x \in S, x < m
      PROVE  FALSE
  <2>1. \A y \in S : (y < x => y < m) /\ ~(x < x)
    BY <1>4
  <2>2. Under(x) \subseteq Under(m) /\ x \in Under(m) /\ x \notin Under(x)
    BY <1>4, <2>1
  <2>3. <<Under(x), Under(m)>> \in R
    BY <2>2 DEF StrictSubsetOrdering
  <2> QED
    BY <1>2, <1>3, <2>3
<1> QED
  BY <1>4

LEMMA SideFacts ==
    /\ \A d \in Sides : Other(d) \in Sides /\ Other(d) # d /\ Other(Other(d)) = d
    /\ \A d, e \in Sides : e = d \/ e = Other(d)
BY DEF Sides, Other

\* Beyond is a strict order on the prices, and the two sides mirror each other.
LEMMA Order ==
    ASSUME NEW d \in Sides
    PROVE  /\ \A m \in Prices : ~Beyond(d, m, m)
           /\ \A m, n \in Prices : Beyond(d, m, n) => Beyond(Other(d), n, m) /\ ~Beyond(Other(d), m, n)
           /\ \A m, n \in Prices : m = n \/ Beyond(d, m, n) \/ Beyond(Other(d), m, n)
           /\ \A m, n, k \in Prices : Beyond(d, m, n) /\ Beyond(d, n, k) => Beyond(d, m, k)
BY PricesAssumption DEF Beyond, Sides, Other

\* What the definition of the subtrees says of a node and of a child.
LEMMA SpansFacts ==
    ASSUME NEW t, NEW sub, Typed(t), Spans(t, sub), NEW n \in Prices
    PROVE  /\ n \in sub[n] /\ IsFiniteSet(sub[n]) /\ sub[n] \subseteq Prices
           /\ \A d \in Sides : /\ t.child[n][d] \in Nodes
                               /\ sub[t.child[n][d]] \subseteq sub[n]
                               /\ n \notin sub[t.child[n][d]]
                               /\ sub[t.child[n][d]] \subseteq Prices
<1>1. \A d \in Sides : t.child[n][d] \in Nodes
  BY DEF Typed
<1>2. sub \in [Nodes -> SUBSET Prices]
  BY DEF Spans
<1>3. \A d \in Sides : sub[t.child[n][d]] \subseteq Prices
  BY <1>1, <1>2
<1>4. \A m \in Prices : m \in sub[n] <=> m = n \/ \E d \in Sides : m \in sub[t.child[n][d]]
  BY DEF Spans
<1>5. \A d \in Sides : ~(n \in sub[t.child[n][d]])
  BY Order DEF Spans
<1>6. sub[n] \subseteq Prices
  BY <1>2 DEF Nodes
<1>7. IsFiniteSet(sub[n])
  BY DEF Spans
<1> QED
  BY <1>1, <1>3, <1>4, <1>5, <1>6, <1>7

\* A child has fewer prices below it.
LEMMA Smaller ==
    ASSUME NEW t, NEW sub, Typed(t), Spans(t, sub), NEW n \in Prices, NEW d \in Sides,
           t.child[n][d] # Nil
    PROVE  /\ Cardinality(sub[n]) \in Nat /\ Cardinality(sub[t.child[n][d]]) \in Nat
           /\ Cardinality(sub[t.child[n][d]]) < Cardinality(sub[n])
<1>1. IsFiniteSet(sub[n]) /\ sub[t.child[n][d]] \subseteq sub[n]
      /\ sub[t.child[n][d]] # sub[n]
  BY SpansFacts
<1> QED
  BY <1>1, FS_Subset, FS_CardinalityType

\* A child is a node of its own, on its side.
LEMMA ChildFacts ==
    ASSUME NEW t, NEW sub, Typed(t), Spans(t, sub), NEW n \in Prices, NEW d \in Sides,
           NEW c, c = t.child[n][d], c # Nil
    PROVE  /\ c \in Prices /\ c \in sub[c] /\ c # n /\ n \notin sub[c] /\ c \in sub[n]
           /\ Beyond(d, c, n) /\ c # t.child[n][Other(d)]
<1>1. c \in Prices /\ Other(d) \in Sides /\ Other(d) # d
  BY SideFacts DEF Typed, Nodes
<1>2. c \in sub[c] /\ n \notin sub[c] /\ sub[c] \subseteq sub[n]
  BY <1>1, SpansFacts
<1>3. Beyond(d, c, n)
  BY <1>2 DEF Spans
<1>4. ASSUME c = t.child[n][Other(d)] PROVE FALSE
  <2>1. Beyond(Other(d), c, n)
    BY <1>1, <1>2, <1>4 DEF Spans
  <2> QED
    BY <1>1, <1>3, <2>1, Order
<1> QED
  BY <1>1, <1>2, <1>3, <1>4

\* A node is not its own child, and its children are two.
LEMMA ChildApart ==
    ASSUME NEW t, NEW sub, Typed(t), Spans(t, sub), NEW n \in Prices, NEW d \in Sides
    PROVE  t.child[n][d] # n /\ (t.child[n][d] # Nil => t.child[n][d] # t.child[n][Other(d)])
<1>1. CASE t.child[n][d] = Nil
  BY <1>1, PricesAssumption
<1>2. CASE t.child[n][d] # Nil
  BY <1>2, ChildFacts
<1> QED
  BY <1>1, <1>2

\* Induction from the leaves to the root.
LEMMA BottomUp ==
    ASSUME NEW t, NEW sub, Typed(t), Spans(t, sub), NEW S,
           \A n \in Prices : (\A d \in Sides : t.child[n][d] # Nil => t.child[n][d] \in S) => n \in S
    PROVE  \A n \in Prices : n \in S
<1> SUFFICES ASSUME NEW a \in Prices, a \notin S PROVE FALSE
  OBVIOUS
<1> DEFINE size(n) == Cardinality(sub[n])
           C == {k \in 0 .. size(a) : \E n \in Prices : n \notin S /\ k = size(n)}
<1>1. \A n \in Prices : size(n) \in Nat
  BY SpansFacts, FS_CardinalityType
<1>2. C \in SUBSET Nat /\ IsFiniteSet(C) /\ C # {}
  <2>1. IsFiniteSet(0 .. size(a))
    BY <1>1, FS_Interval
  <2>2. size(a) \in C
    BY <1>1
  <2>3. C \subseteq 0 .. size(a) /\ C \subseteq Nat
    BY <1>1
  <2> HIDE DEF C
  <2> QED
    BY <2>1, <2>2, <2>3, FS_Subset
<1>3. PICK k \in C : \A x \in C : k <= x
  <2> HIDE DEF C
  <2> QED
    BY <1>2, LeastOne
<1>4. PICK n \in Prices : n \notin S /\ k = size(n) /\ k \in 0 .. size(a)
  BY <1>3
<1>5. PICK d \in Sides : t.child[n][d] # Nil /\ t.child[n][d] \notin S
  BY <1>4
<1>6. t.child[n][d] \in Prices
  BY <1>5, SpansFacts DEF Nodes
<1>7. size(t.child[n][d]) < size(n) /\ size(t.child[n][d]) \in Nat
  BY <1>5, Smaller
<1>8. size(t.child[n][d]) \in C
  <2> HIDE DEF size
  <2> QED
    BY <1>1, <1>4, <1>5, <1>6, <1>7
<1> HIDE DEF size, C
<1> QED
  BY <1>1, <1>3, <1>4, <1>7, <1>8

\* What is below a node below n is below n.
LEMMA Transitive ==
    ASSUME NEW t, NEW sub, Typed(t), Spans(t, sub)
    PROVE  \A n \in Prices : \A m \in sub[n] : sub[m] \subseteq sub[n]
<1> DEFINE S == {n \in Prices : \A m \in sub[n] : sub[m] \subseteq sub[n]}
<1>1. ASSUME NEW n \in Prices, \A d \in Sides : t.child[n][d] # Nil => t.child[n][d] \in S,
             NEW m \in sub[n]
      PROVE  sub[m] \subseteq sub[n]
  <2>1. m \in Prices
    BY SpansFacts
  <2>2. m = n \/ \E d \in Sides : m \in sub[t.child[n][d]]
    BY <2>1 DEF Spans
  <2>3. CASE m = n
    BY <2>3
  <2>4. CASE \E d \in Sides : m \in sub[t.child[n][d]]
    <3>1. PICK d \in Sides : m \in sub[t.child[n][d]]
      BY <2>4
    <3>2. t.child[n][d] # Nil
      BY <3>1 DEF Spans
    <3>3. sub[m] \subseteq sub[t.child[n][d]]
      BY <1>1, <3>1, <3>2
    <3> QED
      BY <3>3, SpansFacts
  <2> QED
    BY <2>2, <2>3, <2>4
<1>2. \A n \in Prices : n \in S
  <2>1. \A n \in Prices : (\A d \in Sides : t.child[n][d] # Nil => t.child[n][d] \in S) => n \in S
    BY <1>1
  <2> HIDE DEF S
  <2> QED
    BY <2>1, BottomUp
<1> QED
  BY <1>2

\* Two sides of a node have no price in common.
LEMMA Disjoint ==
    ASSUME NEW t, NEW sub, Typed(t), Spans(t, sub), NEW n \in Prices, NEW d \in Sides, NEW e \in Sides,
           NEW m, m \in sub[t.child[n][d]], m \in sub[t.child[n][e]]
    PROVE  d = e
<1>1. m \in Prices /\ Beyond(d, m, n) /\ Beyond(e, m, n)
  BY SpansFacts DEF Spans
<1>2. e = d \/ e = Other(d)
  BY SideFacts
<1> QED
  BY <1>1, <1>2, Order

\* The parent of a price below n is below n, too, and has it as a child.
LEMMA ParentBelow ==
    ASSUME NEW t, NEW sub, Shape(t, sub)
    PROVE  \A n \in Prices : \A m \in sub[n] : m # n =>
              t.parent[m] \in sub[n] /\ \E d \in Sides : t.child[t.parent[m]][d] = m
<1> DEFINE P(n) == \A m \in sub[n] : m # n =>
                      t.parent[m] \in sub[n] /\ \E d \in Sides : t.child[t.parent[m]][d] = m
           S == {n \in Prices : P(n)}
<1>0. Typed(t) /\ Spans(t, sub) /\ Links(t, sub)
  BY DEF Shape
<1>1. ASSUME NEW n \in Prices, \A d \in Sides : t.child[n][d] # Nil => t.child[n][d] \in S,
             NEW m \in sub[n], m # n
      PROVE  t.parent[m] \in sub[n] /\ \E d \in Sides : t.child[t.parent[m]][d] = m
  <2>1. m \in Prices
    BY <1>0, SpansFacts
  <2>2. PICK d \in Sides : m \in sub[t.child[n][d]]
    BY <1>0, <1>1, <2>1 DEF Spans
  <2>3. t.child[n][d] # Nil
    BY <1>0, <2>2 DEF Spans
  <2>4. CASE m = t.child[n][d]
    <3>1. t.parent[m] = n
      BY <1>0, <2>3, <2>4 DEF Links
    <3> QED
      BY <1>0, <2>4, <3>1, SpansFacts
  <2>5. CASE m # t.child[n][d]
    <3>1. P(t.child[n][d])
      BY <1>1, <2>3
    <3>2. t.parent[m] \in sub[t.child[n][d]] /\ \E e \in Sides : t.child[t.parent[m]][e] = m
      BY <2>2, <2>5, <3>1
    <3>3. sub[t.child[n][d]] \subseteq sub[n]
      BY <1>0, SpansFacts
    <3> QED
      BY <3>2, <3>3
  <2> QED
    BY <2>4, <2>5
<1>2. \A n \in Prices : n \in S
  <2>1. \A n \in Prices : (\A d \in Sides : t.child[n][d] # Nil => t.child[n][d] \in S) => n \in S
    BY <1>1
  <2> HIDE DEF S
  <2> QED
    BY <1>0, <2>1, BottomUp
<1> QED
  BY <1>2

\* A node with a parent is in the tree, below that parent, on the side the
\* code computes; only the root and what is not in the tree have no parent.
LEMMA ParentFacts ==
    ASSUME NEW t, NEW sub, Shape(t, sub), NEW n \in Prices
    PROVE  /\ t.parent[n] = Nil => n = t.root \/ n \notin sub[t.root]
           /\ n = t.root \/ n \notin sub[t.root] => t.parent[n] = Nil
           /\ t.parent[n] # Nil =>
                 /\ n \in sub[t.root] /\ n # t.root
                 /\ t.parent[n] \in sub[t.root] /\ t.parent[n] \in Prices /\ t.parent[n] # n
                 /\ Side(t, n) \in Sides /\ t.child[t.parent[n]][Side(t, n)] = n
                 /\ t.child[t.parent[n]][Other(Side(t, n))] # n
                 /\ n \in sub[n] /\ n \in sub[t.child[t.parent[n]][Side(t, n)]]
                 /\ sub[n] \subseteq sub[t.parent[n]]
<1>0. Typed(t) /\ Spans(t, sub) /\ Links(t, sub)
  BY DEF Shape
<1>1. t.root \in Nodes /\ t.parent[n] \in Nodes
  BY <1>0 DEF Typed, Trees
<1>2. n = t.root \/ n \notin sub[t.root] => t.parent[n] = Nil
  BY <1>0, PricesAssumption DEF Links
<1>3. ASSUME n \in sub[t.root], n # t.root
      PROVE  t.parent[n] \in sub[t.root] /\ t.parent[n] \in Prices /\ \E d \in Sides : t.child[t.parent[n]][d] = n
  <2>1. t.root \in Prices
    BY <1>0, <1>1, <1>3 DEF Spans, Nodes
  <2>2. t.parent[n] \in sub[t.root] /\ \E d \in Sides : t.child[t.parent[n]][d] = n
    BY <1>3, <2>1, ParentBelow
  <2>3. sub[t.root] \subseteq Prices
    BY <1>0, <2>1, SpansFacts
  <2> QED
    BY <2>2, <2>3
<1>4. t.parent[n] = Nil => n = t.root \/ n \notin sub[t.root]
  BY <1>3, PricesAssumption
<1>5. ASSUME t.parent[n] # Nil
      PROVE  /\ n \in sub[t.root] /\ n # t.root
             /\ t.parent[n] \in sub[t.root] /\ t.parent[n] \in Prices /\ t.parent[n] # n
             /\ Side(t, n) \in Sides /\ t.child[t.parent[n]][Side(t, n)] = n
             /\ t.child[t.parent[n]][Other(Side(t, n))] # n
             /\ n \in sub[n] /\ n \in sub[t.child[t.parent[n]][Side(t, n)]]
             /\ sub[n] \subseteq sub[t.parent[n]]
  <2>1. n \in sub[t.root] /\ n # t.root
    BY <1>2, <1>5
  <2>2. t.parent[n] \in sub[t.root] /\ t.parent[n] \in Prices
    BY <1>3, <2>1
  <2>3. PICK d \in Sides : t.child[t.parent[n]][d] = n
    BY <1>3, <2>1
  <2>4. n \in sub[n]
    BY <1>0, SpansFacts
  <2>5. Side(t, n) = d
    <3>1. CASE d = "left"
      BY <2>3, <3>1 DEF Side, Left
    <3>2. CASE d = "right"
      <4>1. ASSUME n = t.child[t.parent[n]]["left"] PROVE FALSE
        BY <1>0, <2>2, <2>3, <2>4, <3>2, <4>1, Disjoint DEF Sides
      <4> QED
        BY <3>2, <4>1 DEF Side, Left
    <3> QED
      BY <3>1, <3>2 DEF Sides
  <2>6. t.child[t.parent[n]][Other(d)] # n
    BY <1>0, <2>2, <2>3, <2>4, SideFacts, Disjoint
  <2>7. t.parent[n] # n
    BY <1>0, <2>2, <2>3, <2>4, SpansFacts
  <2>8. sub[n] \subseteq sub[t.parent[n]]
    BY <1>0, <2>2, <2>3, SpansFacts
  <2> QED
    BY <2>1, <2>2, <2>3, <2>4, <2>5, <2>6, <2>7, <2>8
<1> QED
  BY <1>2, <1>4, <1>5

\* Induction from the root to the leaves.
LEMMA TopDown ==
    ASSUME NEW t, NEW sub, Shape(t, sub), NEW S,
           \A n \in sub[t.root] : (t.parent[n] # Nil => t.parent[n] \in S) => n \in S
    PROVE  \A n \in sub[t.root] : n \in S
<1> SUFFICES ASSUME NEW a \in sub[t.root], a \notin S PROVE FALSE
  OBVIOUS
<1>0. Typed(t) /\ Spans(t, sub) /\ Links(t, sub) /\ t.root \in Prices /\ sub[t.root] \subseteq Prices
  <2>1. Typed(t) /\ Spans(t, sub) /\ Links(t, sub) /\ t.root \in Nodes
    BY DEF Shape, Typed, Trees
  <2>2. t.root \in Prices
    BY <2>1 DEF Spans, Nodes
  <2> QED
    BY <2>1, <2>2, SpansFacts
<1> DEFINE all == Cardinality(sub[t.root])
           size(n) == all - Cardinality(sub[n])
           C == {k \in 0 .. all : \E n \in sub[t.root] : n \notin S /\ k = size(n)}
<1>1. all \in Nat /\ \A n \in sub[t.root] : size(n) \in 0 .. all
  <2>1. IsFiniteSet(sub[t.root]) /\ all \in Nat
    BY <1>0, SpansFacts, FS_CardinalityType
  <2>2. ASSUME NEW n \in sub[t.root]
        PROVE  Cardinality(sub[n]) \in Nat /\ Cardinality(sub[n]) <= all
    <3>1. sub[n] \subseteq sub[t.root]
      BY <1>0, Transitive
    <3> QED
      BY <2>1, <3>1, FS_Subset, FS_CardinalityType
  <2> QED
    BY <2>1, <2>2
<1>2. C \in SUBSET Nat /\ IsFiniteSet(C) /\ C # {}
  <2>1. IsFiniteSet(0 .. all)
    BY <1>1, FS_Interval
  <2>2. size(a) \in C
    BY <1>1
  <2>3. C \subseteq 0 .. all /\ C \subseteq Nat
    BY <1>1
  <2> HIDE DEF C
  <2> QED
    BY <2>1, <2>2, <2>3, FS_Subset
<1>3. PICK k \in C : \A x \in C : k <= x
  <2> HIDE DEF C
  <2> QED
    BY <1>2, LeastOne
<1>4. PICK n \in sub[t.root] : n \notin S /\ k = size(n)
  BY <1>3
<1>5. t.parent[n] # Nil /\ t.parent[n] \notin S
  BY <1>4
<1>6. t.parent[n] \in sub[t.root] /\ t.parent[n] \in Prices /\ Side(t, n) \in Sides
      /\ t.child[t.parent[n]][Side(t, n)] = n /\ n # Nil
  <2>1. n \in Prices /\ n # Nil
    BY <1>0, PricesAssumption
  <2> QED
    BY <1>5, <2>1, ParentFacts
<1>7. /\ Cardinality(sub[t.parent[n]]) \in Nat /\ Cardinality(sub[n]) \in Nat
      /\ Cardinality(sub[n]) < Cardinality(sub[t.parent[n]])
  BY <1>0, <1>6, Smaller
<1>8. size(t.parent[n]) \in C
  BY <1>1, <1>5, <1>6
<1>9. size(t.parent[n]) < size(n)
  BY <1>1, <1>7
<1> HIDE DEF size, C
<1> QED
  BY <1>1, <1>3, <1>4, <1>6, <1>8, <1>9

-----------------------------------------------------------------------------
(* What the setters and the rotation do, field by field.                    *)

ChildSet(t, u, n, d, c) ==
    /\ u \in Trees /\ u.root = t.root /\ u.color = t.color /\ u.parent = t.parent
    /\ \A m \in Nodes, e \in Sides : u.child[m][e] = IF m = n /\ e = d THEN c ELSE t.child[m][e]
    /\ \A m \in Nodes : m # n => u.child[m] = t.child[m]

ParentSet(t, u, n, p) ==
    /\ u \in Trees /\ u.root = t.root /\ u.color = t.color /\ u.child = t.child
    /\ \A m \in Nodes : u.parent[m] = IF m = n THEN p ELSE t.parent[m]

Painted(t, u, n, c) ==
    /\ u \in Trees /\ u.root = t.root /\ u.child = t.child /\ u.parent = t.parent
    /\ \A m \in Nodes : u.color[m] = IF m = n THEN c ELSE t.color[m]

Hung(t, u, p, d, v) ==
    /\ u \in Trees /\ u.color = t.color /\ u.parent = t.parent
    /\ u.root = IF p = Nil THEN v ELSE t.root
    /\ \A m \in Nodes, e \in Sides : u.child[m][e] =
          IF p # Nil /\ m = p /\ e = d THEN v ELSE t.child[m][e]
    /\ \A m \in Nodes : (p = Nil \/ m # p) => u.child[m] = t.child[m]

Freshened(t, u, n, c) ==
    /\ u \in Trees /\ u.root = t.root
    /\ \A m \in Nodes : u.color[m] = IF m = n THEN c ELSE t.color[m]
    /\ \A m \in Nodes : u.parent[m] = IF m = n THEN Nil ELSE t.parent[m]
    /\ \A d \in Sides : u.child[n][d] = Nil
    /\ \A m \in Nodes : m # n => u.child[m] = t.child[m]

\* y has come up in place of x below p, and b has gone from y to x
Rotated(t, u, x, d, y, b, p) ==
    /\ u \in Trees /\ u.color = t.color
    /\ u.root = IF p = Nil THEN y ELSE t.root
    /\ u.parent[x] = y /\ u.parent[y] = p /\ (b # Nil => u.parent[b] = x)
    /\ \A m \in Nodes : m \notin {x, y} /\ (m # b \/ b = Nil) => u.parent[m] = t.parent[m]
    /\ u.child[y][d] = x /\ u.child[y][Other(d)] = t.child[y][Other(d)]
    /\ u.child[x][Other(d)] = b /\ u.child[x][d] = t.child[x][d]
    /\ p # Nil => \A e \in Sides : u.child[p][e] = IF e = Side(t, x) THEN y ELSE t.child[p][e]
    /\ \A m \in Nodes : m \notin {x, y} /\ (m # p \/ p = Nil) => u.child[m] = t.child[m]

LEMMA SetChildReads ==
    ASSUME NEW t \in Trees, NEW n \in Nodes, NEW d \in Sides, NEW c \in Nodes
    PROVE  ChildSet(t, SetChild(t, n, d, c), n, d, c)
BY DEF SetChild, Trees, ChildSet

LEMMA SetParentReads ==
    ASSUME NEW t \in Trees, NEW n \in Nodes, NEW p \in Nodes
    PROVE  ParentSet(t, SetParent(t, n, p), n, p)
BY DEF SetParent, Trees, ParentSet

LEMMA PaintReads ==
    ASSUME NEW t \in Trees, NEW n \in Nodes, NEW c \in Colors
    PROVE  Painted(t, Paint(t, n, c), n, c)
BY DEF Paint, Trees, Painted

LEMMA FreshReads ==
    ASSUME NEW t \in Trees, NEW n \in Nodes, NEW c \in Colors
    PROVE  Freshened(t, Fresh(t, n, c), n, c)
<1> DEFINE t1 == [t EXCEPT !.child[n] = Leaf]
           t2 == Paint(t1, n, c)
           u == SetParent(t2, n, Nil)
<1>1. /\ t1 \in Trees /\ t1.root = t.root /\ t1.color = t.color /\ t1.parent = t.parent
      /\ t1.child[n] = Leaf /\ \A m \in Nodes : m # n => t1.child[m] = t.child[m]
  BY DEF Trees, Leaf, Nodes
<1>2. Fresh(t, n, c) = u
  BY DEF Fresh
<1>d. t2 = Paint(t1, n, c) /\ u = SetParent(t2, n, Nil)
  OBVIOUS
<1> HIDE DEF t1, t2, u
<1>3. Painted(t1, t2, n, c)
  BY <1>1, <1>d, PaintReads
<1>4. t2 \in Trees /\ Nil \in Nodes
  BY <1>3 DEF Nodes, Painted
<1>5. ParentSet(t2, u, n, Nil)
  BY <1>4, <1>d, SetParentReads
<1>6. \A d \in Sides : Leaf[d] = Nil
  BY DEF Leaf
<1> QED
  BY <1>1, <1>2, <1>3, <1>5, <1>6 DEF Freshened, Painted, ParentSet

LEMMA HangReads ==
    ASSUME NEW t \in Trees, NEW p \in Nodes, NEW d \in Sides, NEW v \in Nodes
    PROVE  Hung(t, Hang(t, p, d, v), p, d, v)
<1>1. CASE p = Nil
  BY <1>1 DEF Hang, Hung, SetRoot, Trees
<1>2. CASE p # Nil
  <2>1. Hang(t, p, d, v) = SetChild(t, p, d, v)
    BY <1>2 DEF Hang
  <2>2. ChildSet(t, SetChild(t, p, d, v), p, d, v)
    BY SetChildReads
  <2> QED
    BY <1>2, <2>1, <2>2 DEF ChildSet, Hung
<1> QED
  BY <1>1, <1>2

\* Side gives one of the sides.
LEMMA SideIsSide == \A t, n : Side(t, n) \in Sides
BY DEF Side, Sides

LEMMA RotateReads ==
    ASSUME NEW t, Typed(t), NEW x \in Prices, NEW d \in Sides,
           NEW y \in Prices, y = t.child[x][Other(d)], NEW b \in Nodes, b = t.child[y][d],
           NEW p \in Nodes, p = t.parent[x], x # y, p # x, p # y, b # x, b # y
    PROVE  Rotated(t, Rotate(t, x, d), x, d, y, b, p)
<1> DEFINE o == Other(d)
           s == Side(t, x)
           t1 == SetChild(t, x, o, b)
           t2 == IF b = Nil THEN t1 ELSE SetParent(t1, b, x)
           t3 == SetParent(t2, y, p)
           t4 == Hang(t3, p, s, y)
           t5 == SetChild(t4, y, d, x)
           u == SetParent(t5, x, y)
<1>0. /\ t \in Trees /\ o \in Sides /\ o # d /\ s \in Sides /\ x \in Nodes /\ y \in Nodes
      /\ x # Nil /\ y # Nil
  BY SideFacts, SideIsSide, PricesAssumption DEF Typed, Nodes
<1>u. Rotate(t, x, d) = u
  BY DEF Rotate
<1>d. /\ t1 = SetChild(t, x, o, b) /\ t2 = IF b = Nil THEN t1 ELSE SetParent(t1, b, x)
      /\ t3 = SetParent(t2, y, p) /\ t4 = Hang(t3, p, s, y) /\ t5 = SetChild(t4, y, d, x)
      /\ u = SetParent(t5, x, y)
  OBVIOUS
<1> HIDE DEF s, o, t1, t2, t3, t4, t5, u
<1>1. ChildSet(t, t1, x, o, b)
  BY Zenon, <1>0, <1>d, SetChildReads
<1>2. /\ t2 \in Trees /\ t2.root = t1.root /\ t2.color = t1.color /\ t2.child = t1.child
      /\ \A m \in Nodes : t2.parent[m] = IF b # Nil /\ m = b THEN x ELSE t1.parent[m]
  <2>1. CASE b = Nil
    BY <1>d, <1>1, <2>1 DEF ChildSet
  <2>2. CASE b # Nil
    <3>1. t1 \in Trees
      BY <1>1 DEF ChildSet
    <3>2. ParentSet(t1, SetParent(t1, b, x), b, x)
      BY <1>0, <3>1, SetParentReads
    <3> QED
      BY Zenon, <1>d, <2>2, <3>2 DEF ParentSet
  <2> QED
    BY <2>1, <2>2
<1>3. ParentSet(t2, t3, y, p)
  BY Zenon, <1>0, <1>2, <1>d, SetParentReads
<1>4. Hung(t3, t4, p, s, y)
  <2>1. t3 \in Trees
    BY <1>3 DEF ParentSet
  <2> QED
    BY Zenon, <1>0, <2>1, <1>d, HangReads
<1>5. ChildSet(t4, t5, y, d, x)
  <2>1. t4 \in Trees
    BY <1>4 DEF Hung
  <2> QED
    BY Zenon, <1>0, <2>1, <1>d, SetChildReads
<1>6. ParentSet(t5, u, x, y)
  <2>1. t5 \in Trees
    BY <1>5 DEF ChildSet
  <2> QED
    BY Zenon, <1>0, <2>1, <1>d, SetParentReads
<1>7. u \in Trees /\ u.color = t.color /\ u.root = IF p = Nil THEN y ELSE t.root
  BY <1>1, <1>2, <1>3, <1>4, <1>5, <1>6 DEF ChildSet, ParentSet, Hung
<1>8. \A m \in Nodes : u.parent[m] = IF m = x THEN y ELSE IF m = y THEN p
                                     ELSE IF b # Nil /\ m = b THEN x ELSE t.parent[m]
  BY <1>0, <1>1, <1>2, <1>3, <1>4, <1>5, <1>6 DEF ChildSet, ParentSet, Hung
<1>9. \A m \in Nodes, e \in Sides : u.child[m][e] =
         IF m = y /\ e = d THEN x ELSE IF p # Nil /\ m = p /\ e = s THEN y
         ELSE IF m = x /\ e = o THEN b ELSE t.child[m][e]
  BY <1>0, <1>1, <1>2, <1>3, <1>4, <1>5, <1>6 DEF ChildSet, ParentSet, Hung
<1>10. \A m \in Nodes : m \notin {x, y} /\ (m # p \/ p = Nil) => u.child[m] = t.child[m]
  BY <1>0, <1>1, <1>2, <1>3, <1>4, <1>5, <1>6 DEF ChildSet, ParentSet, Hung
<1>11. /\ u.child[y][d] = x /\ u.child[y][o] = t.child[y][o]
       /\ u.child[x][o] = b /\ u.child[x][d] = t.child[x][d]
       /\ p # Nil => \A e \in Sides : u.child[p][e] = IF e = s THEN y ELSE t.child[p][e]
  BY <1>0, <1>9
<1>12. /\ u.parent[x] = y /\ u.parent[y] = p /\ (b # Nil => u.parent[b] = x)
       /\ \A m \in Nodes : m \notin {x, y} /\ (m # b \/ b = Nil) => u.parent[m] = t.parent[m]
  BY <1>0, <1>8
<1> QED
  BY Zenon, <1>u, <1>7, <1>10, <1>11, <1>12 DEF s, o, Rotated

-----------------------------------------------------------------------------
(* A rotation keeps the shape.                                              *)

\* what a rotation of x below y starts from
Arms(t, sub, x, d, y, b, p) ==
    /\ x \in Prices /\ y \in Prices /\ b \in Nodes /\ p \in Nodes
    /\ y = t.child[x][Other(d)] /\ b = t.child[y][d] /\ p = t.parent[x]
    /\ x # y /\ p # x /\ p # y /\ b # x /\ b # y /\ (b # p \/ b = Nil)
    /\ x \in sub[t.root] /\ y \in sub[t.root]

LEMMA RotateArms ==
    ASSUME NEW t, NEW sub, Shape(t, sub), NEW x \in sub[t.root], NEW d \in Sides,
           t.child[x][Other(d)] # Nil,
           NEW y, y = t.child[x][Other(d)], NEW b, b = t.child[y][d], NEW p, p = t.parent[x]
    PROVE  Arms(t, sub, x, d, y, b, p)
<1>0. Typed(t) /\ Spans(t, sub) /\ Links(t, sub) /\ t.root \in Nodes /\ Other(d) \in Sides
  BY SideFacts DEF Shape, Typed, Trees
<1>1. t.root \in Prices /\ sub[t.root] \subseteq Prices /\ x \in Prices
  <2>1. t.root \in Prices
    BY <1>0 DEF Spans, Nodes
  <2> QED
    BY <1>0, <2>1, SpansFacts
<1>2. y \in Prices /\ b \in Nodes /\ p \in Nodes
  BY <1>0, <1>1 DEF Typed, Nodes
<1>3. x \in sub[x] /\ y \in sub[y] /\ sub[y] \subseteq sub[x] /\ x \notin sub[y]
      /\ sub[b] \subseteq sub[y] /\ y \notin sub[b]
  BY <1>0, <1>1, <1>2, SpansFacts
<1>4. y \in sub[t.root]
  BY <1>0, <1>1, <1>3, Transitive
<1>5. b # Nil => b \in sub[b]
  BY <1>0, <1>2, SpansFacts DEF Nodes
<1>6. b # y /\ b # x
  BY <1>1, <1>2, <1>3, <1>5, PricesAssumption
<1>7. x # Nil /\ y # Nil
  BY <1>1, <1>2, PricesAssumption
<1>8. p # Nil => p # x /\ x \in sub[p] /\ sub[x] \subseteq sub[p]
  BY <1>1, ParentFacts
<1>9. p # y
  BY <1>3, <1>7, <1>8
<1>10. b # p \/ b = Nil
  BY <1>3, <1>8
<1> QED
  BY <1>1, <1>2, <1>3, <1>4, <1>6, <1>7, <1>8, <1>9, <1>10 DEF Arms

\* the prices below every node after the rotation
Swung(sub, x, y, b) ==
    [n \in Nodes |-> IF n = x THEN (sub[x] \ sub[y]) \cup sub[b] ELSE IF n = y THEN sub[x] ELSE sub[n]]

LEMMA RotateShape ==
    ASSUME NEW t, NEW sub, Shape(t, sub), NEW x, NEW d \in Sides, NEW y, NEW b, NEW p,
           Arms(t, sub, x, d, y, b, p), NEW u, Rotated(t, u, x, d, y, b, p)
    PROVE  Shape(u, Swung(sub, x, y, b)) /\ Swung(sub, x, y, b)[u.root] = sub[t.root]
<1> DEFINE new == Swung(sub, x, y, b)
           o == Other(d)
<1>0. /\ Typed(t) /\ Spans(t, sub) /\ Links(t, sub) /\ t.root \in Nodes /\ o \in Sides /\ o # d
      /\ Other(o) = d /\ \A e \in Sides : e = d \/ e = o
  BY SideFacts DEF Shape, Typed, Trees
<1>1. /\ x \in Prices /\ y \in Prices /\ b \in Nodes /\ p \in Nodes
      /\ y = t.child[x][o] /\ b = t.child[y][d] /\ p = t.parent[x]
      /\ x # y /\ p # x /\ p # y /\ b # x /\ b # y /\ (b # p \/ b = Nil)
      /\ x \in sub[t.root] /\ y \in sub[t.root] /\ x # Nil /\ y # Nil
  BY PricesAssumption DEF Arms
<1>p. /\ u.parent[x] = y /\ u.parent[y] = p /\ (b # Nil => u.parent[b] = x)
      /\ \A m \in Nodes : m \notin {x, y} /\ (m # b \/ b = Nil) => u.parent[m] = t.parent[m]
  BY DEF Rotated
<1>r. u \in Trees /\ u.root = IF p = Nil THEN y ELSE t.root
  BY DEF Rotated
<1>2. /\ u.child[y][d] = x /\ u.child[y][o] = t.child[y][o]
      /\ u.child[x][o] = b /\ u.child[x][d] = t.child[x][d]
      /\ p # Nil => \A e \in Sides : u.child[p][e] = IF e = Side(t, x) THEN y ELSE t.child[p][e]
      /\ \A m \in Nodes : m \notin {x, y} /\ (m # p \/ p = Nil) => u.child[m] = t.child[m]
  BY DEF Rotated
<1>3. /\ new \in [Nodes -> SUBSET Prices]
      /\ new[x] = (sub[x] \ sub[y]) \cup sub[b] /\ new[y] = sub[x]
      /\ \A n \in Nodes : n \notin {x, y} => new[n] = sub[n]
  <2>1. sub \in [Nodes -> SUBSET Prices] /\ x \in Nodes /\ y \in Nodes
    BY <1>0, <1>1 DEF Spans, Nodes
  <2>2. \A n \in Nodes : new[n] = IF n = x THEN (sub[x] \ sub[y]) \cup sub[b] ELSE IF n = y THEN sub[x] ELSE sub[n]
    BY DEF Swung
  <2>3. new \in [Nodes -> SUBSET Prices]
    BY Zenon, <1>1, <2>1 DEF Swung
  <2> HIDE DEF new
  <2> QED
    BY Zenon, <1>1, <2>1, <2>2, <2>3
<1>t. /\ \A n \in Prices : n \in Nodes /\ n # Nil /\ t.parent[n] \in Nodes
      /\ \A n \in Prices, e \in Sides : t.child[n][e] \in Nodes
  BY <1>0, PricesAssumption DEF Typed, Nodes
<1> HIDE DEF new, o
<1>4. p # Nil => Side(t, x) \in Sides /\ t.child[p][Side(t, x)] = x /\ p \in Prices
                 /\ t.child[p][Other(Side(t, x))] # x
  BY Zenon, <1>1, ParentFacts
<1>5. \A n \in Prices, e \in Sides : (t.child[n][e] = x => n = p) /\ (t.child[n][e] = y => n = x)
  BY <1>0, <1>1 DEF Links
<1>6. Typed(u)
  <2>1. \A n \in Prices : u.parent[n] \in Nodes
    BY Zenon, <1>1, <1>t, <1>p
  <2>2. \A n \in Prices, e \in Sides : u.child[n][e] \in Nodes
    <3> SUFFICES ASSUME NEW n \in Prices, NEW e \in Sides PROVE u.child[n][e] \in Nodes
      OBVIOUS
    <3>0. e = d \/ e = o
      BY <1>0
    <3>1. CASE n = x
      BY <1>1, <1>t, <1>2, <3>0, <3>1
    <3>2. CASE n = y
      <4>1. u.child[y][d] \in Nodes /\ u.child[y][o] \in Nodes
        BY <1>0, <1>1, <1>t, <1>2
      <4> QED
        BY <3>0, <3>2, <4>1
    <3>3. CASE n = p /\ n # x /\ n # y
      BY Zenon, <1>1, <1>t, <1>2, <3>3
    <3>4. CASE n # p /\ n # x /\ n # y
      BY <1>1, <1>t, <1>2, <3>4
    <3> QED
      BY <3>1, <3>2, <3>3, <3>4
  <2> QED
    BY <1>r, <2>1, <2>2 DEF Typed
<1>7. /\ sub[x] = {x} \cup sub[t.child[x][d]] \cup sub[y]
      /\ sub[y] = {y} \cup sub[b] \cup sub[t.child[y][o]]
      /\ x \notin sub[y] /\ x \notin sub[t.child[x][d]]
      /\ y \notin sub[b] /\ y \notin sub[t.child[y][o]]
      /\ sub[t.child[x][d]] \subseteq Prices /\ sub[t.child[y][o]] \subseteq Prices /\ sub[b] \subseteq Prices
  <2>1. \A n \in Prices : sub[n] = {n} \cup sub[t.child[n][d]] \cup sub[t.child[n][o]]
    <3> TAKE n \in Prices
    <3>1. \A m \in Prices : m \in sub[n] <=> m = n \/ m \in sub[t.child[n][d]] \/ m \in sub[t.child[n][o]]
      BY <1>0 DEF Spans
    <3>2. sub[n] \subseteq Prices /\ sub[t.child[n][d]] \subseteq Prices /\ sub[t.child[n][o]] \subseteq Prices
      BY <1>0, SpansFacts
    <3> QED
      BY <3>1, <3>2
  <2>2. sub[x] = {x} \cup sub[t.child[x][d]] \cup sub[y] /\ sub[y] = {y} \cup sub[b] \cup sub[t.child[y][o]]
    BY Zenon, <1>1, <2>1
  <2>3. /\ x \notin sub[t.child[x][o]] /\ x \notin sub[t.child[x][d]]
        /\ y \notin sub[t.child[y][d]] /\ y \notin sub[t.child[y][o]]
        /\ sub[t.child[x][d]] \subseteq Prices /\ sub[t.child[y][o]] \subseteq Prices
        /\ sub[t.child[y][d]] \subseteq Prices
    <3>1. \A n \in Prices, e \in Sides : n \notin sub[t.child[n][e]] /\ sub[t.child[n][e]] \subseteq Prices
      BY <1>0, SpansFacts
    <3> QED
      BY Zenon, <1>0, <1>1, <3>1
  <2> QED
    BY Zenon, <1>1, <2>2, <2>3
<1>8. new[x] = {x} \cup sub[t.child[x][d]] \cup sub[b]
  <2>1. \A m : ~(m \in sub[t.child[x][d]] /\ m \in sub[y])
    BY <1>0, <1>1, Disjoint
  <2> QED
    BY <1>3, <1>7, <2>1
<1> DEFINE a == t.child[x][d]
           c == t.child[y][o]
<1>9. /\ new[a] = sub[a] /\ new[b] = sub[b] /\ new[c] = sub[c]
      /\ a \in Nodes /\ c \in Nodes
  <2>1. a \in Nodes /\ c \in Nodes
    BY <1>0, <1>1 DEF Typed
  <2>2. a # x /\ b # x /\ c # x
    BY <1>0, <1>1, <1>5
  <2>3. a # y /\ b # y /\ c # y
    <3>1. a # y
      BY <1>0, <1>1, ChildFacts
    <3> QED
      BY <1>0, <1>1, <1>5, <3>1
  <2> QED
    BY Zenon, <1>1, <1>3, <2>1, <2>2, <2>3
<1>10. \A n \in Prices : n \notin {x, y} => \A e \in Sides :
          new[u.child[n][e]] = sub[t.child[n][e]] /\ u.child[n][e] \in Nodes
  <2> SUFFICES ASSUME NEW n \in Prices, n # x, n # y, NEW e \in Sides
               PROVE  new[u.child[n][e]] = sub[t.child[n][e]] /\ u.child[n][e] \in Nodes
    OBVIOUS
  <2>0. t.child[n][e] \in Nodes /\ n \in Nodes /\ n # Nil
    BY <1>0, PricesAssumption DEF Typed, Nodes
  <2>1. CASE n = p /\ e = Side(t, x)
    BY Zenon, <1>1, <1>2, <1>3, <1>4, <2>0, <2>1 DEF Nodes
  <2>2. CASE n = p /\ e # Side(t, x)
    <3>1. u.child[n][e] = t.child[n][e]
      BY <1>2, <2>0, <2>2
    <3>2. e = Other(Side(t, x))
      BY <1>4, <2>0, <2>2, SideFacts
    <3>3. t.child[n][e] # x /\ t.child[n][e] # y
      BY <1>4, <1>5, <2>0, <2>2, <3>2
    <3> QED
      BY <1>3, <2>0, <3>1, <3>3
  <2>3. CASE n # p
    <3>1. u.child[n][e] = t.child[n][e]
      BY <1>2, <2>0, <2>3
    <3>3. t.child[n][e] # x /\ t.child[n][e] # y
      BY <1>5, <2>3
    <3> QED
      BY <1>3, <2>0, <3>1, <3>3
  <2> QED
    BY <2>1, <2>2, <2>3
<1>11. Spans(u, new)
  <2>1. new[Nil] = {}
    BY Zenon, <1>0, <1>1, <1>3 DEF Spans, Nodes
  <2>2. \A n \in Prices : IsFiniteSet(new[n])
    <3>1. IsFiniteSet(sub[x])
      BY <1>0, <1>1, SpansFacts
    <3>2. new[x] \subseteq sub[x]
      BY <1>7, <1>8
    <3>3. IsFiniteSet(new[x]) /\ IsFiniteSet(new[y])
      BY <1>3, <3>1, <3>2, FS_Subset
    <3>4. \A n \in Prices : IsFiniteSet(sub[n])
      BY <1>0 DEF Spans
    <3> QED
      BY <1>3, <3>3, <3>4 DEF Nodes
  <2>3. ASSUME NEW n \in Prices
        PROVE  /\ \A m \in Prices : m \in new[n] <=> m = n \/ \E e \in Sides : m \in new[u.child[n][e]]
               /\ \A e \in Sides : \A m \in new[u.child[n][e]] : Beyond(e, m, n)
    <3>1. CASE n = x
      <4>1. new[u.child[x][d]] = sub[a] /\ new[u.child[x][o]] = sub[b]
        BY <1>2, <1>9
      <4>2. \A m \in Prices : m \in new[x] <=> m = x \/ m \in sub[a] \/ m \in sub[b]
        BY <1>8
      <4>3. \A m \in sub[a] : Beyond(d, m, x)
        BY <1>0, <1>1 DEF Spans
      <4>4. \A m \in sub[b] : Beyond(o, m, x)
        BY Zenon, <1>0, <1>1, <1>7 DEF Spans
      <4>5. \A m \in Prices : m \in new[n] <=> m = n \/ \E e \in Sides : m \in new[u.child[n][e]]
        BY <1>0, <3>1, <4>1, <4>2
      <4> QED
        BY <1>0, <3>1, <4>1, <4>3, <4>4, <4>5
    <3>2. CASE n = y
      <4>1. new[u.child[y][d]] = new[x] /\ new[u.child[y][o]] = sub[c]
        BY <1>2, <1>9
      <4>2. \A m \in Prices : m \in new[y] <=> m = y \/ m \in new[x] \/ m \in sub[c]
        BY <1>3, <1>7, <1>8
      <4>3. \A m \in sub[c] : Beyond(o, m, y)
        BY <1>0, <1>1 DEF Spans
      <4>4. \A m \in new[x] : Beyond(d, m, y)
        <5>1. Beyond(d, x, y)
          <6>1. Beyond(o, y, x)
            BY Zenon, <1>0, <1>1, <1>7 DEF Spans
          <6> QED
            BY <1>0, <1>1, <6>1, Order
        <5>2. \A m \in sub[a] : Beyond(d, m, x)
          BY <1>0, <1>1 DEF Spans
        <5>3. \A m \in sub[a] : Beyond(d, m, y)
          <6>1. \A m \in Prices : Beyond(d, m, x) => Beyond(d, m, y)
            BY <1>1, <5>1, Order
          <6> QED
            BY <1>7, <5>2, <6>1
        <5>4. \A m \in sub[b] : Beyond(d, m, y)
          BY <1>0, <1>1 DEF Spans
        <5> QED
          BY <1>8, <5>1, <5>3, <5>4
      <4>5. \A m \in Prices : m \in new[n] <=> m = n \/ \E e \in Sides : m \in new[u.child[n][e]]
        BY <1>0, <3>2, <4>1, <4>2
      <4> QED
        BY <1>0, <3>2, <4>1, <4>3, <4>4, <4>5
    <3>3. CASE n # x /\ n # y
      <4>1. new[n] = sub[n] /\ \A e \in Sides : new[u.child[n][e]] = sub[t.child[n][e]]
        BY <1>3, <1>10, <3>3 DEF Nodes
      <4>2. /\ \A m \in Prices : m \in sub[n] <=> m = n \/ \E e \in Sides : m \in sub[t.child[n][e]]
            /\ \A e \in Sides : \A m \in sub[t.child[n][e]] : Beyond(e, m, n)
        BY <1>0 DEF Spans
      <4> QED
        BY <4>1, <4>2
    <3> QED
      BY <3>1, <3>2, <3>3
  <2> QED
    BY <1>3, <2>1, <2>2, <2>3 DEF Spans
<1>12. new[u.root] = sub[t.root]
  <2>1. CASE p = Nil
    <3>1. x = t.root
      BY Zenon, <1>1, <2>1, ParentFacts
    <3> QED
      BY <1>r, <1>3, <2>1, <3>1 DEF Nodes
  <2>2. CASE p # Nil
    <3>1. t.root # x
      BY Zenon, <1>1, <2>2, ParentFacts
    <3>2. t.parent[y] = x
      BY <1>0, <1>1 DEF Links
    <3>3. t.root # y
      BY Zenon, <1>1, <3>2, ParentFacts
    <3> QED
      BY <1>0, <1>r, <1>3, <2>2, <3>1, <3>3
  <2> QED
    BY <2>1, <2>2
<1>13. Links(u, new)
  <2>1. u.root # Nil => u.parent[u.root] = Nil
    <3>1. CASE p = Nil
      BY <1>2, <1>p, <1>r, <1>t, <3>1
    <3>2. CASE p # Nil
      <4>1. t.root # x /\ t.root # Nil
        BY Zenon, <1>0, <1>1, <3>2, ParentFacts DEF Spans
      <4>2. t.parent[t.root] = Nil
        BY <1>0, <4>1 DEF Links
      <4>3. t.parent[y] = x /\ (b # Nil => t.parent[b] = y)
        BY <1>0, <1>1 DEF Links
      <4>4. t.root # y /\ (t.root # b \/ b = Nil)
        BY <1>1, <4>2, <4>3
      <4> QED
        BY <1>0, <1>2, <1>p, <1>r, <1>t, <3>2, <4>1, <4>2, <4>4
    <3> QED
      BY <3>1, <3>2
  <2>2. ASSUME NEW n \in Prices, NEW e \in Sides, u.child[n][e] # Nil
        PROVE  u.parent[u.child[n][e]] = n
    <3>0. n \in Nodes /\ n # Nil /\ t.child[n][e] \in Nodes
      BY <1>0, PricesAssumption DEF Nodes, Typed
    <3>1. CASE n = x
      <4>1. CASE e = o
        BY Zenon, <1>1, <1>2, <1>p, <1>r, <1>t, <2>2, <3>1, <4>1
      <4>2. CASE e = d
        <5>1. u.child[n][e] = a /\ a # Nil /\ t.parent[a] = x
          BY Zenon, <1>0, <1>1, <1>2, <1>p, <1>r, <1>t, <2>2, <3>1, <4>2 DEF Links
        <5>3. a # x /\ a # y
          BY <1>0, <1>1, <5>1, ChildFacts
        <5>4. a # b
          BY <1>0, <1>1, <5>1 DEF Links
        <5> QED
          BY <1>2, <1>p, <1>r, <1>t, <1>9, <3>1, <5>1, <5>3, <5>4
      <4> QED
        BY <1>0, <4>1, <4>2
    <3>2. CASE n = y
      <4>1. CASE e = d
        BY <1>2, <1>p, <1>r, <1>t, <3>2, <4>1
      <4>2. CASE e = o
        <5>1. u.child[n][e] = c /\ c # Nil /\ t.parent[c] = y
          BY Zenon, <1>0, <1>1, <1>2, <1>p, <1>r, <1>t, <2>2, <3>2, <4>2 DEF Links
        <5>2. c # x /\ c # y
          <6>1. c \in sub[y] /\ c # y
            BY <1>0, <1>1, <5>1, ChildFacts
          <6> QED
            BY <1>7, <6>1
        <5>3. c # b
          BY <1>0, <1>1, <5>1, ChildFacts
        <5> QED
          BY <1>2, <1>p, <1>r, <1>t, <1>9, <3>2, <5>1, <5>2, <5>3
      <4> QED
        BY <1>0, <4>1, <4>2
    <3>3. CASE n = p /\ n # x /\ n # y /\ e = Side(t, x)
      BY <1>2, <1>p, <1>r, <1>t, <3>0, <3>3
    <3>4. CASE n # x /\ n # y /\ ~(n = p /\ e = Side(t, x))
      <4>1. u.child[n][e] = t.child[n][e]
        BY <1>2, <1>p, <1>r, <1>t, <3>0, <3>4
      <4>2. t.parent[t.child[n][e]] = n
        BY <1>0, <2>2, <4>1 DEF Links
      <4>3. t.child[n][e] # y /\ t.child[n][e] # b
        BY <1>0, <1>1, <2>2, <3>4, <4>1, <4>2 DEF Links
      <4>4. t.child[n][e] # x
        BY <1>1, <1>4, <3>0, <3>4, <4>2, SideFacts
      <4> QED
        BY <1>2, <1>p, <1>r, <1>t, <3>0, <4>1, <4>2, <4>3, <4>4
    <3> QED
      BY <3>1, <3>2, <3>3, <3>4
  <2>3. ASSUME NEW n \in Prices, n \notin new[u.root]
        PROVE  u.parent[n] = Nil /\ \A e \in Sides : u.child[n][e] = Nil
    <3>1. n \notin sub[t.root]
      BY <1>12, <2>3
    <3>2. t.parent[n] = Nil /\ \A e \in Sides : t.child[n][e] = Nil
      BY <1>0, <3>1 DEF Links
    <3>3. n # x /\ n # y /\ n # p
      <4>1. p # Nil => p \in sub[t.root]
        BY Zenon, <1>1, ParentFacts
      <4> QED
        BY <1>1, <1>t, <3>1, <4>1
    <3>4. n # b
      BY <1>0, <1>1, <3>2, PricesAssumption DEF Links
    <3> QED
      BY <1>2, <1>p, <1>r, <1>t, <3>2, <3>3, <3>4 DEF Nodes
  <2>4. u.child[Nil] = Behind
    BY Zenon, <1>0, <1>1, <1>2 DEF Links, Nodes
  <2> QED
    BY <2>1, <2>2, <2>3, <2>4 DEF Links
<1> QED
  BY <1>6, <1>11, <1>12, <1>13 DEF Shape, new

\* Which children a rotation replaces: below the other nodes only x, by y.
LEMMA RotatedChildren ==
    ASSUME NEW t, NEW sub, Shape(t, sub), NEW x, NEW d \in Sides, NEW y, NEW b, NEW p,
           Arms(t, sub, x, d, y, b, p), NEW u, Rotated(t, u, x, d, y, b, p),
           NEW n \in Prices, n # x, n # y, NEW e \in Sides
    PROVE  /\ t.child[n][e] # y
           /\ t.child[n][e] = x => u.child[n][e] = y /\ n = p
           /\ t.child[n][e] # x => u.child[n][e] = t.child[n][e] /\ u.child[n][e] # y /\ u.child[n][e] # x
<1>1. /\ x \in Prices /\ y \in Prices /\ x # Nil /\ y # Nil /\ n # Nil /\ n \in Nodes
      /\ y = t.child[x][Other(d)] /\ p = t.parent[x] /\ x # y
  BY PricesAssumption DEF Arms, Nodes
<1>2. Typed(t) /\ Spans(t, sub) /\ Links(t, sub)
  BY DEF Shape
<1>3. t.child[n][e] = x => n = p
  BY <1>1, <1>2 DEF Links
<1>4. t.child[n][e] # y
  <2>1. t.parent[y] = x
    BY <1>1, <1>2, SideFacts DEF Links
  <2> QED
    BY <1>1, <1>2, <2>1 DEF Links
<1>5. /\ p # Nil => \A f \in Sides : u.child[p][f] = IF f = Side(t, x) THEN y ELSE t.child[p][f]
      /\ n # p => u.child[n] = t.child[n]
  BY <1>1 DEF Rotated
<1>6. p # Nil => Side(t, x) \in Sides /\ t.child[p][Side(t, x)] = x /\ t.child[p][Other(Side(t, x))] # x
  BY <1>1, ParentFacts
<1>7. t.child[n][e] = x => e = Side(t, x)
  BY <1>1, <1>3, <1>6, SideFacts
<1>8. t.child[n][e] = x => u.child[n][e] = y
  BY <1>1, <1>3, <1>5, <1>7
<1>9. t.child[n][e] # x => u.child[n][e] = t.child[n][e]
  BY <1>1, <1>5, <1>6
<1> QED
  BY <1>3, <1>4, <1>8, <1>9

\* A tree with the same links has the same shape.
SameLinks(t, u) == u \in Trees /\ u.root = t.root /\ u.child = t.child /\ u.parent = t.parent

LEMMA SameShape ==
    ASSUME NEW t, NEW sub, Shape(t, sub), NEW u, SameLinks(t, u)
    PROVE  Shape(u, sub)
<1>1. Typed(u)
  BY DEF Shape, SameLinks, Typed
<1>2. Spans(u, sub)
  BY DEF Shape, SameLinks, Spans
<1>3. Links(u, sub)
  BY DEF Shape, SameLinks, Links
<1> QED
  BY <1>1, <1>2, <1>3 DEF Shape

-----------------------------------------------------------------------------
(* Colors: the black nodes on the paths, and red nodes with red children.   *)

Weight(t, n) == IF t.color[n] = "black" THEN 1 ELSE 0

\* all paths down from n carry bh[n] black nodes, when those on side e of p
\* are counted as one more than they have
Balanced(t, bh, p, e) ==
    /\ bh \in [Nodes -> Nat]
    /\ bh[Nil] = 0
    /\ \A n \in Prices, d \in Sides :
          bh[n] = bh[t.child[n][d]] + Weight(t, n) + (IF n = p /\ d = e THEN 1 ELSE 0)

\* no red node but top has a red child but low
NoRedRed(t, top, low) ==
    \A n \in Prices, d \in Sides :
        t.color[n] = "red" /\ n # top => t.color[t.child[n][d]] = "black" \/ t.child[n][d] = low

\* the colors of x and y are exchanged
Exchanged(t, u, x, y) ==
    /\ SameLinks(t, u)
    /\ \A m \in Nodes : u.color[m] = IF m = x THEN t.color[y] ELSE IF m = y THEN t.color[x] ELSE t.color[m]

Traded(bh, x, y) == [n \in Nodes |-> IF n = x THEN bh[y] ELSE IF n = y THEN bh[x] ELSE bh[n]]

\* A red child that comes up and takes the color of its parent leaves the
\* numbers of black nodes as they were, also next to a path that lacks one.
LEMMA RotateBalanced ==
    ASSUME NEW t, NEW sub, Shape(t, sub), NEW x, NEW d \in Sides, NEW y, NEW b, NEW p,
           Arms(t, sub, x, d, y, b, p), NEW t1, Exchanged(t, t1, x, y),
           NEW u, Rotated(t1, u, x, d, y, b, p), t.color[y] = "red",
           NEW bh, NEW q, NEW e, Balanced(t, bh, q, e), q # y, q = x => e = d
    PROVE  Balanced(u, Traded(bh, x, y), q, e)
<1> DEFINE new == Traded(bh, x, y)
           o == Other(d)
           a == t.child[x][d]
           c == t.child[y][o]
<1>1. /\ x \in Prices /\ y \in Prices /\ b \in Nodes /\ p \in Nodes
      /\ y = t.child[x][o] /\ b = t.child[y][d] /\ p = t.parent[x]
      /\ x # y /\ p # x /\ p # y /\ b # x /\ b # y /\ x # Nil /\ y # Nil
      /\ x \in Nodes /\ y \in Nodes
  BY PricesAssumption DEF Arms, Nodes
<1>2. /\ o \in Sides /\ o # d /\ \A f \in Sides : f = d \/ f = o
      /\ Typed(t) /\ Spans(t, sub) /\ Links(t, sub)
  BY SideFacts DEF Shape
<1>3. Shape(t1, sub) /\ t1.child = t.child /\ t1.parent = t.parent
  BY SameShape DEF Exchanged, SameLinks
<1>4. Arms(t1, sub, x, d, y, b, p)
  BY <1>3 DEF Arms, Exchanged, SameLinks
<1>5. /\ u.child[y][d] = x /\ u.child[y][o] = c /\ u.child[x][o] = b /\ u.child[x][d] = a
      /\ \A m \in Nodes : u.color[m] = IF m = x THEN "red" ELSE IF m = y THEN t.color[x] ELSE t.color[m]
  BY <1>3 DEF Rotated, Exchanged
<1>6. /\ bh \in [Nodes -> Nat] /\ bh[Nil] = 0
      /\ \A n \in Prices, f \in Sides :
            bh[n] = bh[t.child[n][f]] + Weight(t, n) + (IF n = q /\ f = e THEN 1 ELSE 0)
  BY Zenon DEF Balanced
<1>7. /\ new \in [Nodes -> Nat] /\ new[x] = bh[y] /\ new[y] = bh[x]
      /\ \A n \in Nodes : n # x /\ n # y => new[n] = bh[n]
  BY <1>1, <1>6 DEF Traded
<1> HIDE DEF new
<1>8. a # x /\ a # y /\ c # x /\ c # y /\ a \in Nodes /\ c \in Nodes
  <2>1. a \in Nodes /\ c \in Nodes
    BY Zenon, <1>1, <1>2 DEF Typed
  <2>c. \A n \in Prices, k \in Sides :
           t.child[n][k] # n /\ (t.child[n][k] # Nil => t.child[n][k] # t.child[n][Other(k)])
    BY Zenon, <1>2, ChildApart
  <2>2. a # x /\ c # y
    BY Zenon, <1>1, <1>2, <2>c
  <2>3. a # y
    BY Zenon, <1>1, <2>c
  <2>4. c # x
    BY Zenon, <1>1, <1>2 DEF Links
  <2> QED
    BY <2>1, <2>2, <2>3, <2>4
<1>9. /\ new[a] = bh[a] /\ new[b] = bh[b] /\ new[c] = bh[c]
      /\ bh[a] \in Nat /\ bh[b] \in Nat /\ bh[c] \in Nat /\ bh[x] \in Nat /\ bh[y] \in Nat
  BY Zenon, <1>1, <1>6, <1>7, <1>8
<1>10. ASSUME NEW n \in Prices, NEW f \in Sides
       PROVE  new[n] = new[u.child[n][f]] + Weight(u, n) + (IF n = q /\ f = e THEN 1 ELSE 0)
  <2>0. Weight(t, y) = 0 /\ Weight(u, x) = 0 /\ Weight(u, y) = Weight(t, x)
        /\ Weight(t, x) \in Nat
    BY <1>1, <1>5 DEF Weight
  <2>1. bh[y] = bh[b] /\ bh[y] = bh[c]
    <3>1. \A g \in Sides : bh[y] = bh[t.child[y][g]] + Weight(t, y) + 0
      BY <1>1, <1>6
    <3>2. bh[y] = bh[b] + Weight(t, y) + 0
      BY Zenon, <1>1, <3>1
    <3>3. bh[y] = bh[c] + Weight(t, y) + 0
      BY <1>2, <3>1
    <3> QED
      BY <1>9, <2>0, <3>2, <3>3
  <2>2. bh[x] = bh[y] + Weight(t, x)
    <3>1. ~(x = q /\ o = e)
      BY <1>2
    <3>2. bh[x] = bh[y] + Weight(t, x) + 0
      BY <1>1, <1>2, <1>6, <3>1
    <3> QED
      BY <1>9, <2>0, <3>2
  <2>3. bh[x] = bh[a] + Weight(t, x) + (IF x = q /\ d = e THEN 1 ELSE 0)
    BY <1>1, <1>6
  <2>4. bh[y] = bh[a] + (IF x = q /\ d = e THEN 1 ELSE 0)
    BY <1>9, <2>0, <2>2, <2>3
  <2>5. CASE n = x
    BY <1>2, <1>5, <1>7, <1>9, <2>0, <2>1, <2>4, <2>5
  <2>6. CASE n = y
    BY <1>2, <1>5, <1>7, <1>9, <2>0, <2>1, <2>2, <2>6
  <2>7. CASE n # x /\ n # y
    <3>1. /\ t.child[n][f] # y
          /\ t.child[n][f] = x => u.child[n][f] = y
          /\ t.child[n][f] # x => u.child[n][f] = t.child[n][f]
      BY <1>3, <1>4, <2>7, RotatedChildren
    <3>2. t.child[n][f] \in Nodes /\ n \in Nodes
      BY <1>2 DEF Typed, Nodes
    <3>3. new[u.child[n][f]] = bh[t.child[n][f]] /\ new[n] = bh[n]
      BY <1>7, <2>7, <3>1, <3>2
    <3>4. Weight(u, n) = Weight(t, n)
      BY <1>5, <2>7, <3>2 DEF Weight
    <3> QED
      BY <1>6, <3>3, <3>4
  <2> QED
    BY <2>5, <2>6, <2>7
<1>11. new[Nil] = 0
  BY <1>1, <1>6, <1>7 DEF Nodes
<1> QED
  BY <1>7, <1>10, <1>11 DEF Balanced, new

\* Such a rotation leaves no red node with a red child, when the children of
\* the node that became red are black.
LEMMA RotateRed ==
    ASSUME NEW t, NEW sub, Shape(t, sub), NEW x, NEW d \in Sides, NEW y, NEW b, NEW p,
           Arms(t, sub, x, d, y, b, p), NEW t1, Exchanged(t, t1, x, y),
           NEW u, Rotated(t1, u, x, d, y, b, p), t.color[y] = "red",
           NEW top, NEW low, NEW low2, NoRedRed(t, top, low), low = low2 \/ low = y, x # low,
           t.color[b] = "black" \/ b = low2,
           t.color[t.child[x][d]] = "black" \/ t.child[x][d] = low2,
           t.color[x] = "red" => low2 = x /\ t.color[t.child[y][Other(d)]] = "black"
    PROVE  NoRedRed(u, top, low2)
<1> DEFINE o == Other(d)
           a == t.child[x][d]
           c == t.child[y][o]
<1>1. /\ x \in Prices /\ y \in Prices /\ b \in Nodes /\ p \in Nodes
      /\ y = t.child[x][o] /\ b = t.child[y][d] /\ p = t.parent[x]
      /\ x # y /\ p # x /\ p # y /\ b # x /\ b # y /\ x # Nil /\ y # Nil
      /\ x \in Nodes /\ y \in Nodes
  BY PricesAssumption DEF Arms, Nodes
<1>2. /\ o \in Sides /\ o # d /\ \A f \in Sides : f = d \/ f = o
      /\ Typed(t) /\ Spans(t, sub) /\ Links(t, sub)
  BY SideFacts DEF Shape
<1>3. Shape(t1, sub) /\ t1.child = t.child /\ t1.parent = t.parent
  BY SameShape DEF Exchanged, SameLinks
<1>4. Arms(t1, sub, x, d, y, b, p)
  BY <1>3 DEF Arms, Exchanged, SameLinks
<1>5. /\ u.child[y][d] = x /\ u.child[y][o] = c /\ u.child[x][o] = b /\ u.child[x][d] = a
      /\ \A m \in Nodes : u.color[m] = IF m = x THEN "red" ELSE IF m = y THEN t.color[x] ELSE t.color[m]
  BY <1>3 DEF Rotated, Exchanged
<1>6. \A n \in Prices, e \in Sides :
        t.color[n] = "red" /\ n # top => t.color[t.child[n][e]] = "black" \/ t.child[n][e] = low
  BY DEF NoRedRed
<1>7. a # x /\ a # y /\ c # x /\ c # y /\ a \in Nodes /\ c \in Nodes
  <2>1. a \in Nodes /\ c \in Nodes
    BY Zenon, <1>1, <1>2 DEF Typed
  <2>c. \A n \in Prices, e \in Sides :
           t.child[n][e] # n /\ (t.child[n][e] # Nil => t.child[n][e] # t.child[n][Other(e)])
    BY Zenon, <1>2, ChildApart
  <2>2. a # x /\ c # y
    BY Zenon, <1>1, <1>2, <2>c
  <2>3. a # y
    BY Zenon, <1>1, <2>c
  <2>4. c # x
    BY Zenon, <1>1, <1>2 DEF Links
  <2> QED
    BY <2>1, <2>2, <2>3, <2>4
<1>8. ASSUME NEW n \in Prices, NEW f \in Sides, u.color[n] = "red", n # top
      PROVE  u.color[u.child[n][f]] = "black" \/ u.child[n][f] = low2
  <2>1. CASE n = x
    <3>1. u.child[n][f] = a \/ u.child[n][f] = b
      BY <1>2, <1>5, <2>1
    <3>2. u.color[a] = t.color[a] /\ u.color[b] = t.color[b]
      BY Zenon, <1>1, <1>5, <1>7
    <3> QED
      BY <3>1, <3>2
  <2>2. CASE n = y
    <3>1. t.color[x] = "red"
      BY Zenon, <1>1, <1>5, <1>8, <2>2
    <3>2. u.child[n][f] = x \/ u.child[n][f] = c
      BY <1>2, <1>5, <2>2
    <3>3. u.color[c] = t.color[c]
      BY <1>5, <1>7
    <3> QED
      BY <3>1, <3>2, <3>3
  <2>3. CASE n # x /\ n # y
    <3>1. /\ t.child[n][f] # y
          /\ t.child[n][f] = x => u.child[n][f] = y
          /\ t.child[n][f] # x => u.child[n][f] = t.child[n][f]
      BY <1>3, <1>4, <2>3, RotatedChildren
    <3>2. t.child[n][f] \in Nodes /\ n \in Nodes
      BY <1>2 DEF Typed, Nodes
    <3>3. t.color[n] = "red"
      BY <1>5, <1>8, <2>3, <3>2
    <3>4. t.color[t.child[n][f]] = "black" \/ t.child[n][f] = low
      BY <1>6, <1>8, <3>3
    <3>5. CASE t.child[n][f] = x
      BY Zenon, <1>1, <1>5, <3>1, <3>4, <3>5
    <3>6. CASE t.child[n][f] # x
      BY <1>5, <3>1, <3>2, <3>4, <3>6
    <3> QED
      BY <3>5, <3>6
  <2> QED
    BY <2>1, <2>2, <2>3
<1> QED
  BY <1>8 DEF NoRedRed

\* A child knows its parent, and Side its side.
LEMMA SideIs ==
    ASSUME NEW t, NEW sub, Shape(t, sub), NEW n \in Prices, NEW d \in Sides,
           NEW c, c = t.child[n][d], c # Nil
    PROVE  c \in Prices /\ t.parent[c] = n /\ Side(t, c) = d
<1>1. Typed(t) /\ Spans(t, sub) /\ t.parent[c] = n
  BY DEF Shape, Links
<1>2. c \in Prices /\ c # t.child[n][Other(d)]
  BY <1>1, ChildFacts
<1>3. n # Nil
  BY PricesAssumption
<1>4. Side(t, c) \in Sides /\ t.child[n][Side(t, c)] = c
  BY <1>1, <1>2, <1>3, ParentFacts
<1>5. Side(t, c) = d \/ Side(t, c) = Other(d)
  BY <1>4, SideFacts
<1> QED
  BY <1>1, <1>2, <1>4, <1>5

-----------------------------------------------------------------------------
(* The three phases: at rest, and within either fix-up loop.                *)

Rest(t, sub, bh) ==
    /\ Shape(t, sub) /\ t.color[Nil] = "black"
    /\ Balanced(t, bh, Nil, "left") /\ NoRedRed(t, Nil, Nil)
    /\ t.color[t.root] = "black"

Inserting(t, z, sub, bh) ==
    /\ Shape(t, sub) /\ t.color[Nil] = "black"
    /\ Balanced(t, bh, Nil, "left") /\ NoRedRed(t, Nil, z)
    /\ z \in sub[t.root] /\ t.color[z] = "red"
    /\ z # t.root => t.color[t.root] = "black"

\* the paths through x lack a black node, unless x is the root
Deleting(t, x, sub, bh) ==
    /\ Shape(t, sub) /\ t.color[Nil] = "black"
    /\ x = t.root => Balanced(t, bh, Nil, "left")
    /\ x # t.root => /\ t.parent[x] \in sub[t.root] /\ t.child[t.parent[x]][Side(t, x)] = x
                     /\ Balanced(t, bh, t.parent[x], Side(t, x))
    /\ NoRedRed(t, x, x)
    /\ x \in sub[t.root] \cup {Nil}
    /\ x # t.root => t.color[t.root] = "black"

Raised(bh, n) == [m \in Nodes |-> IF m = n THEN bh[m] + 1 ELSE bh[m]]

\* A red node that becomes black makes up for a path that lacked a black node.
LEMMA BlackenBalanced ==
    ASSUME NEW t, NEW sub, Shape(t, sub), NEW n \in Prices, t.color[n] = "red",
           NEW u, Painted(t, u, n, "black"), NEW bh, NEW q, NEW e, Balanced(t, bh, q, e),
           \A m \in Prices, d \in Sides : t.child[m][d] = n <=> m = q /\ d = e
    PROVE  Balanced(u, Raised(bh, n), Nil, "left")
<1>1. /\ bh \in [Nodes -> Nat] /\ bh[Nil] = 0 /\ n \in Nodes /\ n # Nil
      /\ \A m \in Prices, f \in Sides :
            bh[m] = bh[t.child[m][f]] + Weight(t, m) + (IF m = q /\ f = e THEN 1 ELSE 0)
  BY PricesAssumption DEF Balanced, Nodes
<1>2. u.child = t.child /\ \A m \in Nodes : u.color[m] = IF m = n THEN "black" ELSE t.color[m]
  BY DEF Painted
<1> DEFINE new == Raised(bh, n)
<1>3. /\ new \in [Nodes -> Nat] /\ new[Nil] = 0
      /\ \A m \in Nodes : new[m] = IF m = n THEN bh[m] + 1 ELSE bh[m]
  BY <1>1 DEF Raised, Nodes
<1> HIDE DEF new
<1>4. ASSUME NEW m \in Prices, NEW f \in Sides
      PROVE  new[m] = new[u.child[m][f]] + Weight(u, m) + (IF m = Nil /\ f = "left" THEN 1 ELSE 0)
  <2>1. /\ t.child[m][f] \in Nodes /\ m \in Nodes /\ m # Nil
        /\ bh[m] \in Nat /\ bh[t.child[m][f]] \in Nat
    <3>1. t.child[m][f] \in Nodes /\ m \in Nodes /\ m # Nil
      BY PricesAssumption DEF Shape, Typed, Nodes
    <3> QED
      BY <1>1, <3>1
  <2>2. bh[m] = bh[t.child[m][f]] + Weight(t, m) + (IF m = q /\ f = e THEN 1 ELSE 0)
    BY <1>1
  <2>3. new[u.child[m][f]] = bh[t.child[m][f]] + (IF m = q /\ f = e THEN 1 ELSE 0)
    <3>1. u.child[m][f] = t.child[m][f]
      BY <1>2
    <3>2. CASE m = q /\ f = e
      <4>1. t.child[m][f] = n
        BY <3>2
      <4> QED
        BY <1>1, <1>3, <3>1, <3>2, <4>1
    <3>3. CASE ~(m = q /\ f = e)
      <4>1. t.child[m][f] # n
        BY <3>3
      <4> QED
        BY <1>3, <2>1, <3>1, <3>3, <4>1
    <3> QED
      BY <3>2, <3>3
  <2>4. CASE m = n
    <3>1. Weight(t, m) = 0 /\ Weight(u, m) = 1
      BY <1>1, <1>2, <2>4 DEF Weight
    <3>2. new[m] = bh[m] + 1
      BY <1>1, <1>3, <2>4
    <3> QED
      BY <2>1, <2>2, <2>3, <3>1, <3>2
  <2>5. CASE m # n
    <3>1. Weight(u, m) = Weight(t, m) /\ Weight(t, m) \in Nat
      BY <1>2, <2>1, <2>5 DEF Weight
    <3>2. new[m] = bh[m]
      BY <1>3, <2>1, <2>5
    <3> QED
      BY <2>1, <2>2, <2>3, <3>1, <3>2
  <2> QED
    BY <2>4, <2>5
<1> QED
  BY <1>3, <1>4 DEF Balanced, new

\* Where a child is: the place below its parent that Side tells, and no other.
LEMMA OnlyPlace ==
    ASSUME NEW t, NEW sub, Shape(t, sub), NEW n \in Prices
    PROVE  \A m \in Prices, d \in Sides : t.child[m][d] = n <=> m = t.parent[n] /\ d = Side(t, n)
<1>1. n # Nil
  BY PricesAssumption
<1>2. ASSUME NEW m \in Prices, NEW d \in Sides, t.child[m][d] = n
      PROVE  m = t.parent[n] /\ d = Side(t, n)
  BY <1>1, <1>2, SideIs
<1>3. ASSUME NEW m \in Prices, NEW d \in Sides, m = t.parent[n], d = Side(t, n)
      PROVE  t.child[m][d] = n
  BY <1>3, ParentFacts, PricesAssumption
<1> QED
  BY <1>2, <1>3

\* The root is nobody's child.
LEMMA RootHasNoPlace ==
    ASSUME NEW t, NEW sub, Shape(t, sub), t.root \in Prices
    PROVE  \A m \in Prices, d \in Sides : t.child[m][d] # t.root
<1>1. t.parent[t.root] = Nil
  BY PricesAssumption DEF Shape, Links
<1> QED
  BY <1>1, OnlyPlace, PricesAssumption

\* The relatives that a round of insertFixup looks at.
Family(t, z, sub, p, g, d, y) ==
    /\ z \in Prices /\ p \in Prices /\ g \in Prices /\ y \in Nodes /\ d \in Sides
    /\ p = t.parent[z] /\ g = t.parent[p] /\ d = Side(t, p) /\ y = t.child[g][Other(d)]
    /\ t.child[g][d] = p /\ Side(t, z) \in Sides /\ t.child[p][Side(t, z)] = z
    /\ t.child[p][Other(Side(t, z))] # z
    /\ p \in sub[t.root] /\ g \in sub[t.root] /\ p # g /\ p # z /\ y # p /\ y # g /\ p # t.root
    /\ t.color[p] = "red" /\ t.color[g] = "black"

LEMMA InsertFamily ==
    ASSUME NEW t, NEW sub, NEW bh, NEW z, Inserting(t, z, sub, bh), t.color[t.parent[z]] = "red",
           NEW p, p = t.parent[z], NEW g, g = t.parent[p], NEW d, d = Side(t, p),
           NEW y, y = t.child[g][Other(d)]
    PROVE  Family(t, z, sub, p, g, d, y)
<1>1. /\ Shape(t, sub) /\ t.color[Nil] = "black" /\ NoRedRed(t, Nil, z) /\ z \in sub[t.root]
      /\ z # t.root => t.color[t.root] = "black"
      /\ Typed(t) /\ Spans(t, sub) /\ t.root \in Nodes
  BY DEF Inserting, Shape, Typed, Trees
<1>2. t.root \in Prices /\ z \in Prices
  <2>1. t.root \in Prices
    BY <1>1 DEF Spans, Nodes
  <2> QED
    BY <1>1, <2>1, SpansFacts
<1>3. /\ p \in Prices /\ p \in sub[t.root] /\ z # t.root /\ t.child[p][Side(t, z)] = z /\ p # z
      /\ t.child[p][Other(Side(t, z))] # z /\ Side(t, z) \in Sides
  BY <1>1, <1>2, ParentFacts
<1>4. p # t.root
  BY <1>1, <1>3
<1>5. /\ g \in Prices /\ g \in sub[t.root] /\ d \in Sides /\ t.child[g][d] = p /\ p # g
      /\ t.child[g][Other(d)] # p
  BY <1>1, <1>3, <1>4, ParentFacts
<1>6. y \in Nodes /\ y # g
  <2>1. Other(d) \in Sides
    BY <1>5, SideFacts
  <2>2. y \in Nodes
    BY <1>1, <1>5, <2>1 DEF Typed
  <2>3. CASE y = Nil
    BY <1>5, <2>2, <2>3, PricesAssumption
  <2>4. CASE y # Nil
    BY <1>1, <1>5, <2>1, <2>2, <2>4, ChildFacts
  <2> QED
    BY <2>2, <2>3, <2>4
<1>7. t.color[g] = "black"
  <2>1. t.color[g] \in Colors
    BY <1>1, <1>5 DEF Typed, Trees, Nodes
  <2>2. t.color[g] = "red" /\ g # Nil => t.color[p] = "black" \/ p = z
    BY <1>1, <1>5 DEF NoRedRed
  <2> QED
    BY <1>3, <1>5, <2>1, <2>2, PricesAssumption DEF Colors
<1> QED
  BY <1>2, <1>3, <1>4, <1>5, <1>6, <1>7 DEF Family

\* A red uncle: the two red children of the grandparent become black.
LEMMA RepaintStep ==
    ASSUME NEW t, NEW sub, NEW bh, NEW z, Inserting(t, z, sub, bh), t.color[t.parent[z]] = "red",
           t.color[Uncle(t, z)] = "red"
    PROVE  \E new : Inserting(Repaint(t, z), t.parent[t.parent[z]], sub, new)
                    /\ Repaint(t, z).root = t.root
<1> DEFINE p == t.parent[z]
           g == t.parent[p]
           d == Side(t, p)
           y == t.child[g][Other(d)]
           t1 == Paint(t, p, "black")
           t2 == Paint(t1, y, "black")
           u == Paint(t2, g, "red")
           new == [m \in Nodes |-> IF m = p \/ m = y THEN bh[m] + 1 ELSE bh[m]]
<1>0. Family(t, z, sub, p, g, d, y)
  BY InsertFamily
<1>u. u = Repaint(t, z) /\ t.color[y] = "red"
  BY DEF Repaint, Uncle
<1>d. t1 = Paint(t, p, "black") /\ t2 = Paint(t1, y, "black") /\ u = Paint(t2, g, "red")
  OBVIOUS
<1>g. g = t.parent[t.parent[z]]
  OBVIOUS
<1> HIDE DEF p, g, d, y, t1, t2, u, new
<1>1. /\ p \in Prices /\ g \in Prices /\ y \in Nodes /\ d \in Sides /\ p = t.parent[z]
      /\ t.child[g][d] = p /\ t.child[g][Other(d)] = y /\ p \in sub[t.root] /\ g \in sub[t.root]
      /\ p # g /\ y # p /\ y # g /\ p # t.root /\ t.color[p] = "red" /\ t.color[g] = "black"
      /\ p \in Nodes /\ g \in Nodes
  BY <1>0 DEF Family, Nodes
<1>2. /\ Shape(t, sub) /\ t.color[Nil] = "black" /\ Balanced(t, bh, Nil, "left") /\ NoRedRed(t, Nil, z)
      /\ z # t.root => t.color[t.root] = "black"
      /\ Typed(t) /\ t \in Trees /\ t.root \in Nodes
  BY DEF Inserting, Shape, Typed, Trees
<1>3. /\ u \in Trees /\ u.root = t.root /\ u.child = t.child /\ u.parent = t.parent
      /\ \A m \in Nodes : u.color[m] = IF m = g THEN "red" ELSE IF m = p \/ m = y THEN "black" ELSE t.color[m]
  <2>1. Painted(t, t1, p, "black")
    BY <1>1, <1>2, <1>d, PaintReads DEF Colors
  <2>2. t1 \in Trees
    BY <2>1 DEF Painted
  <2>3. Painted(t1, t2, y, "black")
    BY <1>1, <2>2, <1>d, PaintReads DEF Colors
  <2>4. t2 \in Trees
    BY <2>3 DEF Painted
  <2>5. Painted(t2, u, g, "red")
    BY <1>1, <2>4, <1>d, PaintReads DEF Colors
  <2> QED
    BY <1>1, <2>1, <2>3, <2>5 DEF Painted
<1>4. Shape(u, sub)
  BY <1>2, <1>3, SameShape DEF SameLinks
<1>5. y # Nil /\ y \in Prices
  BY <1>1, <1>2, <1>u DEF Nodes
<1>6. Balanced(u, new, Nil, "left")
  <2>1. /\ bh \in [Nodes -> Nat] /\ bh[Nil] = 0
        /\ \A m \in Prices, f \in Sides :
              bh[m] = bh[t.child[m][f]] + Weight(t, m) + (IF m = Nil /\ f = "left" THEN 1 ELSE 0)
    BY <1>2 DEF Balanced
  <2>2. /\ new \in [Nodes -> Nat] /\ new[Nil] = 0
        /\ \A m \in Nodes : new[m] = IF m = p \/ m = y THEN bh[m] + 1 ELSE bh[m]
    BY <1>1, <1>5, <2>1, PricesAssumption DEF new, Nodes
  <2>3. ASSUME NEW m \in Prices, NEW f \in Sides
        PROVE  new[m] = new[t.child[m][f]] + Weight(u, m) + (IF m = Nil /\ f = "left" THEN 1 ELSE 0)
    <3>1. /\ t.child[m][f] \in Nodes /\ m \in Nodes /\ m # Nil
          /\ bh[m] \in Nat /\ bh[t.child[m][f]] \in Nat
      <4>1. t.child[m][f] \in Nodes /\ m \in Nodes /\ m # Nil
        BY <1>2, PricesAssumption DEF Typed, Nodes
      <4> QED
        BY <2>1, <4>1
    <3>2. bh[m] = bh[t.child[m][f]] + Weight(t, m)
      <4>1. Weight(t, m) \in Nat
        BY DEF Weight
      <4> QED
        BY <2>1, <3>1, <4>1
    <3>3. (t.child[m][f] = p \/ t.child[m][f] = y) <=> m = g
      <4>1. p # Nil
        BY <1>1, PricesAssumption
      <4>2. t.parent[p] = g /\ t.parent[y] = g
        BY <1>1, <1>2, <1>5, <4>1, SideFacts DEF Shape, Links
      <4>3. f = d \/ f = Other(d)
        BY <1>1, SideFacts
      <4>4. m = g => t.child[m][f] = p \/ t.child[m][f] = y
        BY <1>1, <4>3
      <4>5. t.child[m][f] = p \/ t.child[m][f] = y => m = g
        BY <1>2, <1>5, <4>1, <4>2 DEF Shape, Links
      <4> QED
        BY <4>4, <4>5
    <3>4. CASE m = g
      <4>1. Weight(t, m) = 1 /\ Weight(u, m) = 0
        BY <1>1, <1>3, <3>4 DEF Weight
      <4>2. new[m] = bh[m] /\ new[t.child[m][f]] = bh[t.child[m][f]] + 1
        BY <1>1, <2>2, <3>1, <3>3, <3>4
      <4> QED
        BY <3>1, <3>2, <4>1, <4>2
    <3>5. CASE m = p \/ m = y
      <4>1. Weight(t, m) = 0 /\ Weight(u, m) = 1
        BY <1>1, <1>3, <1>u, <3>5 DEF Weight
      <4>2. new[m] = bh[m] + 1 /\ new[t.child[m][f]] = bh[t.child[m][f]]
        BY <1>1, <2>2, <3>1, <3>3, <3>5
      <4> QED
        BY <3>1, <3>2, <4>1, <4>2
    <3>6. CASE m # g /\ m # p /\ m # y
      <4>1. Weight(t, m) = Weight(u, m)
        BY <1>3, <3>1, <3>6 DEF Weight
      <4>2. new[m] = bh[m] /\ new[t.child[m][f]] = bh[t.child[m][f]]
        BY <2>2, <3>1, <3>3, <3>6
      <4> QED
        BY <3>1, <3>2, <4>1, <4>2
    <3> QED
      BY <3>4, <3>5, <3>6
  <2> QED
    BY <1>3, <2>2, <2>3 DEF Balanced
<1>7. NoRedRed(u, Nil, g)
  <2> SUFFICES ASSUME NEW m \in Prices, NEW f \in Sides, u.color[m] = "red"
               PROVE  u.color[u.child[m][f]] = "black" \/ u.child[m][f] = g
    BY DEF NoRedRed
  <2>1. t.child[m][f] \in Nodes /\ m \in Nodes /\ m # Nil
    BY <1>2, PricesAssumption DEF Typed, Nodes
  <2>2. CASE m = g
    <3>1. t.child[m][f] = p \/ t.child[m][f] = y
      BY <1>1, <2>2, SideFacts
    <3> QED
      BY <1>1, <1>3, <3>1
  <2>3. CASE m # g
    <3>1. m # p /\ t.color[m] = "red"
      BY <1>3, <2>1, <2>3
    <3>2. t.color[t.child[m][f]] = "black" \/ t.child[m][f] = z
      BY <1>2, <2>1, <3>1 DEF NoRedRed
    <3>3. t.child[m][f] # z
      <4>1. z \in Prices
        BY <1>0 DEF Family
      <4> QED
        BY <1>1, <1>2, <3>1, <4>1, OnlyPlace
    <3> QED
      BY <1>3, <2>1, <3>2, <3>3
  <2> QED
    BY <2>2, <2>3
<1>8. u.color[Nil] = "black" /\ u.color[g] = "red"
  BY Zenon, <1>1, <1>2, <1>3, PricesAssumption DEF Nodes
<1>9. g # u.root => u.color[u.root] = "black"
  <2>1. z # t.root
    BY Zenon, <1>0, <1>2, ParentFacts, PricesAssumption DEF Family, Shape, Links
  <2> QED
    BY <1>1, <1>2, <1>3, <2>1
<1>10. Inserting(u, g, sub, new)
  BY <1>1, <1>3, <1>4, <1>6, <1>7, <1>8, <1>9 DEF Inserting
<1> QED
  BY <1>3, <1>10, <1>u, <1>g

\* the rotation of t1, which has the links of t
Swings(t, sub, x, d, y, b, p, t1, u) ==
    /\ Arms(t, sub, x, d, y, b, p) /\ Rotated(t1, u, x, d, y, b, p)
    /\ Shape(u, Swung(sub, x, y, b)) /\ Swung(sub, x, y, b)[u.root] = sub[t.root]

\* A rotation of a recolored tree, all in one.
LEMMA Turns ==
    ASSUME NEW t, NEW sub, Shape(t, sub), NEW x \in sub[t.root], NEW d \in Sides,
           NEW y, y = t.child[x][Other(d)], y # Nil, NEW b, b = t.child[y][d], NEW p, p = t.parent[x],
           NEW t1, SameLinks(t, t1), NEW u, u = Rotate(t1, x, d)
    PROVE  Swings(t, sub, x, d, y, b, p, t1, u)
<1>1. Arms(t, sub, x, d, y, b, p)
  BY RotateArms
<1>2. /\ Shape(t1, sub) /\ t1.root = t.root /\ t1.child = t.child /\ t1.parent = t.parent /\ Typed(t1)
  BY SameShape DEF SameLinks, Shape
<1>3. Arms(t1, sub, x, d, y, b, p)
  BY <1>1, <1>2 DEF Arms
<1>4. Rotated(t1, u, x, d, y, b, p)
  <2>1. /\ x \in Prices /\ y \in Prices /\ b \in Nodes /\ p \in Nodes
        /\ y = t1.child[x][Other(d)] /\ b = t1.child[y][d] /\ p = t1.parent[x]
        /\ x # y /\ p # x /\ p # y /\ b # x /\ b # y
    BY <1>3 DEF Arms
  <2>2. Rotated(t1, Rotate(t1, x, d), x, d, y, b, p)
    BY Zenon, <1>2, <2>1, RotateReads
  <2> QED
    BY <2>2
<1>5. Shape(u, Swung(sub, x, y, b)) /\ Swung(sub, x, y, b)[u.root] = sub[t1.root]
  BY <1>2, <1>3, <1>4, RotateShape
<1> QED
  BY <1>1, <1>2, <1>4, <1>5 DEF Swings

\* A red node and its black parent, which exchange their colors.
LEMMA Exchange ==
    ASSUME NEW t \in Trees, NEW x \in Nodes, NEW y \in Nodes, x # y, t.color[y] = "red",
           t.color[x] = "black", NEW t1, t1 = Paint(Paint(t, y, "black"), x, "red")
    PROVE  Exchanged(t, t1, x, y)
<1> DEFINE t0 == Paint(t, y, "black")
<1>d. t0 = Paint(t, y, "black") /\ t1 = Paint(t0, x, "red")
  OBVIOUS
<1> HIDE DEF t0
<1>1. Painted(t, t0, y, "black")
  BY <1>d, PaintReads DEF Colors
<1>2. t0 \in Trees
  BY <1>1 DEF Painted
<1>3. Painted(t0, t1, x, "red")
  BY <1>2, <1>d, PaintReads DEF Colors
<1> QED
  BY <1>1, <1>3 DEF Painted, Exchanged, SameLinks

\* A black uncle, and z on the outer side: one rotation of the grandparent.
LEMMA TurnOuter ==
    ASSUME NEW t, NEW sub, NEW bh, NEW z, Inserting(t, z, sub, bh),
           NEW p, NEW g, NEW d, NEW y, Family(t, z, sub, p, g, d, y), Side(t, z) = d, t.color[y] = "black",
           NEW u, u = Rotate(Paint(Paint(t, p, "black"), g, "red"), g, Other(d))
    PROVE  \E sub2, bh2 : Inserting(u, z, sub2, bh2) /\ sub2[u.root] = sub[t.root]
<1> DEFINE o == Other(d)
           t1 == Paint(Paint(t, p, "black"), g, "red")
           b == t.child[p][o]
           q == t.parent[g]
           sub2 == Swung(sub, g, p, b)
           bh2 == Traded(bh, g, p)
<1>1. /\ z \in Prices /\ p \in Prices /\ g \in Prices /\ y \in Nodes /\ d \in Sides
      /\ p = t.parent[z] /\ g = t.parent[p] /\ y = t.child[g][Other(d)]
      /\ t.child[g][d] = p /\ t.child[p][d] = z /\ t.child[p][Other(d)] # z
      /\ p \in sub[t.root] /\ g \in sub[t.root] /\ p # g /\ p # z /\ y # p /\ y # g /\ p # t.root
      /\ t.color[p] = "red" /\ t.color[g] = "black" /\ p \in Nodes /\ g \in Nodes /\ p # Nil
  BY PricesAssumption DEF Family, Nodes
<1>2. /\ Shape(t, sub) /\ t.color[Nil] = "black" /\ Balanced(t, bh, Nil, "left") /\ NoRedRed(t, Nil, z)
      /\ z \in sub[t.root] /\ t.color[z] = "red"
      /\ z # t.root => t.color[t.root] = "black"
      /\ t \in Trees /\ t.root \in Nodes
  BY DEF Inserting, Shape, Typed, Trees
<1>3. o \in Sides /\ Other(o) = d
  BY Zenon, <1>1, SideFacts
<1>4. Exchanged(t, t1, g, p)
  BY Zenon, <1>1, <1>2, Exchange
<1>5. SameLinks(t, t1) /\ u = Rotate(t1, g, o)
  BY <1>4 DEF Exchanged
<1> HIDE DEF t1, o, sub2, bh2
<1>6. /\ Arms(t, sub, g, o, p, b, q) /\ Rotated(t1, u, g, o, p, b, q)
      /\ Shape(u, sub2) /\ sub2[u.root] = sub[t.root]
  <2>1. /\ g \in sub[t.root] /\ p = t.child[g][Other(o)] /\ p # Nil /\ b = t.child[p][o] /\ q = t.parent[g]
    BY Zenon, <1>1, <1>3
  <2>2. Swings(t, sub, g, o, p, b, q, t1, u)
    BY <1>2, <1>3, <1>5, <2>1, Turns
  <2> QED
    BY <2>2 DEF sub2, Swings
<1>7. Balanced(u, bh2, Nil, "left")
  BY Zenon, <1>1, <1>2, <1>3, <1>4, <1>6, RotateBalanced, PricesAssumption DEF bh2
<1>8. NoRedRed(u, Nil, z)
  <2>1. t.color[b] = "black"
    <3>1. t.color[t.child[p][o]] = "black" \/ t.child[p][o] = z
      BY Zenon, <1>1, <1>2, <1>3 DEF NoRedRed
    <3> QED
      BY Zenon, <1>1, <3>1 DEF o
  <2>2. g # z /\ t.color[t.child[g][o]] = "black" /\ t.color[p] = "red" /\ t.color[g] # "red"
    BY Zenon, <1>1, <1>2 DEF o
  <2>3. Shape(t, sub) /\ NoRedRed(t, Nil, z)
    BY <1>2
  <2> QED
    BY <1>3, <1>4, <1>6, <2>1, <2>2, <2>3, RotateRed
<1>9. \A m \in Nodes : u.color[m] = IF m = g THEN "red" ELSE IF m = p THEN "black" ELSE t.color[m]
  <2>1. u.color = t1.color
    BY <1>6 DEF Rotated
  <2>2. \A m \in Nodes : t1.color[m] = IF m = g THEN t.color[p] ELSE IF m = p THEN t.color[g] ELSE t.color[m]
    BY <1>4 DEF Exchanged
  <2>3. t.color[p] = "red" /\ t.color[g] = "black"
    BY Zenon, <1>1
  <2> QED
    BY <2>1, <2>2, <2>3
<1>10. u.color[Nil] = "black" /\ u.color[z] = "red"
  BY Zenon, <1>1, <1>2, <1>9, PricesAssumption DEF Nodes
<1>11. u.color[u.root] = "black"
  <2>1. z # t.root
    BY Zenon, <1>1, <1>2, ParentFacts
  <2>2. u.root = IF q = Nil THEN p ELSE t.root
    BY <1>4, <1>6 DEF Rotated, Exchanged, SameLinks
  <2>3. q # Nil => t.root # g
    BY Zenon, <1>1, <1>2, ParentFacts
  <2>4. CASE q = Nil
    <3>1. p \in Nodes /\ g # p
      BY Zenon, <1>1
    <3> QED
      BY <1>9, <2>2, <2>4, <3>1
  <2>5. CASE q # Nil
    <3>1. u.root = t.root /\ t.root # g /\ t.color[t.root] = "black"
      BY <1>2, <2>1, <2>2, <2>3, <2>5
    <3>2. u.color[t.root] = IF t.root = g THEN "red" ELSE IF t.root = p THEN "black" ELSE t.color[t.root]
      BY <1>2, <1>9
    <3> QED
      BY <3>1, <3>2
  <2> QED
    BY <2>4, <2>5
<1>12. Inserting(u, z, sub2, bh2)
  BY <1>2, <1>6, <1>7, <1>8, <1>10, <1>11 DEF Inserting
<1> QED
  BY <1>6, <1>12

\* A black uncle, and z on the inner side: a rotation makes z the parent.
LEMMA TurnInner ==
    ASSUME NEW t, NEW sub, NEW bh, NEW z, Inserting(t, z, sub, bh),
           NEW p, NEW g, NEW d, NEW y, Family(t, z, sub, p, g, d, y), Side(t, z) # d, t.color[y] = "black",
           NEW u, u = Rotate(t, p, d)
    PROVE  \E sub2, bh2 : /\ Inserting(u, p, sub2, bh2) /\ sub2[u.root] = sub[t.root]
                          /\ Family(u, p, sub2, z, g, d, y) /\ Side(u, p) = d /\ u.color[y] = "black"
<1> DEFINE o == Other(d)
           b == t.child[z][d]
           sub2 == Swung(sub, p, z, b)
           bh2 == Traded(bh, p, z)
<1>1. /\ z \in Prices /\ p \in Prices /\ g \in Prices /\ y \in Nodes /\ d \in Sides
      /\ p = t.parent[z] /\ g = t.parent[p] /\ y = t.child[g][Other(d)] /\ d = Side(t, p)
      /\ t.child[g][d] = p /\ t.child[p][Side(t, z)] = z /\ t.child[p][Other(Side(t, z))] # z
      /\ p \in sub[t.root] /\ g \in sub[t.root] /\ p # g /\ p # z /\ y # p /\ y # g /\ p # t.root
      /\ t.color[p] = "red" /\ t.color[g] = "black" /\ p \in Nodes /\ g \in Nodes /\ p # Nil
      /\ z \in Nodes /\ z # Nil /\ Side(t, z) \in Sides /\ g # Nil
  BY PricesAssumption DEF Family, Nodes
<1>2. /\ Shape(t, sub) /\ t.color[Nil] = "black" /\ Balanced(t, bh, Nil, "left") /\ NoRedRed(t, Nil, z)
      /\ z \in sub[t.root] /\ t.color[z] = "red"
      /\ z # t.root => t.color[t.root] = "black"
      /\ t \in Trees /\ t.root \in Nodes
  BY DEF Inserting, Shape, Typed, Trees
<1>3. o \in Sides /\ Side(t, z) = o /\ Other(o) = d /\ o # d
  BY Zenon, <1>1, SideFacts
<1>4. t.child[p][o] = z /\ t.child[p][d] # z
  BY Zenon, <1>1, <1>3
<1>5. SameLinks(t, t) /\ Exchanged(t, t, p, z)
  BY Zenon, <1>1, <1>2 DEF SameLinks, Exchanged
<1> HIDE DEF o, sub2, bh2
<1>6. /\ Arms(t, sub, p, d, z, b, g) /\ Rotated(t, u, p, d, z, b, g)
      /\ Shape(u, sub2) /\ sub2[u.root] = sub[t.root]
  <2>1. /\ p \in sub[t.root] /\ z = t.child[p][Other(d)] /\ z # Nil /\ b = t.child[z][d] /\ g = t.parent[p]
    BY Zenon, <1>1, <1>4 DEF o
  <2>2. Swings(t, sub, p, d, z, b, g, t, u)
    BY Zenon, <1>1, <1>2, <1>5, <2>1, Turns
  <2> QED
    BY <2>2 DEF sub2, Swings
<1>7. Balanced(u, bh2, Nil, "left")
  BY Zenon, <1>1, <1>2, <1>5, <1>6, RotateBalanced, PricesAssumption DEF bh2
<1>8. NoRedRed(u, Nil, p)
  <2>1. \A e \in Sides : t.color[t.child[z][e]] = "black"
    <3>1. Typed(t) /\ Spans(t, sub)
      BY <1>2 DEF Shape
    <3>2. \A e \in Sides : t.color[t.child[z][e]] = "black" \/ t.child[z][e] = z
      BY Zenon, <1>1, <1>2 DEF NoRedRed
    <3>3. ASSUME NEW e \in Sides, t.child[z][e] # Nil
          PROVE  t.child[z][e] # z
      <4> DEFINE c == t.child[z][e]
      <4>1. c = t.child[z][e] /\ c # Nil /\ z \in Prices
        BY Zenon, <1>1, <3>3
      <4> HIDE DEF c
      <4>2. c # z
        BY <3>1, <4>1, ChildFacts
      <4> QED
        BY <4>2 DEF c
    <3> QED
      BY Zenon, <1>1, <3>2, <3>3
  <2>2. t.color[t.child[p][d]] = "black"
    BY Zenon, <1>1, <1>2, <1>4 DEF NoRedRed
  <2>3. t.color[b] = "black" /\ t.color[t.child[z][Other(d)]] = "black"
    BY Zenon, <1>1, <1>3, <2>1 DEF o
  <2>4. Shape(t, sub) /\ NoRedRed(t, Nil, z) /\ t.color[z] = "red" /\ p # z /\ d \in Sides
    BY Zenon, <1>1, <1>2
  <2> QED
    BY <1>5, <1>6, <2>2, <2>3, <2>4, RotateRed
<1>9. u.color = t.color /\ u.root = t.root
  BY Zenon, <1>1, <1>6 DEF Rotated
<1>10. Inserting(u, p, sub2, bh2)
  <2>1. z # t.root
    BY Zenon, <1>1, <1>2, ParentFacts
  <2> QED
    BY Zenon, <1>1, <1>2, <1>6, <1>7, <1>8, <1>9, <2>1 DEF Inserting
<1>11. /\ u.parent[p] = z /\ u.parent[z] = g /\ u.child[z][d] = p
       /\ u.child[g][d] = z /\ u.child[g][Other(d)] = y
  <2>1. /\ u.parent[p] = z /\ u.parent[z] = g /\ u.child[z][d] = p
        /\ \A e \in Sides : u.child[g][e] = IF e = Side(t, p) THEN z ELSE t.child[g][e]
    BY Zenon, <1>1, <1>6 DEF Rotated
  <2> QED
    BY Zenon, <1>1, <1>3, <2>1 DEF o
<1>12. Side(u, p) = d /\ Side(u, z) = d
  <2>1. Shape(u, sub2)
    BY <1>6
  <2>2. z \in Prices /\ g \in Prices /\ d \in Sides /\ p = u.child[z][d] /\ p # Nil /\ z = u.child[g][d] /\ z # Nil
    BY Zenon, <1>1, <1>11
  <2>3. u.child[z][d] # Nil /\ u.child[g][d] # Nil /\ z \in Prices /\ g \in Prices /\ d \in Sides
    BY Zenon, <2>2
  <2>4. Side(u, u.child[z][d]) = d
    BY <2>1, <2>3, SideIs
  <2>5. Side(u, u.child[g][d]) = d
    BY <2>1, <2>3, SideIs
  <2> QED
    BY Zenon, <2>2, <2>4, <2>5
<1>13. Family(u, p, sub2, z, g, d, y)
  <2>1. u.color[u.parent[p]] = "red"
    BY <1>2, <1>9, <1>11
  <2> QED
    BY <1>10, <1>11, <1>12, <2>1, InsertFamily
<1> QED
  BY <1>6, <1>9, <1>10, <1>12, <1>13

LEMMA TurnUpStep ==
    ASSUME NEW t, NEW sub, NEW bh, NEW z, Inserting(t, z, sub, bh), t.color[t.parent[z]] = "red",
           t.color[Uncle(t, z)] # "red"
    PROVE  \E sub2, bh2 :
              /\ Inserting(TurnUp(t, z), IF Side(t, z) # Side(t, t.parent[z]) THEN t.parent[z] ELSE z, sub2, bh2)
              /\ sub2[TurnUp(t, z).root] = sub[t.root]
<1> DEFINE p == t.parent[z]
           g == t.parent[p]
           d == Side(t, p)
           y == t.child[g][Other(d)]
           u == TurnUp(t, z)
<1>0. Family(t, z, sub, p, g, d, y)
  BY InsertFamily
<1>1. t.color[y] = "black"
  <2>1. t.color[y] # "red"
    BY DEF Uncle
  <2>2. y \in Nodes
    BY <1>0 DEF Family
  <2> HIDE DEF y
  <2>3. t.color[y] \in Colors
    BY <2>2 DEF Inserting, Shape, Typed, Trees
  <2> QED
    BY <2>1, <2>3 DEF Colors
<1>2. CASE Side(t, z) = d
  <2>1. u = Rotate(Paint(Paint(t, p, "black"), g, "red"), g, Other(d))
    BY <1>2 DEF TurnUp
  <2> HIDE DEF p, g, d, y, u
  <2>2. \E sub2, bh2 : Inserting(u, z, sub2, bh2) /\ sub2[u.root] = sub[t.root]
    BY <1>0, <1>1, <1>2, <2>1, TurnOuter
  <2> QED
    BY <1>2, <2>2 DEF u, d, p
<1>3. CASE Side(t, z) # d
  <2> DEFINE t1 == Rotate(t, p, d)
  <2>1. u = Rotate(Paint(Paint(t1, z, "black"), g, "red"), g, Other(d))
    BY <1>3 DEF TurnUp
  <2>d. t1 = Rotate(t, p, d)
    OBVIOUS
  <2> HIDE DEF p, g, d, y, u, t1
  <2>2. PICK sub1, bh1 : /\ Inserting(t1, p, sub1, bh1) /\ sub1[t1.root] = sub[t.root]
                         /\ Family(t1, p, sub1, z, g, d, y) /\ Side(t1, p) = d /\ t1.color[y] = "black"
    BY <1>0, <1>1, <1>3, <2>d, TurnInner
  <2>3. \E sub2, bh2 : Inserting(u, p, sub2, bh2) /\ sub2[u.root] = sub1[t1.root]
    BY <2>1, <2>2, TurnOuter
  <2> QED
    BY <1>3, <2>2, <2>3 DEF u, d, p
<1> QED
  BY <1>2, <1>3

\* No red parent: the root becomes black, and the tree is at rest.
LEMMA InsertDoneStep ==
    ASSUME NEW t, NEW sub, NEW bh, NEW z, Inserting(t, z, sub, bh), t.color[t.parent[z]] = "black",
           NEW u, u = Paint(t, t.root, "black")
    PROVE  \E new : Rest(u, sub, new) /\ u.root = t.root
<1>1. /\ Shape(t, sub) /\ t.color[Nil] = "black" /\ Balanced(t, bh, Nil, "left") /\ NoRedRed(t, Nil, z)
      /\ z \in sub[t.root] /\ t.color[z] = "red"
      /\ z # t.root => t.color[t.root] = "black"
      /\ Typed(t) /\ Spans(t, sub) /\ t \in Trees /\ t.root \in Nodes
  BY DEF Inserting, Shape, Typed, Trees
<1>2. t.root \in Prices /\ z \in Prices
  <2>1. t.root \in Prices
    BY <1>1 DEF Spans, Nodes
  <2> QED
    BY <1>1, <2>1, SpansFacts
<1>3. Painted(t, u, t.root, "black")
  BY <1>1, PaintReads DEF Colors
<1>4. Shape(u, sub) /\ u.root = t.root
  BY <1>1, <1>3, SameShape DEF SameLinks, Painted
<1>5. \A m \in Nodes : u.color[m] = IF m = t.root THEN "black" ELSE t.color[m]
  BY <1>3 DEF Painted
<1>6. NoRedRed(u, Nil, Nil)
  <2> SUFFICES ASSUME NEW m \in Prices, NEW f \in Sides, u.color[m] = "red"
               PROVE  u.color[u.child[m][f]] = "black"
    BY DEF NoRedRed
  <2>1. t.child[m][f] \in Nodes /\ m \in Nodes /\ m # Nil /\ u.child[m][f] = t.child[m][f]
    BY <1>1, <1>3, PricesAssumption DEF Typed, Nodes, Painted
  <2>2. t.color[m] = "red"
    BY <1>5, <2>1
  <2>3. t.color[t.child[m][f]] = "black" \/ t.child[m][f] = z
    BY <1>1, <2>1, <2>2 DEF NoRedRed
  <2>4. t.child[m][f] # z
    BY <1>1, <1>2, <2>2, OnlyPlace
  <2> QED
    BY <1>5, <2>1, <2>3, <2>4
<1>7. \E new : Balanced(u, new, Nil, "left")
  <2>1. CASE t.color[t.root] = "black"
    <3>1. \A m \in Nodes : u.color[m] = t.color[m]
      BY <1>5, <2>1
    <3>2. \A m \in Prices : Weight(u, m) = Weight(t, m)
      BY <3>1 DEF Weight, Nodes
    <3>3. u.child = t.child
      BY <1>3 DEF Painted
    <3>4. Balanced(u, bh, Nil, "left")
      BY <1>1, <3>2, <3>3 DEF Balanced
    <3> QED
      BY <3>4
  <2>2. CASE t.color[t.root] # "black"
    <3>1. t.color[t.root] = "red"
      BY <1>1, <2>2
    <3>2. \A m \in Prices, d \in Sides : t.child[m][d] = t.root <=> m = Nil /\ d = "left"
      BY <1>1, <1>2, RootHasNoPlace, PricesAssumption
    <3>3. Balanced(u, Raised(bh, t.root), Nil, "left")
      BY <1>1, <1>2, <1>3, <3>1, <3>2, BlackenBalanced
    <3> QED
      BY <3>3
  <2> QED
    BY <2>1, <2>2
<1>8. u.color[Nil] = "black" /\ u.color[u.root] = "black"
  BY <1>1, <1>4, <1>5 DEF Nodes
<1> QED
  BY <1>4, <1>6, <1>7, <1>8 DEF Rest

\* A red node, or the root, becomes black, and the tree is at rest.
LEMMA DeleteDoneStep ==
    ASSUME NEW t, NEW sub, NEW bh, NEW x, Deleting(t, x, sub, bh), x = t.root \/ t.color[x] = "red",
           NEW u, u = Paint(t, x, "black")
    PROVE  \E new : Rest(u, sub, new) /\ u.root = t.root
<1>1. /\ Shape(t, sub) /\ t.color[Nil] = "black" /\ NoRedRed(t, x, x)
      /\ x = t.root => Balanced(t, bh, Nil, "left")
      /\ x # t.root => Balanced(t, bh, t.parent[x], Side(t, x))
      /\ x # t.root => t.color[t.root] = "black"
      /\ Typed(t) /\ Spans(t, sub) /\ t \in Trees /\ t.root \in Nodes
  BY DEF Deleting, Shape, Typed, Trees
<1>2. x \in Nodes
  <2>1. x \in sub[t.root] \cup {Nil}
    BY DEF Deleting
  <2>2. sub[t.root] \subseteq Prices
    BY <1>1 DEF Spans
  <2> QED
    BY <2>1, <2>2 DEF Nodes
<1>3. Painted(t, u, x, "black")
  BY <1>1, <1>2, PaintReads DEF Colors
<1>4. Shape(u, sub) /\ u.root = t.root
  BY <1>1, <1>3, SameShape DEF SameLinks, Painted
<1>5. \A m \in Nodes : u.color[m] = IF m = x THEN "black" ELSE t.color[m]
  BY <1>3 DEF Painted
<1>6. NoRedRed(u, Nil, Nil)
  <2> SUFFICES ASSUME NEW m \in Prices, NEW f \in Sides, u.color[m] = "red"
               PROVE  u.color[u.child[m][f]] = "black"
    BY DEF NoRedRed
  <2>1. t.child[m][f] \in Nodes /\ m \in Nodes /\ m # Nil /\ u.child[m][f] = t.child[m][f]
    BY <1>1, <1>3, PricesAssumption DEF Typed, Nodes, Painted
  <2>2. t.color[m] = "red" /\ m # x
    BY <1>5, <2>1
  <2>3. t.color[t.child[m][f]] = "black" \/ t.child[m][f] = x
    BY <1>1, <2>1, <2>2 DEF NoRedRed
  <2> QED
    BY <1>5, <2>1, <2>3
<1>7. \E new : Balanced(u, new, Nil, "left")
  <2>1. CASE t.color[x] = "black"
    <3>1. \A m \in Nodes : u.color[m] = t.color[m]
      BY <1>5, <2>1
    <3>2. \A m \in Prices : Weight(u, m) = Weight(t, m)
      BY <3>1 DEF Weight, Nodes
    <3>3. u.child = t.child
      BY <1>3 DEF Painted
    <3>4. Balanced(u, bh, Nil, "left")
      BY <1>1, <2>1, <3>2, <3>3 DEF Balanced
    <3> QED
      BY <3>4
  <2>2. CASE t.color[x] # "black"
    <3>1. t.color[x] = "red" /\ x \in Prices
      <4>1. t.color[x] \in Colors
        BY <1>1, <1>2 DEF Trees
      <4> QED
        BY <1>1, <1>2, <2>2, <4>1 DEF Colors, Nodes
    <3>2. CASE x = t.root
      <4>1. \A m \in Prices, d \in Sides : t.child[m][d] = x <=> m = Nil /\ d = "left"
        BY <1>1, <3>1, <3>2, RootHasNoPlace, PricesAssumption
      <4>2. Balanced(u, Raised(bh, x), Nil, "left")
        BY <1>1, <1>3, <3>1, <3>2, <4>1, BlackenBalanced
      <4> QED
        BY <4>2
    <3>3. CASE x # t.root
      <4>1. \A m \in Prices, d \in Sides : t.child[m][d] = x <=> m = t.parent[x] /\ d = Side(t, x)
        BY <1>1, <3>1, OnlyPlace
      <4>2. Balanced(u, Raised(bh, x), Nil, "left")
        BY <1>1, <1>3, <3>1, <3>3, <4>1, BlackenBalanced
      <4> QED
        BY <4>2
    <3> QED
      BY <3>2, <3>3
  <2> QED
    BY <2>1, <2>2
<1>8. u.color[Nil] = "black" /\ u.color[u.root] = "black"
  BY <1>1, <1>4, <1>5 DEF Nodes
<1> QED
  BY <1>4, <1>6, <1>7, <1>8 DEF Rest

-----------------------------------------------------------------------------
(* The rounds of deleteFixup.                                               *)

\* Where a black node is missing, the sibling has more than the sentinel, and
\* Side tells the place even when x is the sentinel.
LEMMA Gap ==
    ASSUME NEW t, NEW bh, NEW p \in Prices, NEW d \in Sides, Typed(t), Balanced(t, bh, p, d),
           NEW x, x = t.child[p][d], t.parent[x] = p
    PROVE  /\ Side(t, x) = d /\ t.child[p][Other(d)] \in Prices /\ t.child[p][Other(d)] # x
           /\ x \in Nodes /\ bh[x] \in Nat /\ bh[t.child[p][Other(d)]] = bh[x] + 1
<1> DEFINE w == t.child[p][Other(d)]
<1>1. /\ bh \in [Nodes -> Nat] /\ bh[Nil] = 0
      /\ \A n \in Prices, f \in Sides :
            bh[n] = bh[t.child[n][f]] + Weight(t, n) + (IF n = p /\ f = d THEN 1 ELSE 0)
  BY DEF Balanced
<1>2. Other(d) \in Sides /\ Other(d) # d
  BY SideFacts
<1>3. x \in Nodes /\ w \in Nodes
  BY <1>2 DEF Typed
<1>4. bh[x] \in Nat /\ bh[w] \in Nat /\ Weight(t, p) \in Nat
  BY <1>1, <1>3 DEF Weight
<1>5. bh[p] = bh[x] + Weight(t, p) + 1
  BY <1>1
<1>6. bh[p] = bh[w] + Weight(t, p) + 0
  BY <1>1, <1>2
<1>7. bh[w] = bh[x] + 1
  BY <1>4, <1>5, <1>6
<1>8. w # Nil /\ w # x
  BY <1>1, <1>4, <1>7
<1>9. w \in Prices
  BY <1>3, <1>8 DEF Nodes
<1>10. Side(t, x) = d
  BY <1>8, SideFacts DEF Side, Left, Other, Sides
<1> QED
  BY <1>3, <1>4, <1>7, <1>8, <1>9, <1>10

\* The relatives that a round of deleteFixup looks at.
Siblings(t, x, sub, bh, p, d, w) ==
    /\ p \in Prices /\ d \in Sides /\ x \in Nodes /\ w \in Prices
    /\ p = t.parent[x] /\ d = Side(t, x) /\ x = t.child[p][d] /\ w = t.child[p][Other(d)]
    /\ p \in sub[t.root] /\ w \in sub[t.root] /\ p # x /\ w # x /\ w # p /\ x # t.root
    /\ t.parent[w] = p /\ w # t.root
    /\ Shape(t, sub) /\ t.color[Nil] = "black" /\ t.color[t.root] = "black" /\ t.color[x] = "black"
    /\ Balanced(t, bh, p, d) /\ NoRedRed(t, x, x)

LEMMA DeleteSiblings ==
    ASSUME NEW t, NEW sub, NEW bh, NEW x, Deleting(t, x, sub, bh), x # t.root, t.color[x] = "black",
           NEW p, p = t.parent[x], NEW d, d = Side(t, x), NEW w, w = t.child[p][Other(d)]
    PROVE  Siblings(t, x, sub, bh, p, d, w)
<1>1. /\ Shape(t, sub) /\ t.color[Nil] = "black" /\ NoRedRed(t, x, x)
      /\ p \in sub[t.root] /\ t.child[p][d] = x /\ Balanced(t, bh, p, d)
      /\ t.color[t.root] = "black"
      /\ Typed(t) /\ Spans(t, sub) /\ t \in Trees /\ t.root \in Nodes
  BY DEF Deleting, Shape, Typed, Trees
<1>2. t.root \in Prices /\ p \in Prices
  <2>1. t.root \in Prices
    BY <1>1 DEF Spans, Nodes
  <2> QED
    BY <1>1, <2>1, SpansFacts
<1>3. d \in Sides /\ Other(d) \in Sides
  BY SideIsSide, SideFacts
<1>4. w \in Prices /\ w # x /\ x \in Nodes
  BY <1>1, <1>2, <1>3, Gap
<1>5. w # Nil
  BY <1>4, PricesAssumption
<1>6. w # p /\ w \in sub[p] /\ t.parent[w] = p
  <2>1. w # p /\ w \in sub[p]
    BY <1>1, <1>2, <1>3, <1>5, ChildFacts
  <2>2. t.parent[w] = p
    BY <1>1, <1>2, <1>3, <1>5 DEF Shape, Links
  <2> QED
    BY <2>1, <2>2
<1>7. p # x
  <2>1. CASE x = Nil
    BY <1>2, <2>1, PricesAssumption
  <2>2. CASE x # Nil
    BY <1>1, <1>2, <1>3, <2>2, ChildFacts
  <2> QED
    BY <2>1, <2>2
<1>8. w \in sub[t.root]
  BY <1>1, <1>2, <1>6, Transitive
<1>9. w # t.root
  BY <1>1, <1>2, <1>6, PricesAssumption DEF Shape, Links
<1> QED
  BY <1>1, <1>2, <1>3, <1>4, <1>6, <1>7, <1>8, <1>9 DEF Siblings

\* A rotation next to the gap, which keeps x where it is.
LEMMA GapStays ==
    ASSUME NEW t, NEW x, NEW sub, NEW bh, NEW p, NEW d, NEW w, Siblings(t, x, sub, bh, p, d, w),
           NEW u, NEW sub2, NEW bh2, Shape(u, sub2), sub2[u.root] = sub[t.root],
           Balanced(u, bh2, p, d), NoRedRed(u, x, x),
           u.child[p][d] = x, u.parent[x] = p,
           u.color[Nil] = "black", u.color[u.root] = "black", u.color[x] = "black",
           NEW w2, w2 = u.child[p][Other(d)]
    PROVE  Siblings(u, x, sub2, bh2, p, d, w2)
<1>1. p \in Prices /\ d \in Sides /\ p \in sub2[u.root]
  BY Zenon DEF Siblings
<1>2. Typed(u)
  BY DEF Shape
<1>3. Side(u, x) = d /\ p # Nil
  BY <1>1, <1>2, Gap, PricesAssumption
<1>4. x # u.root
  <2>1. ASSUME x = u.root PROVE FALSE
    <3>1. u.root \in Nodes
      BY <1>2 DEF Typed, Trees
    <3>2. u.root # Nil
      BY <1>1 DEF Shape, Spans
    <3>3. u.parent[u.root] = Nil
      BY <3>2 DEF Shape, Links
    <3> QED
      BY <1>3, <2>1, <3>3
  <2> QED
    BY <2>1
<1>5. x \in sub2[u.root] \cup {Nil}
  <2>1. x \in Nodes
    BY <1>1, <1>2 DEF Typed
  <2>2. CASE x = Nil
    BY <2>2
  <2>3. CASE x # Nil
    BY <1>3, <2>1, <2>3, ParentFacts DEF Nodes
  <2> QED
    BY <2>2, <2>3
<1>6. Deleting(u, x, sub2, bh2)
  BY <1>1, <1>3, <1>4, <1>5 DEF Deleting
<1> QED
  BY <1>3, <1>4, <1>6, DeleteSiblings

\* A red sibling is rotated away.
LEMMA TurnedStep ==
    ASSUME NEW t, NEW x, NEW sub, NEW bh, NEW p, NEW d, NEW w, Siblings(t, x, sub, bh, p, d, w),
           t.color[w] = "red", NEW u, u = Rotate(Paint(Paint(t, w, "black"), p, "red"), p, d)
    PROVE  \E sub2, bh2, w2 : Siblings(u, x, sub2, bh2, p, d, w2) /\ u.color[w2] = "black"
                              /\ sub2[u.root] = sub[t.root]
<1> DEFINE t1 == Paint(Paint(t, w, "black"), p, "red")
           b == t.child[w][d]
           q == t.parent[p]
           sub2 == Swung(sub, p, w, b)
           bh2 == Traded(bh, p, w)
<1>1. /\ p \in Prices /\ d \in Sides /\ x \in Nodes /\ w \in Prices /\ p \in Nodes /\ w \in Nodes
      /\ p = t.parent[x] /\ d = Side(t, x) /\ x = t.child[p][d] /\ w = t.child[p][Other(d)]
      /\ p \in sub[t.root] /\ w \in sub[t.root] /\ p # x /\ w # x /\ w # p /\ x # t.root
      /\ t.parent[w] = p /\ w # t.root /\ w # Nil /\ p # Nil
  BY Zenon, PricesAssumption DEF Siblings, Nodes
<1>2. /\ Shape(t, sub) /\ t.color[Nil] = "black" /\ t.color[t.root] = "black" /\ t.color[x] = "black"
      /\ Balanced(t, bh, p, d) /\ NoRedRed(t, x, x) /\ t \in Trees /\ Typed(t)
      /\ Spans(t, sub) /\ Links(t, sub) /\ t.root \in Nodes
  BY Zenon DEF Siblings, Shape, Typed, Trees
<1>3. t.color[p] = "black"
  <2>1. t.color[p] \in Colors
    BY Zenon, <1>1, <1>2 DEF Trees
  <2>2. t.color[p] = "red" => t.color[t.child[p][Other(d)]] = "black" \/ t.child[p][Other(d)] = x
    BY Zenon, <1>1, <1>2, SideFacts DEF NoRedRed
  <2> QED
    BY Zenon, <1>1, <2>1, <2>2 DEF Colors
<1>4. Exchanged(t, t1, p, w)
  BY Zenon, <1>1, <1>2, <1>3, Exchange
<1>5. SameLinks(t, t1) /\ u = Rotate(t1, p, d)
  BY <1>4 DEF Exchanged
<1> HIDE DEF t1, sub2, bh2
<1>6. /\ Arms(t, sub, p, d, w, b, q) /\ Rotated(t1, u, p, d, w, b, q)
      /\ Shape(u, sub2) /\ sub2[u.root] = sub[t.root]
  <2>1. /\ p \in sub[t.root] /\ w = t.child[p][Other(d)] /\ w # Nil /\ b = t.child[w][d] /\ q = t.parent[p]
    BY Zenon, <1>1
  <2>2. Swings(t, sub, p, d, w, b, q, t1, u)
    BY Zenon, <1>1, <1>2, <1>5, <2>1, Turns
  <2> QED
    BY <2>2 DEF sub2, Swings
<1>7. Balanced(u, bh2, p, d)
  BY Zenon, <1>1, <1>2, <1>4, <1>6, RotateBalanced DEF bh2
<1>8. t.color[b] = "black" \/ b = x
  <2>1. b = t.child[w][d] /\ t.color[w] = "red" /\ w # x /\ w \in Prices /\ d \in Sides
    BY Zenon, <1>1
  <2> QED
    BY <1>2, <2>1 DEF NoRedRed
<1>9. NoRedRed(u, x, x)
  <2>1. Shape(t, sub) /\ NoRedRed(t, x, x) /\ t.color[w] = "red" /\ p # x /\ d \in Sides
        /\ t.child[p][d] = x /\ t.color[p] # "red"
    BY Zenon, <1>1, <1>2, <1>3
  <2> QED
    BY <1>4, <1>6, <1>8, <2>1, RotateRed
<1>10. \A m \in Nodes : u.color[m] = IF m = p THEN "red" ELSE IF m = w THEN "black" ELSE t.color[m]
  <2>1. u.color = t1.color
    BY <1>6 DEF Rotated
  <2>2. \A m \in Nodes : t1.color[m] = IF m = p THEN t.color[w] ELSE IF m = w THEN t.color[p] ELSE t.color[m]
    BY <1>4 DEF Exchanged
  <2>3. t.color[w] = "red" /\ t.color[p] = "black"
    BY <1>3
  <2> QED
    BY <2>1, <2>2, <2>3
<1>11. u.color[Nil] = "black" /\ u.color[x] = "black"
  BY Zenon, <1>1, <1>2, <1>10 DEF Nodes
<1>12. u.color[u.root] = "black"
  <2>2. u.root = IF q = Nil THEN w ELSE t.root
    BY <1>4, <1>6 DEF Rotated, Exchanged, SameLinks
  <2>3. q # Nil => t.root # p
    BY Zenon, <1>1, <1>2, ParentFacts
  <2>4. CASE q = Nil
    BY Zenon, <1>1, <1>10, <2>2, <2>4
  <2>5. CASE q # Nil
    <3>1. u.root = t.root /\ t.root # p /\ t.color[t.root] = "black"
      BY <1>2, <2>2, <2>3, <2>5
    <3>2. u.color[t.root] = IF t.root = p THEN "red" ELSE IF t.root = w THEN "black" ELSE t.color[t.root]
      BY <1>2, <1>10
    <3> QED
      BY <3>1, <3>2
  <2> QED
    BY <2>4, <2>5
<1>13. /\ u.child[p][d] = x /\ u.child[p][Other(d)] = b
       /\ \A m \in Nodes : m \notin {p, w} /\ (m # b \/ b = Nil) => u.parent[m] = t.parent[m]
  <2>1. t1.child = t.child /\ t1.parent = t.parent
    BY <1>5 DEF SameLinks
  <2>2. /\ u.child[p][d] = t1.child[p][d] /\ u.child[p][Other(d)] = b
        /\ \A m \in Nodes : m \notin {p, w} /\ (m # b \/ b = Nil) => u.parent[m] = t1.parent[m]
    BY <1>6 DEF Rotated
  <2>3. t1.child[p][d] = x
    BY Zenon, <1>1, <2>1
  <2>4. \A m \in Nodes : m \notin {p, w} /\ (m # b \/ b = Nil) => u.parent[m] = t.parent[m]
    <3> HIDE DEF b
    <3> QED
      BY <2>1, <2>2
  <2> QED
    BY <2>2, <2>3, <2>4
<1>14. u.parent[x] = p
  <2>1. b # Nil => t.parent[b] = w
    BY Zenon, <1>1, <1>2 DEF Links
  <2>2. x # b \/ b = Nil
    BY Zenon, <1>1, <2>1
  <2> QED
    BY Zenon, <1>1, <1>13, <2>2
<1>15. Siblings(u, x, sub2, bh2, p, d, b)
  <2>1. b = u.child[p][Other(d)]
    BY <1>13
  <2> HIDE DEF b
  <2> QED
    BY <1>6, <1>7, <1>9, <1>11, <1>12, <1>13, <1>14, <2>1, GapStays
<1>16. u.color[b] = "black"
  <2>1. b # x /\ b \in Nodes /\ b # p
    BY Zenon, <1>15, PricesAssumption DEF Siblings, Nodes
  <2>2. t.color[b] = "black"
    BY <1>8, <2>1
  <2> HIDE DEF b
  <2>3. u.color[b] = IF b = p THEN "red" ELSE IF b = w THEN "black" ELSE t.color[b]
    BY <1>10, <2>1
  <2> QED
    BY <2>1, <2>2, <2>3
<1> QED
  BY <1>6, <1>15, <1>16

\* No node is a child of its child.
LEMMA NoLoop ==
    ASSUME NEW t, NEW sub, Typed(t), Spans(t, sub), NEW n \in Prices, NEW m \in Prices,
           NEW d \in Sides, NEW e \in Sides, t.child[n][d] = m
    PROVE  t.child[m][e] # n
<1>1. m \in sub[m] /\ n \in sub[n]
  BY SpansFacts
<1>2. n \notin sub[m]
  BY SpansFacts
<1>3. sub[t.child[m][e]] \subseteq sub[m]
  BY SpansFacts
<1> QED
  BY <1>1, <1>2, <1>3

\* where a node hangs
Place(t, n, q, e) == \A m \in Prices, f \in Sides : t.child[m][f] = n <=> m = q /\ f = e

Lowered(bh, n, m) == [k \in Nodes |-> IF k = n \/ k = m THEN bh[k] - 1 ELSE bh[k]]

\* A black sibling that becomes red: its parent is now short of a black node.
LEMMA DarkenBalanced ==
    ASSUME NEW t, NEW x, NEW sub, NEW bh, NEW p, NEW d, NEW w, Siblings(t, x, sub, bh, p, d, w),
           t.color[w] = "black", NEW u, Painted(t, u, w, "red"), NEW q, NEW e,
           Place(t, p, q, e)
    PROVE  Balanced(u, Lowered(bh, w, p), q, e)
<1> DEFINE new == Lowered(bh, w, p)
<1>1. /\ p \in Prices /\ d \in Sides /\ x \in Nodes /\ w \in Prices /\ p \in Nodes /\ w \in Nodes
      /\ p = t.parent[x] /\ x = t.child[p][d] /\ w = t.child[p][Other(d)]
      /\ p # x /\ w # x /\ w # p /\ t.parent[w] = p /\ w # Nil /\ p # Nil
  BY Zenon, PricesAssumption DEF Siblings, Nodes
<1>2. /\ Shape(t, sub) /\ Balanced(t, bh, p, d) /\ Typed(t) /\ Spans(t, sub)
  BY Zenon DEF Siblings, Shape
<1>3. /\ bh \in [Nodes -> Nat] /\ bh[Nil] = 0
      /\ \A n \in Prices, f \in Sides :
            bh[n] = bh[t.child[n][f]] + Weight(t, n) + (IF n = p /\ f = d THEN 1 ELSE 0)
  BY <1>2 DEF Balanced
<1>4. bh[w] = bh[x] + 1 /\ bh[x] \in Nat
  <2>1. Typed(t) /\ Balanced(t, bh, p, d) /\ p \in Prices /\ d \in Sides /\ x = t.child[p][d] /\ t.parent[x] = p
    BY Zenon, <1>1, <1>2
  <2>2. bh[t.child[p][Other(d)]] = bh[x] + 1 /\ bh[x] \in Nat
    BY <2>1, Gap
  <2> QED
    BY Zenon, <1>1, <2>2
<1>5. \A n \in Nodes : n # w => Weight(u, n) = Weight(t, n)
  BY DEF Painted, Weight
<1>6. Weight(t, w) = 1 /\ Weight(u, w) = 0 /\ Weight(t, p) \in Nat /\ Weight(u, p) = Weight(t, p)
  BY Zenon, <1>1, <1>5 DEF Painted, Weight
<1>7. bh[p] = bh[x] + Weight(t, p) + 1
  BY Zenon, <1>1, <1>3
<1>8. /\ \A n \in Nodes : n # w /\ n # p => new[n] = bh[n]
      /\ new[w] = bh[w] - 1 /\ new[p] = bh[p] - 1
  <2>1. p \in Nodes /\ w \in Nodes
    BY Zenon, <1>1
  <2> QED
    BY <2>1 DEF Lowered
<1>9. new \in [Nodes -> Nat] /\ new[Nil] = 0
  <2>1. bh[w] - 1 \in Nat /\ bh[p] - 1 \in Nat
    BY <1>4, <1>6, <1>7
  <2>2. \A n \in Nodes : new[n] \in Nat
    BY <1>3, <1>8, <2>1
  <2>3. Nil \in Nodes
    BY DEF Nodes
  <2> QED
    BY Zenon, <1>1, <1>3, <1>8, <2>2, <2>3 DEF Lowered
<1> HIDE DEF new
<1>10. ASSUME NEW n \in Prices, NEW f \in Sides
       PROVE  new[n] = new[u.child[n][f]] + Weight(u, n) + (IF n = q /\ f = e THEN 1 ELSE 0)
  <2> DEFINE c == t.child[n][f]
  <2>1. c \in Nodes /\ n \in Nodes /\ u.child[n][f] = c
    BY <1>2 DEF Typed, Nodes, Painted
  <2>2. c = w <=> n = p /\ f = Other(d)
    <3>1. Shape(t, sub) /\ p \in Prices /\ Other(d) \in Sides /\ w = t.child[p][Other(d)] /\ w # Nil
          /\ w \in Prices /\ t.parent[w] = p
      BY Zenon, <1>1, <1>2, SideFacts
    <3>2. Side(t, w) = Other(d)
      BY <3>1, SideIs
    <3>3. t.child[n][f] = w <=> n = t.parent[w] /\ f = Side(t, w)
      BY <3>1, OnlyPlace
    <3> QED
      BY <3>1, <3>2, <3>3
  <2>3. c = p <=> n = q /\ f = e
    BY DEF Place
  <2>4. bh[n] = bh[c] + Weight(t, n) + (IF n = p /\ f = d THEN 1 ELSE 0)
    BY <1>3
  <2>5. c = t.child[n][f]
    OBVIOUS
  <2>6. c # Nil => c # n
    BY <1>2, <2>5, ChildFacts
  <2> HIDE DEF c
  <2>7. bh[c] \in Nat /\ bh[n] \in Nat /\ Weight(t, n) \in Nat
    BY <1>3, <2>1 DEF Weight
  <2>8. CASE n = w
    <3>1. c # w /\ n # p
      BY Zenon, <1>1, <2>2, <2>8
    <3>2. c # p
      <4>1. ASSUME c = p PROVE FALSE
        <5>1. Typed(t) /\ Spans(t, sub) /\ p \in Prices /\ w \in Prices /\ Other(d) \in Sides
              /\ t.child[p][Other(d)] = w
          BY Zenon, <1>1, <1>2, SideFacts
        <5>2. t.child[w][f] # p
          BY <5>1, NoLoop
        <5> QED
          BY <2>5, <2>8, <4>1, <5>2
      <4> QED
        BY <4>1
    <3>3. bh[w] = bh[c] + 1 + 0
      BY <1>6, <2>4, <2>8, <3>1
    <3>4. new[c] = bh[c] /\ ~(n = q /\ f = e)
      BY <1>8, <2>1, <2>3, <3>1, <3>2
    <3> QED
      BY <1>6, <1>8, <2>1, <2>7, <2>8, <3>3, <3>4
  <2>9. CASE n = p
    <3>1. c # p
      BY Zenon, <1>1, <2>6, <2>9
    <3>2. CASE f = d
      <4>1. c = x
        BY Zenon, <1>1, <2>5, <2>9, <3>2
      <4>2. new[c] = bh[x] /\ ~(n = q /\ f = e)
        BY Zenon, <1>1, <1>8, <2>3, <3>1, <4>1
      <4> QED
        BY <1>4, <1>6, <1>7, <1>8, <2>1, <2>9, <4>2
    <3>3. CASE f # d
      <4>1. c = w /\ ~(n = q /\ f = e)
        BY Zenon, <1>1, <2>2, <2>3, <2>9, <3>1, <3>3, SideFacts
      <4>2. bh[p] = bh[w] + Weight(t, p) + 0
        BY <2>4, <2>9, <3>3, <4>1
      <4> QED
        BY <1>4, <1>6, <1>8, <2>1, <2>9, <4>1, <4>2
    <3> QED
      BY <3>2, <3>3
  <2>10. CASE n # w /\ n # p
    <3>1. c # w /\ bh[n] = bh[c] + Weight(t, n) + 0
      BY <2>2, <2>4, <2>10
    <3>2. new[n] = bh[n] /\ Weight(u, n) = Weight(t, n)
      BY <1>5, <1>8, <2>1, <2>10
    <3>3. CASE c = p
      BY <1>8, <2>1, <2>3, <2>7, <3>1, <3>2, <3>3
    <3>4. CASE c # p
      BY <1>8, <2>1, <2>3, <2>7, <3>1, <3>2, <3>4
    <3> QED
      BY <3>3, <3>4
  <2> QED
    BY <2>8, <2>9, <2>10
<1> QED
  BY <1>9, <1>10 DEF Balanced, new

\* A black sibling with black children: it becomes red, and its parent is
\* what the next round looks at.
LEMMA BothBlackStep ==
    ASSUME NEW t, NEW x, NEW sub, NEW bh, NEW p, NEW d, NEW w, Siblings(t, x, sub, bh, p, d, w),
           t.color[w] = "black", \A f \in Sides : t.color[t.child[w][f]] = "black",
           NEW u, u = Paint(t, w, "red")
    PROVE  \E new : Deleting(u, p, sub, new) /\ u.root = t.root
<1>1. /\ p \in Prices /\ d \in Sides /\ x \in Nodes /\ w \in Prices /\ p \in Nodes /\ w \in Nodes
      /\ p = t.parent[x] /\ x = t.child[p][d] /\ w = t.child[p][Other(d)]
      /\ p # x /\ w # x /\ w # p /\ t.parent[w] = p /\ w # Nil /\ p # Nil
      /\ p \in sub[t.root] /\ w # t.root
  BY Zenon, PricesAssumption DEF Siblings, Nodes
<1>2. /\ Shape(t, sub) /\ Balanced(t, bh, p, d) /\ Typed(t) /\ Spans(t, sub) /\ t \in Trees
      /\ NoRedRed(t, x, x) /\ t.color[Nil] = "black" /\ t.color[t.root] = "black" /\ t.color[x] = "black"
      /\ t.root \in Nodes
  BY Zenon DEF Siblings, Shape, Typed, Trees
<1>3. Painted(t, u, w, "red")
  BY Zenon, <1>1, <1>2, PaintReads DEF Colors
<1>4. Shape(u, sub) /\ u.root = t.root
  BY <1>2, <1>3, SameShape DEF SameLinks, Painted
<1>5. \A m \in Nodes : u.color[m] = IF m = w THEN "red" ELSE t.color[m]
  BY <1>3 DEF Painted
<1>6. NoRedRed(u, p, p)
  <2> SUFFICES ASSUME NEW n \in Prices, NEW f \in Sides, u.color[n] = "red", n # p
               PROVE  u.color[u.child[n][f]] = "black"
    BY DEF NoRedRed
  <2> DEFINE c == t.child[n][f]
  <2>1. c = t.child[n][f] /\ c \in Nodes /\ n \in Nodes /\ u.child[n][f] = c
    BY <1>2, <1>3 DEF Typed, Nodes, Painted
  <2>2. c # w
    <3>1. Shape(t, sub) /\ w \in Prices /\ t.parent[w] = p
      BY Zenon, <1>1, <1>2
    <3>2. t.child[n][f] = w => n = t.parent[w]
      BY <3>1, OnlyPlace
    <3> QED
      BY <3>1, <3>2
  <2> HIDE DEF c
  <2>3. t.color[c] = "black"
    <3>1. CASE n = w
      BY <2>1, <3>1
    <3>2. CASE n # w
      <4>1. t.color[n] = "red" /\ n # x
        BY <1>2, <1>5, <2>1, <3>2
      <4>2. t.color[t.child[n][f]] = "black" \/ t.child[n][f] = x
        BY <1>2, <4>1 DEF NoRedRed
      <4> QED
        BY <1>2, <2>1, <4>2
    <3> QED
      BY <3>1, <3>2
  <2>4. u.color[c] = "black"
    BY <1>5, <2>1, <2>2, <2>3
  <2> QED
    BY <2>1, <2>4
<1>7. u.color[Nil] = "black" /\ u.color[u.root] = "black"
  <2>1. Nil \in Nodes /\ Nil # w /\ t.root # w /\ t.root \in Nodes
    BY Zenon, <1>1, <1>2 DEF Nodes
  <2>2. t.color[Nil] = "black" /\ t.color[t.root] = "black"
    BY <1>2
  <2> QED
    BY <1>4, <1>5, <2>1, <2>2
<1>8. u.child = t.child /\ u.parent = t.parent
  BY <1>3 DEF Painted
<1>9. CASE p = t.root
  <2>1. Place(t, p, Nil, "left")
    <3>1. Shape(t, sub) /\ t.root \in Prices /\ p = t.root
      BY Zenon, <1>1, <1>2, <1>9
    <3>2. \A m \in Prices, f \in Sides : t.child[m][f] # p
      BY Zenon, <3>1, RootHasNoPlace
    <3> QED
      BY Zenon, <3>2, PricesAssumption DEF Place
  <2>2. Balanced(u, Lowered(bh, w, p), Nil, "left")
    BY <1>3, <2>1, DarkenBalanced
  <2>3. Deleting(u, p, sub, Lowered(bh, w, p))
    BY Zenon, <1>1, <1>2, <1>4, <1>6, <1>7, <1>9, <2>2 DEF Deleting
  <2> QED
    BY <1>4, <2>3
<1>10. CASE p # t.root
  <2>1. Place(t, p, t.parent[p], Side(t, p))
    <3>1. Shape(t, sub) /\ p \in Prices
      BY Zenon, <1>1, <1>2
    <3> HIDE <1>1
    <3> QED
      BY <3>1, OnlyPlace DEF Place
  <2>2. Balanced(u, Lowered(bh, w, p), t.parent[p], Side(t, p))
    BY <1>3, <2>1, DarkenBalanced
  <2>3. t.parent[p] \in sub[t.root] /\ t.child[t.parent[p]][Side(t, p)] = p
    BY Zenon, <1>1, <1>2, <1>10, ParentFacts
  <2>4. Side(u, p) = Side(t, p)
    BY <1>8 DEF Side, Left
  <2>5. Deleting(u, p, sub, Lowered(bh, w, p))
    BY Zenon, <1>1, <1>2, <1>4, <1>6, <1>7, <1>8, <1>10, <2>2, <2>3, <2>4 DEF Deleting
  <2> QED
    BY <1>4, <2>5
<1> QED
  BY <1>9, <1>10

\* w is a black sibling whose outer child is red, and S are the keys
OuterRed(u, x, p, d, w, S) ==
    \E sub, bh : /\ Siblings(u, x, sub, bh, p, d, w) /\ u.color[w] = "black"
                 /\ u.color[u.child[w][Other(d)]] = "red"
                 /\ sub[u.root] = S

\* A black sibling whose red child is on the side of x: that child comes up.
LEMMA AbsorbInner ==
    ASSUME NEW t, NEW x, NEW sub, NEW bh, NEW p, NEW d, NEW w, Siblings(t, x, sub, bh, p, d, w),
           t.color[w] = "black", NEW near, near = t.child[w][d], t.color[near] = "red",
           t.color[t.child[w][Other(d)]] = "black",
           NEW u, u = Rotate(Paint(Paint(t, near, "black"), w, "red"), w, Other(d))
    PROVE  OuterRed(u, x, p, d, near, sub[t.root])
<1> DEFINE o == Other(d)
           t1 == Paint(Paint(t, near, "black"), w, "red")
           b == t.child[near][o]
           sub2 == Swung(sub, w, near, b)
           bh2 == Traded(bh, w, near)
<1>1. /\ p \in Prices /\ d \in Sides /\ x \in Nodes /\ w \in Prices /\ p \in Nodes /\ w \in Nodes
      /\ t.parent[x] = p /\ t.child[p][d] = x /\ t.child[p][Other(d)] = w
      /\ p \in sub[t.root] /\ w \in sub[t.root] /\ p # x /\ w # x /\ w # p
      /\ t.parent[w] = p /\ w # t.root /\ w # Nil /\ p # Nil
  BY Zenon, PricesAssumption DEF Siblings, Nodes
<1>2. /\ Shape(t, sub) /\ t.color[Nil] = "black" /\ t.color[t.root] = "black" /\ t.color[x] = "black"
      /\ Balanced(t, bh, p, d) /\ NoRedRed(t, x, x) /\ t \in Trees /\ Typed(t)
      /\ Spans(t, sub) /\ Links(t, sub) /\ t.root \in Nodes
  BY Zenon DEF Siblings, Shape, Typed, Trees
<1>3. o \in Sides /\ Other(o) = d /\ o # d
  BY <1>1, SideFacts
<1>4. near \in Prices /\ near \in Nodes /\ near # Nil /\ near # x /\ near # t.root
  <2>1. near \in Nodes
    BY <1>1, <1>2 DEF Typed
  <2> QED
    BY <1>2, <2>1 DEF Nodes
<1>5. near # w /\ near # p
  <2>1. near # w
    BY <1>2
  <2>2. near # p
    <3>1. t.child[p][o] = w
      BY <1>1
    <3>2. t.child[w][d] # p
      BY <1>1, <1>2, <1>3, <3>1, NoLoop
    <3> QED
      BY <3>2
  <2> QED
    BY <2>1, <2>2
<1>6. Exchanged(t, t1, w, near)
  BY <1>1, <1>2, <1>4, <1>5, Exchange
<1>7. SameLinks(t, t1) /\ u = Rotate(t1, w, o)
  BY <1>6 DEF Exchanged
<1>d. o = Other(d) /\ b = t.child[near][o]
  OBVIOUS
<1> HIDE DEF t1, sub2, bh2, b, o
<1>8. /\ Arms(t, sub, w, o, near, b, p) /\ Rotated(t1, u, w, o, near, b, p)
      /\ Shape(u, sub2) /\ sub2[u.root] = sub[t.root]
  <2>1. /\ w \in sub[t.root] /\ near = t.child[w][Other(o)] /\ near # Nil /\ b = t.child[near][o]
        /\ p = t.parent[w]
    BY <1>1, <1>3, <1>4, <1>d
  <2>2. Swings(t, sub, w, o, near, b, p, t1, u)
    BY <1>2, <1>3, <1>7, <2>1, Turns
  <2> QED
    BY <2>2 DEF sub2, Swings
<1>9. Balanced(u, bh2, p, d)
  <2>1. p # near /\ ~(p = w) /\ Shape(t, sub) /\ Balanced(t, bh, p, d) /\ t.color[near] = "red"
    BY <1>1, <1>2, <1>5
  <2> QED
    BY <1>3, <1>6, <1>8, <2>1, RotateBalanced DEF bh2
<1>10. t.color[b] = "black" \/ b = x
  BY <1>2, <1>3, <1>4, <1>d DEF NoRedRed
<1>11. NoRedRed(u, x, x)
  <2>1. Shape(t, sub) /\ NoRedRed(t, x, x) /\ w # x /\ t.color[t.child[w][o]] = "black" /\ t.color[w] # "red"
    BY <1>1, <1>2, <1>d
  <2> QED
    BY <1>3, <1>6, <1>8, <1>10, <2>1, RotateRed
<1>12. \A m \in Nodes : u.color[m] = IF m = w THEN "red" ELSE IF m = near THEN "black" ELSE t.color[m]
  <2>1. u.color = t1.color
    BY <1>8 DEF Rotated
  <2>2. \A m \in Nodes : t1.color[m] = IF m = w THEN t.color[near] ELSE IF m = near THEN t.color[w] ELSE t.color[m]
    BY <1>6 DEF Exchanged
  <2> QED
    BY <2>1, <2>2
<1>13. u.color[Nil] = "black" /\ u.color[x] = "black" /\ u.color[near] = "black" /\ u.color[w] = "red"
  BY <1>1, <1>2, <1>4, <1>5, <1>12 DEF Nodes
<1>14. u.color[u.root] = "black"
  <2>1. u.root = t.root
    BY <1>1, <1>7, <1>8 DEF Rotated, SameLinks
  <2> QED
    BY <1>1, <1>2, <1>4, <1>12, <2>1
<1>15. Side(t, w) = o
  BY <1>1, <1>2, <1>3, <1>d, SideIs
<1>16. t1.child = t.child /\ t1.parent = t.parent
  BY <1>7 DEF SameLinks
<1>17. u.child[p][d] = x /\ u.child[p][Other(d)] = near /\ u.child[near][Other(d)] = w
  <2>1. Side(t1, w) = o
    BY <1>15, <1>16 DEF Side, Left
  <2>2. /\ \A e \in Sides : u.child[p][e] = IF e = Side(t1, w) THEN near ELSE t1.child[p][e]
        /\ u.child[near][o] = w
    BY Zenon, <1>1, <1>8 DEF Rotated
  <2>3. u.child[p][d] = t.child[p][d] /\ u.child[p][o] = near
    BY <1>1, <1>3, <1>16, <2>1, <2>2
  <2> QED
    BY <1>1, <1>d, <2>2, <2>3
<1>18. u.parent[x] = p
  <2>1. \A m \in Nodes : m \notin {w, near} /\ (m # b \/ b = Nil) => u.parent[m] = t1.parent[m]
    BY <1>8 DEF Rotated
  <2>2. b # Nil => t.parent[b] = near
    BY <1>2, <1>3, <1>4, <1>d DEF Links
  <2>3. x # b \/ b = Nil
    BY <1>1, <1>5, <2>2
  <2> QED
    BY <1>1, <1>4, <1>16, <2>1, <2>3
<1>19. Siblings(u, x, sub2, bh2, p, d, near)
  BY <1>8, <1>9, <1>11, <1>13, <1>14, <1>17, <1>18, GapStays
<1> QED
  BY Zenon, <1>8, <1>13, <1>17, <1>19 DEF OuterRed

\* A black sibling whose outer child is red: the sibling comes up, and no path
\* lacks a black node any more.
LEMMA AbsorbOuter ==
    ASSUME NEW t, NEW x, NEW sub, NEW bh, NEW p, NEW d, NEW w, Siblings(t, x, sub, bh, p, d, w),
           t.color[w] = "black", NEW far, far = t.child[w][Other(d)], t.color[far] = "red",
           NEW u, u = Rotate(Paint(Paint(Paint(t, w, t.color[p]), p, "black"), far, "black"), p, d)
    PROVE  \E sub2, bh2 : Deleting(u, u.root, sub2, bh2) /\ sub2[u.root] = sub[t.root]
<1> DEFINE o == Other(d)
           t1 == Paint(Paint(Paint(t, w, t.color[p]), p, "black"), far, "black")
           b == t.child[w][d]
           q == t.parent[p]
           sub2 == Swung(sub, p, w, b)
           bh2 == Raised(Traded(bh, p, w), far)
<1>1. /\ p \in Prices /\ d \in Sides /\ x \in Nodes /\ w \in Prices /\ p \in Nodes /\ w \in Nodes
      /\ t.parent[x] = p /\ t.child[p][d] = x /\ t.child[p][Other(d)] = w
      /\ p \in sub[t.root] /\ w \in sub[t.root] /\ p # x /\ w # x /\ w # p
      /\ t.parent[w] = p /\ w # t.root /\ w # Nil /\ p # Nil
  BY Zenon, PricesAssumption DEF Siblings, Nodes
<1>2. /\ Shape(t, sub) /\ t.color[Nil] = "black" /\ t.color[t.root] = "black" /\ t.color[x] = "black"
      /\ Balanced(t, bh, p, d) /\ NoRedRed(t, x, x) /\ t \in Trees /\ Typed(t)
      /\ Spans(t, sub) /\ Links(t, sub) /\ t.root \in Nodes
  BY Zenon DEF Siblings, Shape, Typed, Trees
<1>3. o \in Sides /\ Other(o) = d /\ o # d
  BY <1>1, SideFacts
<1>4. far \in Prices /\ far \in Nodes /\ far # Nil /\ far # x /\ far # t.root
  <2>1. far \in Nodes
    BY <1>1, <1>2, <1>3 DEF Typed
  <2> QED
    BY <1>2, <2>1 DEF Nodes
<1>5. far # w /\ far # p /\ far # b /\ far \in sub[w] /\ w \in sub[p]
  <2>1. far = t.child[w][o] /\ w = t.child[p][o]
    BY <1>1
  <2>2. far # w /\ far \in sub[w] /\ far # t.child[w][Other(o)]
    BY <1>1, <1>2, <1>3, <1>4, <2>1, ChildFacts
  <2>3. w \in sub[p]
    BY <1>1, <1>2, <1>3, <2>1, ChildFacts
  <2>4. far # p
    <3>1. t.child[p][o] = w
      BY <2>1
    <3>2. t.child[w][o] # p
      BY <1>1, <1>2, <1>3, <3>1, NoLoop
    <3> QED
      BY <2>1, <3>2
  <2> QED
    BY <1>3, <2>2, <2>3, <2>4
<1>6. /\ SameLinks(t, t1)
      /\ \A m \in Nodes : t1.color[m] = IF m = far \/ m = p THEN "black" ELSE IF m = w THEN t.color[p] ELSE t.color[m]
  <2> DEFINE a == Paint(t, w, t.color[p])
             c == Paint(a, p, "black")
  <2>1. t.color[p] \in Colors
    BY <1>1, <1>2 DEF Trees
  <2>2. Painted(t, a, w, t.color[p])
    BY <1>1, <1>2, <2>1, PaintReads
  <2>3. a \in Trees
    BY <2>2 DEF Painted
  <2> HIDE DEF a
  <2>4. Painted(a, c, p, "black")
    BY <1>1, <2>3, PaintReads DEF Colors
  <2>5. c \in Trees
    BY <2>4 DEF Painted
  <2>d. t1 = Paint(c, far, "black")
    BY DEF a
  <2> HIDE DEF c, t1
  <2>6. Painted(c, t1, far, "black")
    BY <1>4, <2>5, <2>d, PaintReads DEF Colors
  <2>7. SameLinks(t, t1)
    BY <2>2, <2>4, <2>6 DEF Painted, SameLinks
  <2>8. ASSUME NEW m \in Nodes
        PROVE  t1.color[m] = IF m = far \/ m = p THEN "black" ELSE IF m = w THEN t.color[p] ELSE t.color[m]
    BY <1>1, <1>5, <2>2, <2>4, <2>6 DEF Painted
  <2> QED
    BY <2>7, <2>8
<1>d. o = Other(d) /\ b = t.child[w][d] /\ q = t.parent[p] /\ u = Rotate(t1, p, d)
  OBVIOUS
<1> HIDE DEF t1, sub2, bh2, b, o, q
<1>7. /\ Arms(t, sub, p, d, w, b, q) /\ Rotated(t1, u, p, d, w, b, q)
      /\ Shape(u, sub2) /\ sub2[u.root] = sub[t.root]
  <2>1. /\ p \in sub[t.root] /\ w = t.child[p][Other(d)] /\ w # Nil /\ b = t.child[w][d]
        /\ q = t.parent[p]
    BY <1>1, <1>d
  <2>2. Swings(t, sub, p, d, w, b, q, t1, u)
    BY <1>1, <1>2, <1>6, <1>d, <2>1, Turns
  <2> QED
    BY <2>2 DEF sub2, Swings
<1>8. /\ t1.child = t.child /\ t1.parent = t.parent /\ t1.root = t.root
      /\ \A m \in Nodes : u.color[m] = IF m = far \/ m = p THEN "black" ELSE IF m = w THEN t.color[p] ELSE t.color[m]
  <2>1. u.color = t1.color
    BY <1>7 DEF Rotated
  <2> QED
    BY <1>6, <2>1 DEF SameLinks
<1>9. Shape(t1, sub) /\ Arms(t1, sub, p, d, w, b, q)
  <2>1. Shape(t1, sub)
    BY <1>2, <1>6, SameShape
  <2> QED
    BY Zenon, <1>7, <1>8, <2>1 DEF Arms
<1>10. ASSUME NEW n \in Prices, n # p, n # w, NEW f \in Sides
       PROVE  /\ t.child[n][f] # w
              /\ t.child[n][f] = p => u.child[n][f] = w /\ n = q
              /\ t.child[n][f] # p => u.child[n][f] = t.child[n][f] /\ u.child[n][f] # w /\ u.child[n][f] # p
  <2>1. /\ t1.child[n][f] # w
        /\ t1.child[n][f] = p => u.child[n][f] = w /\ n = q
        /\ t1.child[n][f] # p => u.child[n][f] = t1.child[n][f] /\ u.child[n][f] # w /\ u.child[n][f] # p
    <3>1. Shape(t1, sub) /\ Arms(t1, sub, p, d, w, b, q) /\ Rotated(t1, u, p, d, w, b, q) /\ d \in Sides
      BY <1>1, <1>7, <1>9
    <3>2. n # p /\ n # w
      BY <1>10
    <3> QED
      BY <3>1, <3>2, RotatedChildren
  <2> QED
    BY <1>8, <2>1
<1>11. u.child[w][d] = p /\ u.child[w][o] = far /\ u.child[p][o] = b /\ u.child[p][d] = x
  <2>1. /\ u.child[w][d] = p /\ u.child[w][o] = t1.child[w][o]
        /\ u.child[p][o] = b /\ u.child[p][d] = t1.child[p][d]
    BY Zenon, <1>7, <1>d DEF Rotated
  <2>2. t1.child[w][o] = far /\ t1.child[p][d] = x
    BY <1>1, <1>8, <1>d
  <2> QED
    BY <2>1, <2>2
<1>12. b \in Nodes /\ b # p /\ b # w
  BY Zenon, <1>7 DEF Arms
<1>13. \A n \in Prices, f \in Sides : t.child[n][f] = far => n = w
  <2>1. t.parent[far] = w
    BY <1>1, <1>2, <1>3, <1>4, <1>d DEF Links
  <2> QED
    BY <1>2, <1>4, <2>1, OnlyPlace
<1>14. far # q
  <2>1. ASSUME far = q PROVE FALSE
    <3>1. t.child[far][Side(t, p)] = p /\ Side(t, p) \in Sides
      BY <1>1, <1>2, <1>4, <1>d, <2>1, ParentFacts
    <3>2. far \notin sub[p]
      BY <1>2, <1>4, <3>1, SpansFacts
    <3>3. sub[w] \subseteq sub[p]
      BY <1>1, <1>2, <1>5, Transitive
    <3> QED
      BY <1>5, <3>2, <3>3
  <2> QED
    BY <2>1
<1>15. Balanced(u, bh2, Nil, "left")
  <2>1. /\ bh \in [Nodes -> Nat] /\ bh[Nil] = 0
        /\ \A n \in Prices, f \in Sides :
              bh[n] = bh[t.child[n][f]] + Weight(t, n) + (IF n = p /\ f = d THEN 1 ELSE 0)
    BY <1>2 DEF Balanced
  <2>2. /\ Weight(u, p) = 1 /\ Weight(u, far) = 1 /\ Weight(u, w) = Weight(t, p)
        /\ Weight(t, w) = 1 /\ Weight(t, far) = 0 /\ Weight(t, p) \in Nat
        /\ \A m \in Nodes : m \notin {p, w, far} => Weight(u, m) = Weight(t, m)
    BY <1>1, <1>4, <1>5, <1>8 DEF Weight
  <2>3. /\ bh2[p] = bh[w] /\ bh2[w] = bh[p] /\ bh2[far] = bh[far] + 1
        /\ \A m \in Nodes : m \notin {p, w, far} => bh2[m] = bh[m]
    BY <1>1, <1>4, <1>5 DEF bh2, Raised, Traded
  <2>4. bh2 \in [Nodes -> Nat] /\ bh2[Nil] = 0
    <3>1. \A m \in Nodes : bh2[m] \in Nat
      BY <1>1, <1>4, <2>1, <2>3
    <3>2. Nil \in Nodes
      BY DEF Nodes
    <3>3. bh2[Nil] = 0
      BY <1>1, <1>4, <2>1, <2>3, <3>2
    <3> QED
      BY <3>1, <3>3 DEF bh2, Raised
  <2>5. bh[w] \in Nat /\ bh[p] \in Nat /\ bh[far] \in Nat /\ bh[x] \in Nat /\ bh[b] \in Nat
    BY <1>1, <1>4, <1>12, <2>1
  <2>6. bh[p] = bh[x] + Weight(t, p) + 1
    BY <1>1, <2>1
  <2>7. bh[p] = bh[w] + Weight(t, p) + 0
    BY <1>1, <1>3, <1>d, <2>1
  <2>8. bh[w] = bh[far] + 1 + 0
    <3>1. bh[w] = bh[t.child[w][o]] + Weight(t, w) + (IF w = p /\ o = d THEN 1 ELSE 0)
      BY <1>1, <1>3, <2>1
    <3> QED
      BY <1>1, <1>3, <1>d, <2>2, <3>1
  <2>9. bh[w] = bh[b] + 1 + 0
    <3>1. bh[w] = bh[t.child[w][d]] + Weight(t, w) + (IF w = p /\ d = d THEN 1 ELSE 0)
      BY <1>1, <2>1
    <3> QED
      BY <1>1, <1>d, <2>2, <3>1
  <2>10. ASSUME NEW n \in Prices, NEW f \in Sides
         PROVE  bh2[n] = bh2[u.child[n][f]] + Weight(u, n) + 0
    <3>1. f = d \/ f = o
      BY <1>1, <1>d, SideFacts
    <3>2. CASE n = p /\ f = d
      <4>1. bh2[x] = bh[x]
        BY <1>1, <1>4, <2>3
      <4> QED
        BY <1>11, <2>2, <2>3, <2>5, <2>6, <2>7, <3>2, <4>1
    <3>3. CASE n = p /\ f = o
      <4>1. bh2[b] = bh[b]
        BY <1>5, <1>12, <2>3
      <4> QED
        BY <1>11, <2>2, <2>3, <2>5, <2>9, <3>3, <4>1
    <3>4. CASE n = w /\ f = d
      BY <1>11, <2>2, <2>3, <2>5, <2>7, <3>4
    <3>5. CASE n = w /\ f = o
      BY <1>11, <2>2, <2>3, <2>5, <2>7, <2>8, <3>5
    <3>6. CASE n # p /\ n # w
      <4> DEFINE c == t.child[n][f]
      <4>1. c \in Nodes /\ n \in Nodes
        BY <1>2 DEF Typed, Nodes
      <4>2. c = t.child[n][f] /\ c # far
        BY <1>13, <3>6
      <4>3. /\ c # w /\ (c = p => u.child[n][f] = w /\ n = q) /\ (c # p => u.child[n][f] = c)
        BY <1>10, <3>6
      <4>4. bh[n] = bh[c] + Weight(t, n) + 0
        BY <2>1, <3>6
      <4> HIDE DEF c
      <4>5. bh[c] \in Nat /\ bh[n] \in Nat /\ Weight(t, n) \in Nat
        BY <2>1, <4>1 DEF Weight
      <4>6. bh2[u.child[n][f]] = bh[c]
        <5>1. CASE c = p
          BY <2>3, <4>3, <5>1
        <5>2. CASE c # p
          BY <2>3, <4>1, <4>2, <4>3, <5>2
        <5> QED
          BY <5>1, <5>2
      <4>7. CASE n = far
        BY <2>2, <2>3, <4>4, <4>5, <4>6, <4>7
      <4>8. CASE n # far
        <5>1. bh2[n] = bh[n] /\ Weight(u, n) = Weight(t, n)
          BY <2>2, <2>3, <3>6, <4>1, <4>8
        <5> QED
          BY <4>4, <4>5, <4>6, <5>1
      <4> QED
        BY <4>7, <4>8
    <3> QED
      BY <3>1, <3>2, <3>3, <3>4, <3>5, <3>6
  <2>11. \A n \in Prices, f \in Sides : ~(n = Nil /\ f = "left")
    BY PricesAssumption
  <2> QED
    BY <2>4, <2>10, <2>11 DEF Balanced
<1>16. NoRedRed(u, Nil, Nil)
  <2> SUFFICES ASSUME NEW n \in Prices, NEW f \in Sides, u.color[n] = "red"
               PROVE  u.color[u.child[n][f]] = "black"
    BY DEF NoRedRed
  <2>1. n \in Nodes /\ n # p /\ n # far
    BY <1>8 DEF Nodes
  <2>2. CASE n = w
    <3>1. f = d \/ f = o
      BY <1>1, <1>d, SideFacts
    <3>2. u.child[w][f] = p \/ u.child[w][f] = far
      BY <1>11, <3>1
    <3> QED
      BY <1>1, <1>4, <1>8, <2>2, <3>2
  <2>3. CASE n # w
    <3> DEFINE c == t.child[n][f]
    <3>1. t.color[n] = "red" /\ n # x
      BY <1>2, <1>8, <2>1, <2>3
    <3>2. t.color[c] = "black"
      BY <1>2, <3>1 DEF NoRedRed
    <3>3. c \in Nodes
      BY <1>2 DEF Typed
    <3>4. c # w /\ (c = p => u.child[n][f] = w) /\ (c # p => u.child[n][f] = c)
      BY <1>10, <2>1, <2>3
    <3> HIDE DEF c
    <3>5. CASE c = p
      BY <1>1, <1>5, <1>8, <3>2, <3>4, <3>5
    <3>6. CASE c # p
      BY <1>8, <3>2, <3>3, <3>4, <3>6
    <3> QED
      BY <3>5, <3>6
  <2> QED
    BY <2>2, <2>3
<1>17. u.color[Nil] = "black"
  BY <1>1, <1>2, <1>8 DEF Nodes
<1>18. u.color[u.root] = "black"
  <2>1. u.root = IF q = Nil THEN w ELSE t.root
    BY Zenon, <1>7, <1>8 DEF Rotated
  <2>2. q = Nil => p = t.root
    BY <1>1, <1>2, <1>d, ParentFacts
  <2>3. CASE q = Nil
    BY <1>1, <1>2, <1>5, <1>8, <2>1, <2>2, <2>3
  <2>4. CASE q # Nil
    BY <1>1, <1>2, <1>8, <2>1, <2>4
  <2> QED
    BY <2>3, <2>4
<1>19. u.root \in sub2[u.root]
  <2>1. p \in sub2[u.root] /\ Typed(u) /\ Spans(u, sub2) /\ u.root \in Nodes
    BY Zenon, <1>1, <1>7 DEF Shape, Typed, Trees
  <2>2. u.root \in Prices
    BY <2>1 DEF Spans, Nodes
  <2> QED
    BY <2>1, <2>2, SpansFacts
<1>20. NoRedRed(u, u.root, u.root)
  BY Zenon, <1>16, <1>17, PricesAssumption DEF NoRedRed
<1>21. Deleting(u, u.root, sub2, bh2)
  BY <1>7, <1>15, <1>17, <1>18, <1>19, <1>20 DEF Deleting
<1> QED
  BY <1>7, <1>21

\* After a red sibling was rotated away the relatives of x are these.
LEMMA TurnedSiblings ==
    ASSUME NEW t, NEW sub, NEW bh, NEW x, Deleting(t, x, sub, bh), x # t.root, t.color[x] = "black",
           NEW s, s = Turned(t, x)
    PROVE  \E sub1, bh1 :
              /\ Siblings(s, x, sub1, bh1, s.parent[x], Side(s, x), Sibling(s, x))
              /\ s.color[Sibling(s, x)] = "black" /\ sub1[s.root] = sub[t.root]
<1> DEFINE p == t.parent[x]
           d == Side(t, x)
           w == t.child[p][Other(d)]
<1>d. p = t.parent[x] /\ d = Side(t, x) /\ w = t.child[p][Other(d)]
  OBVIOUS
<1>1. s = IF t.color[w] = "red" THEN Rotate(Paint(Paint(t, w, "black"), p, "red"), p, d) ELSE t
  BY DEF Turned
<1> HIDE DEF p, d, w
<1>2. Siblings(t, x, sub, bh, p, d, w)
  BY <1>d, DeleteSiblings
<1>3. \E sub1, bh1, w1 : Siblings(s, x, sub1, bh1, p, d, w1) /\ s.color[w1] = "black"
                         /\ sub1[s.root] = sub[t.root]
  <2>1. CASE t.color[w] = "red"
    <3>1. s = Rotate(Paint(Paint(t, w, "black"), p, "red"), p, d)
      BY <1>1, <2>1
    <3> QED
      BY <1>2, <2>1, <3>1, TurnedStep
  <2>2. CASE t.color[w] # "red"
    <3>1. t.color[w] \in Colors
      BY Zenon, <1>2 DEF Siblings, Shape, Typed, Trees, Nodes
    <3>2. s = t /\ t.color[w] = "black"
      BY <1>1, <2>2, <3>1 DEF Colors
    <3> QED
      BY <1>2, <3>2
  <2> QED
    BY <2>1, <2>2
<1>4. PICK sub1, bh1, w1 : Siblings(s, x, sub1, bh1, p, d, w1) /\ s.color[w1] = "black"
                           /\ sub1[s.root] = sub[t.root]
  BY <1>3
<1>5. p = s.parent[x] /\ d = Side(s, x) /\ w1 = Sibling(s, x)
  BY Zenon, <1>4 DEF Siblings, Sibling
<1> QED
  BY <1>4, <1>5

\* A round of deleteFixup.
LEMMA DeleteFixupStep ==
    ASSUME NEW t, NEW sub, NEW bh, NEW x, Deleting(t, x, sub, bh), x # t.root, t.color[x] = "black",
           NEW s, s = Turned(t, x), NEW w, w = Sibling(s, x), NEW u, NEW next,
           IF s.color[Left(s, w)] = "black" /\ s.color[Right(s, w)] = "black"
           THEN u = Paint(s, w, "red") /\ next = s.parent[x]
           ELSE u = Absorb(s, x) /\ next = u.root
    PROVE  \E sub2, bh2 : Deleting(u, next, sub2, bh2) /\ sub2[u.root] = sub[t.root]
<1>1. PICK sub1, bh1 : /\ Siblings(s, x, sub1, bh1, s.parent[x], Side(s, x), w)
                       /\ s.color[w] = "black" /\ sub1[s.root] = sub[t.root]
  BY TurnedSiblings
<1> DEFINE p == s.parent[x]
           d == Side(s, x)
           far == s.child[w][Other(d)]
           near == s.child[w][d]
<1>d. /\ p = s.parent[x] /\ d = Side(s, x) /\ far = s.child[w][Other(d)] /\ near = s.child[w][d]
      /\ Left(s, w) = s.child[w]["left"] /\ Right(s, w) = s.child[w]["right"]
  BY DEF Left, Right
<1>2. Siblings(s, x, sub1, bh1, p, d, w) /\ s.color[w] = "black" /\ sub1[s.root] = sub[t.root]
  BY <1>1
<1>3. /\ w = s.child[p][Other(d)]
      /\ Absorb(s, x) =
            LET t1 == IF s.color[far] = "red" THEN s
                      ELSE Rotate(Paint(Paint(s, near, "black"), w, "red"), w, Other(d))
                w1 == t1.child[p][Other(d)]
            IN Rotate(Paint(Paint(Paint(t1, w1, t1.color[p]), p, "black"), t1.child[w1][Other(d)], "black"), p, d)
  <2>1. w = s.child[p][Other(d)]
    BY <1>2 DEF Siblings
  <2> QED
    BY Zenon, <2>1 DEF Absorb
<1> HIDE DEF p, d, far, near
<1>4. d \in Sides /\ far \in Nodes /\ near \in Nodes /\ s.color[far] \in Colors /\ s.color[near] \in Colors
  <2>1. d \in Sides /\ w \in Prices /\ Typed(s) /\ s \in Trees
    <3>1. d \in Sides /\ w \in Prices /\ Shape(s, sub1)
      BY Zenon, <1>2 DEF Siblings
    <3> QED
      BY Zenon, <3>1 DEF Shape, Typed
  <2>2. far \in Nodes /\ near \in Nodes
    BY <1>d, <2>1, SideFacts DEF Typed
  <2> QED
    BY <2>1, <2>2 DEF Trees
<1>5. CASE s.color[Left(s, w)] = "black" /\ s.color[Right(s, w)] = "black"
  <2>1. u = Paint(s, w, "red") /\ next = p
    BY <1>5, <1>d
  <2>2. \A f \in Sides : s.color[s.child[w][f]] = "black"
    BY <1>5, <1>d DEF Sides
  <2>3. \E new : Deleting(u, p, sub1, new) /\ u.root = s.root
    BY <1>2, <2>1, <2>2, BothBlackStep
  <2> QED
    BY <1>2, <2>1, <2>3
<1>6. CASE ~(s.color[Left(s, w)] = "black" /\ s.color[Right(s, w)] = "black")
  <2>1. u = Absorb(s, x) /\ next = u.root
    BY <1>6
  <2>2. CASE s.color[far] = "red"
    <3>1. u = Rotate(Paint(Paint(Paint(s, w, s.color[p]), p, "black"), far, "black"), p, d)
      BY Zenon, <1>3, <1>d, <2>1, <2>2
    <3>2. \E sub2, bh2 : Deleting(u, u.root, sub2, bh2) /\ sub2[u.root] = sub1[s.root]
      BY <1>2, <1>d, <2>2, <3>1, AbsorbOuter
    <3> QED
      BY <1>2, <2>1, <3>2
  <2>3. CASE s.color[far] # "red"
    <3> DEFINE r == Rotate(Paint(Paint(s, near, "black"), w, "red"), w, Other(d))
    <3>1. s.color[far] = "black" /\ s.color[near] = "red"
      <4>1. s.color[far] = "black"
        BY <1>4, <2>3 DEF Colors
      <4>2. s.color[near] # "black"
        BY <1>4, <1>6, <1>d, <4>1 DEF Sides, Other
      <4> QED
        BY <1>4, <4>1, <4>2 DEF Colors
    <3>2. u = Rotate(Paint(Paint(Paint(r, r.child[p][Other(d)], r.color[p]), p, "black"),
                           r.child[r.child[p][Other(d)]][Other(d)], "black"), p, d)
      BY Zenon, <1>3, <2>1, <2>3
    <3>d. r = Rotate(Paint(Paint(s, near, "black"), w, "red"), w, Other(d))
      OBVIOUS
    <3> HIDE DEF r
    <3>a. OuterRed(r, x, p, d, near, sub1[s.root])
      <4>1. /\ Siblings(s, x, sub1, bh1, p, d, w) /\ s.color[w] = "black" /\ near = s.child[w][d]
            /\ s.color[near] = "red" /\ s.color[s.child[w][Other(d)]] = "black"
            /\ r = Rotate(Paint(Paint(s, near, "black"), w, "red"), w, Other(d))
        BY <1>2, <1>d, <3>1, <3>d
      <4> QED
        BY Zenon, <4>1, AbsorbInner
    <3>3. PICK sub2, bh2 : /\ Siblings(r, x, sub2, bh2, p, d, near) /\ r.color[near] = "black"
                           /\ r.color[r.child[near][Other(d)]] = "red"
                           /\ sub2[r.root] = sub1[s.root]
      BY Zenon, <3>a DEF OuterRed
    <3> DEFINE out == r.child[near][Other(d)]
    <3>4. near = r.child[p][Other(d)]
      BY Zenon, <3>3 DEF Siblings
    <3>5. /\ out = r.child[near][Other(d)] /\ r.color[out] = "red"
          /\ u = Rotate(Paint(Paint(Paint(r, near, r.color[p]), p, "black"), out, "black"), p, d)
      BY <3>2, <3>3, <3>4
    <3> HIDE DEF out
    <3>6. \E sub3, bh3 : Deleting(u, u.root, sub3, bh3) /\ sub3[u.root] = sub2[r.root]
      BY <3>3, <3>5, AbsorbOuter
    <3> QED
      BY <1>2, <2>1, <3>3, <3>6
  <2> QED
    BY <2>2, <2>3
<1> QED
  BY <1>5, <1>6

-----------------------------------------------------------------------------
(* The loops that go down the tree.                                         *)

\* f gives the node where a walk ends that goes on to side D[n] of every node
Walks(t, D, f) ==
    f = [n \in Prices |-> IF t.child[n][D[n]] = Nil THEN n ELSE f[t.child[n][D[n]]]]

\* where a walk from n can end
Stops(t, sub, D, n) ==
    {k \in sub[n] : /\ t.child[k][D[k]] = Nil
                    /\ \A j \in sub[n], e \in Sides : k \in sub[t.child[j][e]] => e = D[j]}

LEMMA StopsNext ==
    ASSUME NEW t, NEW sub, Typed(t), Spans(t, sub), NEW D \in [Prices -> Sides], NEW n \in Prices,
           NEW next, next = t.child[n][D[n]]
    PROVE  Stops(t, sub, D, n) = IF next = Nil THEN {n} ELSE Stops(t, sub, D, next)
<1>1. D[n] \in Sides /\ next \in Nodes
  BY DEF Typed
<1>2. \A m \in Prices : m \in sub[n] <=> m = n \/ \E e \in Sides : m \in sub[t.child[n][e]]
  BY DEF Spans
<1>3. n \in sub[n] /\ sub[n] \subseteq Prices /\ sub[Nil] = {}
  BY SpansFacts DEF Spans
<1>4. \A m \in sub[n] : \A j \in sub[m] : j \in sub[n]
  BY Transitive
<1>5. \A m \in Prices, e \in Sides : m \notin sub[t.child[m][e]] /\ sub[t.child[m][e]] \subseteq sub[m]
  BY SpansFacts
<1>6. CASE next = Nil
  <2>1. ASSUME NEW k \in Stops(t, sub, D, n) PROVE k = n
    <3>1. k \in sub[n] /\ \A e \in Sides : k \in sub[t.child[n][e]] => e = D[n]
      BY <1>3 DEF Stops
    <3>2. k \notin sub[t.child[n][D[n]]]
      BY <1>3, <1>6
    <3> QED
      BY <1>2, <1>3, <3>1, <3>2
  <2>2. n \in Stops(t, sub, D, n)
    <3>1. ASSUME NEW j \in sub[n], NEW e \in Sides PROVE n \notin sub[t.child[j][e]]
      <4>1. CASE j = n
        BY <1>5, <4>1
      <4>2. CASE j # n
        <5>1. PICK c \in Sides : j \in sub[t.child[n][c]]
          BY <1>2, <1>3, <4>2
        <5>2. t.child[n][c] \in Nodes /\ t.child[n][c] # Nil
          BY <1>3, <5>1 DEF Typed
        <5>3. t.child[n][c] \in Prices
          BY <5>2 DEF Nodes
        <5>4. sub[j] \subseteq sub[t.child[n][c]]
          BY <5>1, <5>3, Transitive
        <5>5. sub[t.child[j][e]] \subseteq sub[j]
          BY <1>3, <1>5
        <5> QED
          BY <1>5, <5>4, <5>5
      <4> QED
        BY <4>1, <4>2
    <3> QED
      BY <1>3, <1>6, <3>1 DEF Stops
  <2> QED
    BY <1>6, <2>1, <2>2
<1>7. CASE next # Nil
  <2>1. next \in Prices /\ next \in sub[n] /\ sub[next] \subseteq sub[n] /\ n \notin sub[next]
    <3>1. next \in Prices
      BY <1>1, <1>7 DEF Nodes
    <3> QED
      BY <1>1, <1>3, <1>5, <3>1, SpansFacts
  <2>2. \A m \in sub[next] : \A j \in sub[m] : j \in sub[next]
    BY <2>1, Transitive
  <2>3. ASSUME NEW k \in Stops(t, sub, D, n) PROVE k \in Stops(t, sub, D, next)
    <3>1. /\ k \in sub[n] /\ t.child[k][D[k]] = Nil
          /\ \A j \in sub[n], e \in Sides : k \in sub[t.child[j][e]] => e = D[j]
      BY DEF Stops
    <3>2. k # n
      BY <1>7, <3>1
    <3>3. PICK e \in Sides : k \in sub[t.child[n][e]]
      BY <1>2, <1>3, <3>1, <3>2
    <3>4. k \in sub[next]
      BY <1>3, <3>1, <3>3
    <3> QED
      BY <2>1, <3>1, <3>4 DEF Stops
  <2>4. ASSUME NEW k \in Stops(t, sub, D, next) PROVE k \in Stops(t, sub, D, n)
    <3>1. /\ k \in sub[next] /\ t.child[k][D[k]] = Nil
          /\ \A j \in sub[next], e \in Sides : k \in sub[t.child[j][e]] => e = D[j]
      BY DEF Stops
    <3>2. ASSUME NEW j \in sub[n], NEW e \in Sides, k \in sub[t.child[j][e]] PROVE e = D[j]
      <4>1. CASE j = n
        BY <1>1, <3>1, <3>2, <4>1, Disjoint
      <4>2. CASE j # n
        <5>1. PICK c \in Sides : j \in sub[t.child[n][c]]
          BY <1>2, <1>3, <4>2
        <5>2. t.child[n][c] \in Nodes /\ t.child[n][c] # Nil
          BY <1>3, <5>1 DEF Typed
        <5>3. t.child[n][c] \in Prices
          BY <5>2 DEF Nodes
        <5>4. sub[j] \subseteq sub[t.child[n][c]]
          BY <5>1, <5>3, Transitive
        <5>5. sub[t.child[j][e]] \subseteq sub[j]
          BY <1>3, <1>5
        <5>6. k \in sub[t.child[n][c]] /\ k \in sub[t.child[n][D[n]]]
          BY <3>1, <3>2, <5>4, <5>5
        <5>7. c = D[n]
          BY <1>1, <5>6, Disjoint
        <5> QED
          BY <3>1, <3>2, <5>1, <5>7
      <4> QED
        BY <4>1, <4>2
    <3> QED
      BY <2>1, <3>1, <3>2 DEF Stops
  <2> QED
    BY <1>7, <2>3, <2>4
<1> QED
  BY <1>6, <1>7

LEMMA WalkExists ==
    ASSUME NEW t, NEW sub, Typed(t), Spans(t, sub), NEW D \in [Prices -> Sides]
    PROVE  \E f : Walks(t, D, f)
<1> DEFINE f == [n \in Prices |-> CHOOSE k : k \in Stops(t, sub, D, n)]
<1>1. ASSUME NEW n \in Prices
      PROVE  f[n] = IF t.child[n][D[n]] = Nil THEN n ELSE f[t.child[n][D[n]]]
  <2> DEFINE next == t.child[n][D[n]]
  <2>1. next \in Nodes /\ next = t.child[n][D[n]]
    BY DEF Typed
  <2> HIDE DEF next
  <2>2. Stops(t, sub, D, n) = IF next = Nil THEN {n} ELSE Stops(t, sub, D, next)
    BY <2>1, StopsNext
  <2>3. CASE next = Nil
    BY <2>1, <2>2, <2>3
  <2>4. CASE next # Nil
    <3>1. next \in Prices
      BY <2>1, <2>4 DEF Nodes
    <3> QED
      BY <2>1, <2>2, <2>4, <3>1
  <2> QED
    BY <2>3, <2>4
<1>2. f = [n \in Prices |-> f[n]]
  OBVIOUS
<1> HIDE DEF f
<1>3. Walks(t, D, f)
  BY <1>1, <1>2 DEF Walks
<1> QED
  BY <1>3

LEMMA WalkStops ==
    ASSUME NEW t, NEW sub, Typed(t), Spans(t, sub), NEW D \in [Prices -> Sides], NEW f, Walks(t, D, f)
    PROVE  \A n \in Prices : f[n] \in Stops(t, sub, D, n)
<1> DEFINE S == {n \in Prices : f[n] \in Stops(t, sub, D, n)}
<1>1. ASSUME NEW n \in Prices, \A d \in Sides : t.child[n][d] # Nil => t.child[n][d] \in S
      PROVE  n \in S
  <2> DEFINE next == t.child[n][D[n]]
  <2>1. next = t.child[n][D[n]] /\ f[n] = IF next = Nil THEN n ELSE f[next]
    BY DEF Walks
  <2>2. next # Nil => next \in S
    BY <1>1
  <2> HIDE DEF next
  <2>3. Stops(t, sub, D, n) = IF next = Nil THEN {n} ELSE Stops(t, sub, D, next)
    BY <2>1, StopsNext
  <2> QED
    BY <2>1, <2>2, <2>3
<1>2. \A n \in Prices : n \in S
  <2> HIDE DEF S
  <2> QED
    BY <1>1, BottomUp
<1> QED
  BY <1>2

\* k is the outermost of S on side d
Outermost(d, S, k) == k \in S /\ \A j \in S : j = k \/ Beyond(d, k, j)

\* minimum and maximum return the outermost price below a node, which has no
\* child on that side.
LEMMA ExtremeIs ==
    ASSUME NEW t, NEW sub, Typed(t), Spans(t, sub), NEW n \in Prices, NEW d \in Sides
    PROVE  /\ Outermost(d, sub[n], Extreme(t, n, d)) /\ Extreme(t, n, d) \in Prices
           /\ t.child[Extreme(t, n, d)][d] = Nil
<1> DEFINE D == [m \in Prices |-> d]
           down == CHOOSE f : f = [m \in Prices |-> IF t.child[m][d] = Nil THEN m ELSE f[t.child[m][d]]]
<1>1. Extreme(t, n, d) = down[n]
  BY DEF Extreme
<1>2. D \in [Prices -> Sides] /\ \A m \in Prices : D[m] = d
  OBVIOUS
<1> HIDE DEF D
<1>3. PICK f : Walks(t, D, f)
  BY <1>2, WalkExists
<1>4. f = [m \in Prices |-> IF t.child[m][d] = Nil THEN m ELSE f[t.child[m][d]]]
  BY <1>2, <1>3 DEF Walks
<1>5. down = [m \in Prices |-> IF t.child[m][d] = Nil THEN m ELSE down[t.child[m][d]]]
  BY <1>4
<1> HIDE DEF down
<1> DEFINE S == {m \in Prices : Outermost(d, sub[m], down[m]) /\ t.child[down[m]][d] = Nil}
<1>6. ASSUME NEW m \in Prices, \A e \in Sides : t.child[m][e] # Nil => t.child[m][e] \in S
      PROVE  m \in S
  <2> DEFINE c == t.child[m][d]
  <2>1. c = t.child[m][d] /\ down[m] = IF c = Nil THEN m ELSE down[c]
    BY <1>5
  <2>2. \A j \in Prices : j \in sub[m] <=> j = m \/ \E e \in Sides : j \in sub[t.child[m][e]]
    BY DEF Spans
  <2>3. m \in sub[m] /\ sub[m] \subseteq Prices /\ sub[Nil] = {}
    BY SpansFacts DEF Spans
  <2>4. \A j \in sub[m] : j = m \/ j \in sub[c] \/ Beyond(Other(d), j, m)
    BY <2>2, <2>3, SideFacts DEF Spans
  <2>5. CASE c = Nil
    <3>1. \A j \in sub[m] : j = m \/ Beyond(d, m, j)
      BY <2>3, <2>4, <2>5, Order, SideFacts
    <3> QED
      BY <2>1, <2>3, <2>5, <3>1 DEF Outermost
  <2>6. CASE c # Nil
    <3>1. c \in S
      BY <1>6, <2>6
    <3>2. Outermost(d, sub[c], down[c]) /\ t.child[down[c]][d] = Nil
      BY <3>1
    <3> DEFINE k == down[c]
    <3>3. k = down[c] /\ k \in sub[c] /\ \A j \in sub[c] : j = k \/ Beyond(d, k, j)
      BY <3>2 DEF Outermost
    <3> HIDE DEF k, c, S
    <3>4. k \in sub[m] /\ k \in Prices /\ Beyond(d, k, m)
      <4>1. sub[c] \subseteq sub[m]
        BY <2>1, SpansFacts
      <4> QED
        BY <2>1, <2>3, <3>3, <4>1 DEF Spans
    <3>5. ASSUME NEW j \in sub[m] PROVE j = k \/ Beyond(d, k, j)
      <4>1. j \in Prices
        BY <2>3
      <4>2. CASE j = m
        BY <3>4, <4>2
      <4>3. CASE j \in sub[c]
        BY <3>3, <4>3
      <4>4. CASE Beyond(Other(d), j, m)
        BY <3>4, <4>1, <4>4, Order, SideFacts
      <4> QED
        BY <2>4, <4>2, <4>3, <4>4
    <3>6. Outermost(d, sub[m], down[m]) /\ t.child[down[m]][d] = Nil
      BY <2>1, <2>6, <3>2, <3>3, <3>4, <3>5 DEF Outermost
    <3> QED
      BY <3>6 DEF S
  <2> QED
    BY <2>5, <2>6
<1>7. \A m \in Prices : m \in S
  <2> HIDE DEF S
  <2> QED
    BY <1>6, BottomUp
<1>8. Outermost(d, sub[n], down[n]) /\ t.child[down[n]][d] = Nil
  BY <1>7
<1>9. sub[n] \subseteq Prices
  BY SpansFacts
<1> QED
  BY <1>1, <1>8, <1>9 DEF Outermost

\* The node below which a new price goes: it has no child on the side of the
\* price, and so has the price on the right side of every node above it.
LEMMA BelowIs ==
    ASSUME NEW t, NEW sub, Typed(t), Spans(t, sub), t.root \in Prices, NEW z \in Prices, NEW y, y = Below(t, z)
    PROVE  /\ y \in sub[t.root] /\ t.child[y][Toward(z, y)] = Nil
           /\ \A j \in sub[t.root], e \in Sides : y \in sub[t.child[j][e]] => e = Toward(z, j)
<1> DEFINE D == [m \in Prices |-> Toward(z, m)]
           down == CHOOSE f : f = [m \in Prices |-> IF t.child[m][Toward(z, m)] = Nil THEN m
                                                    ELSE f[t.child[m][Toward(z, m)]]]
<1>1. y = down[t.root]
  BY PricesAssumption DEF Below
<1>2. D \in [Prices -> Sides] /\ \A m \in Prices : D[m] = Toward(z, m)
  BY DEF Toward, Sides
<1> HIDE DEF D
<1>3. PICK f : Walks(t, D, f)
  BY <1>2, WalkExists
<1>4. f = [m \in Prices |-> IF t.child[m][Toward(z, m)] = Nil THEN m ELSE f[t.child[m][Toward(z, m)]]]
  BY <1>2, <1>3 DEF Walks
<1>5. down = [m \in Prices |-> IF t.child[m][Toward(z, m)] = Nil THEN m ELSE down[t.child[m][Toward(z, m)]]]
  BY <1>4
<1> HIDE DEF down
<1>6. Walks(t, D, down)
  BY <1>2, <1>5 DEF Walks
<1>7. down[t.root] \in Stops(t, sub, D, t.root)
  BY <1>2, <1>6, WalkStops
<1>8. sub[t.root] \subseteq Prices
  BY SpansFacts
<1> QED
  BY <1>1, <1>2, <1>7, <1>8 DEF Stops

\* A search finds a price when it is below the root.
LEMMA SearchIs ==
    ASSUME NEW t, NEW sub, Typed(t), Spans(t, sub), NEW z \in Prices
    PROVE  Search(t, z) = IF z \in sub[t.root] THEN z ELSE Nil
<1> DEFINE find == CHOOSE f : f = [n \in Nodes |-> IF n = Nil \/ n = z THEN n
                                                  ELSE f[t.child[n][Toward(z, n)]]]
           g == [n \in Nodes |-> IF z \in sub[n] THEN z ELSE Nil]
<1>1. Search(t, z) = find[t.root]
  BY DEF Search
<1>2. \A n : Toward(z, n) \in Sides
  BY DEF Toward, Sides
<1>3. Nil \in Nodes /\ sub[Nil] = {} /\ t.root \in Nodes
  BY DEF Spans, Nodes, Typed, Trees
<1>4. ASSUME NEW n \in Prices
      PROVE  /\ n = z => z \in sub[n]
             /\ n # z => (z \in sub[n] <=> z \in sub[t.child[n][Toward(z, n)]])
             /\ t.child[n][Toward(z, n)] \in Nodes
  <2>1. n \in sub[n] /\ t.child[n][Toward(z, n)] \in Nodes
    BY <1>2, SpansFacts
  <2>2. ASSUME n # z, NEW e \in Sides, z \in sub[t.child[n][e]]
        PROVE  e = Toward(z, n)
    <3>1. Beyond(e, z, n)
      BY <2>2 DEF Spans
    <3> QED
      BY <3>1, PricesAssumption DEF Beyond, Toward, Sides
  <2>3. z \in sub[n] <=> z = n \/ \E e \in Sides : z \in sub[t.child[n][e]]
    BY DEF Spans
  <2> QED
    BY <1>2, <2>1, <2>2, <2>3
<1>5. g = [n \in Nodes |-> IF n = Nil \/ n = z THEN n ELSE g[t.child[n][Toward(z, n)]]]
  <2>1. ASSUME NEW n \in Nodes
        PROVE  g[n] = IF n = Nil \/ n = z THEN n ELSE g[t.child[n][Toward(z, n)]]
    <3>1. CASE n = Nil
      BY <1>3, <3>1
    <3>2. CASE n # Nil
      <4>1. n \in Prices
        BY <3>2 DEF Nodes
      <4> QED
        BY <1>4, <3>2, <4>1
    <3> QED
      BY <3>1, <3>2
  <2> QED
    BY <2>1
<1> HIDE DEF g
<1>6. find = [n \in Nodes |-> IF n = Nil \/ n = z THEN n ELSE find[t.child[n][Toward(z, n)]]]
  BY <1>5
<1> HIDE DEF find
<1> DEFINE S == {n \in Prices : find[n] = IF z \in sub[n] THEN z ELSE Nil}
<1>7. find[Nil] = Nil
  BY <1>3, <1>6
<1>8. ASSUME NEW n \in Prices, \A d \in Sides : t.child[n][d] # Nil => t.child[n][d] \in S
      PROVE  n \in S
  <2> DEFINE c == t.child[n][Toward(z, n)]
  <2>1. find[n] = IF n = z THEN n ELSE find[c]
    BY <1>6, PricesAssumption DEF Nodes
  <2>2. c # Nil => c \in S
    BY <1>2, <1>8
  <2>3. n # z => (z \in sub[n] <=> z \in sub[c])
    BY <1>4
  <2>4. n = z => z \in sub[n]
    BY <1>4
  <2> HIDE DEF c
  <2> QED
    BY <1>3, <1>7, <2>1, <2>2, <2>3, <2>4
<1>9. \A n \in Prices : n \in S
  <2> HIDE DEF S
  <2> QED
    BY <1>8, BottomUp
<1>10. \A n \in Prices : find[n] = IF z \in sub[n] THEN z ELSE Nil
  BY <1>9
<1> QED
  BY <1>1, <1>3, <1>7, <1>10 DEF Nodes

\* The keys below a node.
LEMMA SubtreeIs ==
    ASSUME NEW t, NEW sub, Typed(t), Spans(t, sub)
    PROVE  \A n \in Nodes : Subtree(t, n) = sub[n]
<1> DEFINE keys == CHOOSE f : f = [m \in Nodes |-> IF m = Nil THEN {} ELSE {m} \cup f[Left(t, m)] \cup f[Right(t, m)]]
<1>1. \A n \in Nodes : Subtree(t, n) = keys[n]
  BY DEF Subtree
<1>2. ASSUME NEW m \in Prices
      PROVE  /\ sub[m] = {m} \cup sub[Left(t, m)] \cup sub[Right(t, m)]
             /\ Left(t, m) = t.child[m]["left"] /\ Right(t, m) = t.child[m]["right"]
             /\ Left(t, m) \in Nodes /\ Right(t, m) \in Nodes
  <2>1. /\ Left(t, m) = t.child[m]["left"] /\ Right(t, m) = t.child[m]["right"]
        /\ Left(t, m) \in Nodes /\ Right(t, m) \in Nodes
    BY DEF Left, Right, Typed, Sides
  <2>2. sub[m] \subseteq Prices /\ sub[Left(t, m)] \subseteq Prices /\ sub[Right(t, m)] \subseteq Prices
    BY <2>1, SpansFacts DEF Spans
  <2>3. \A j \in Prices : j \in sub[m] <=> j = m \/ j \in sub[Left(t, m)] \/ j \in sub[Right(t, m)]
    BY <2>1 DEF Spans, Sides
  <2> QED
    BY <2>1, <2>2, <2>3
<1>3. Nil \in Nodes /\ sub[Nil] = {} /\ sub \in [Nodes -> SUBSET Prices]
  BY DEF Spans, Nodes
<1>4. sub = [m \in Nodes |-> IF m = Nil THEN {} ELSE {m} \cup sub[Left(t, m)] \cup sub[Right(t, m)]]
  <2>1. \A m \in Nodes : sub[m] = IF m = Nil THEN {} ELSE {m} \cup sub[Left(t, m)] \cup sub[Right(t, m)]
    BY <1>2, <1>3 DEF Nodes
  <2>2. sub = [m \in Nodes |-> sub[m]]
    BY <1>3
  <2> QED
    BY <2>1, <2>2
<1>5. keys = [m \in Nodes |-> IF m = Nil THEN {} ELSE {m} \cup keys[Left(t, m)] \cup keys[Right(t, m)]]
  BY <1>4
<1> HIDE DEF keys
<1>6. keys[Nil] = {} /\ \A m \in Prices : keys[m] = {m} \cup keys[Left(t, m)] \cup keys[Right(t, m)]
  BY <1>3, <1>5, PricesAssumption DEF Nodes
<1> DEFINE S == {n \in Prices : keys[n] = sub[n]}
<1>7. ASSUME NEW n \in Prices, \A d \in Sides : t.child[n][d] # Nil => t.child[n][d] \in S
      PROVE  n \in S
  <2>1. keys[Left(t, n)] = sub[Left(t, n)]
    BY <1>2, <1>3, <1>6, <1>7 DEF Sides
  <2>2. keys[Right(t, n)] = sub[Right(t, n)]
    BY <1>2, <1>3, <1>6, <1>7 DEF Sides
  <2> QED
    BY <1>2, <1>6, <2>1, <2>2
<1>8. \A n \in Prices : n \in S
  <2> HIDE DEF S
  <2> QED
    BY <1>7, BottomUp
<1> QED
  BY <1>1, <1>3, <1>6, <1>8 DEF Nodes

\* All paths down from a node of a balanced tree carry the same number.
LEMMA BlackHeightsIs ==
    ASSUME NEW t, NEW sub, Typed(t), Spans(t, sub), NEW bh, Balanced(t, bh, Nil, "left")
    PROVE  \A n \in Nodes : BlackHeights(t, n) = {bh[n]}
<1> DEFINE heights == CHOOSE f : f = [m \in Nodes |-> IF m = Nil THEN {0}
                          ELSE {h + (IF t.color[m] = "black" THEN 1 ELSE 0) : h \in f[Left(t, m)] \cup f[Right(t, m)]}]
           g == [m \in Nodes |-> {bh[m]}]
<1>1. \A n \in Nodes : BlackHeights(t, n) = heights[n]
  BY DEF BlackHeights
<1>2. ASSUME NEW m \in Prices
      PROVE  /\ Left(t, m) = t.child[m]["left"] /\ Right(t, m) = t.child[m]["right"]
             /\ Left(t, m) \in Nodes /\ Right(t, m) \in Nodes
             /\ bh[m] = bh[Left(t, m)] + (IF t.color[m] = "black" THEN 1 ELSE 0)
             /\ bh[m] = bh[Right(t, m)] + (IF t.color[m] = "black" THEN 1 ELSE 0)
  <2>1. /\ Left(t, m) = t.child[m]["left"] /\ Right(t, m) = t.child[m]["right"]
        /\ Left(t, m) \in Nodes /\ Right(t, m) \in Nodes
    BY DEF Left, Right, Typed, Sides
  <2>2. bh[Left(t, m)] \in Nat /\ bh[Right(t, m)] \in Nat /\ m # Nil
    BY <2>1, PricesAssumption DEF Balanced
  <2>3. /\ bh[m] = bh[t.child[m]["left"]] + Weight(t, m) + 0
        /\ bh[m] = bh[t.child[m]["right"]] + Weight(t, m) + 0
    BY <2>2 DEF Balanced, Sides
  <2> QED
    BY <2>1, <2>2, <2>3 DEF Weight
<1>3. Nil \in Nodes /\ bh[Nil] = 0 /\ bh \in [Nodes -> Nat]
  BY DEF Nodes, Balanced
<1>4. g = [m \in Nodes |-> IF m = Nil THEN {0}
              ELSE {h + (IF t.color[m] = "black" THEN 1 ELSE 0) : h \in g[Left(t, m)] \cup g[Right(t, m)]}]
  <2>1. ASSUME NEW m \in Nodes
        PROVE  g[m] = IF m = Nil THEN {0}
                ELSE {h + (IF t.color[m] = "black" THEN 1 ELSE 0) : h \in g[Left(t, m)] \cup g[Right(t, m)]}
    <3>1. CASE m = Nil
      BY <1>3, <3>1
    <3>2. CASE m # Nil
      <4>1. m \in Prices
        BY <3>2 DEF Nodes
      <4>2. g[Left(t, m)] \cup g[Right(t, m)] = {bh[Left(t, m)], bh[Right(t, m)]}
        BY <1>2, <4>1
      <4>3. bh[Left(t, m)] \in Nat /\ bh[Right(t, m)] \in Nat
        BY <1>2, <1>3, <4>1
      <4>4. {h + (IF t.color[m] = "black" THEN 1 ELSE 0) : h \in {bh[Left(t, m)], bh[Right(t, m)]}} = {bh[m]}
        BY <1>2, <4>1, <4>3
      <4> QED
        BY <3>2, <4>2, <4>4
    <3> QED
      BY <3>1, <3>2
  <2> QED
    BY <2>1
<1> HIDE DEF g
<1>5. heights = [m \in Nodes |-> IF m = Nil THEN {0}
          ELSE {h + (IF t.color[m] = "black" THEN 1 ELSE 0) : h \in heights[Left(t, m)] \cup heights[Right(t, m)]}]
  BY <1>4
<1> HIDE DEF heights
<1>6. /\ heights[Nil] = {0}
      /\ \A m \in Prices : heights[m] =
            {h + (IF t.color[m] = "black" THEN 1 ELSE 0) : h \in heights[Left(t, m)] \cup heights[Right(t, m)]}
  BY <1>3, <1>5, PricesAssumption DEF Nodes
<1> DEFINE S == {n \in Prices : heights[n] = {bh[n]}}
<1>7. ASSUME NEW n \in Prices, \A d \in Sides : t.child[n][d] # Nil => t.child[n][d] \in S
      PROVE  n \in S
  <2>1. heights[Left(t, n)] = {bh[Left(t, n)]}
    BY <1>2, <1>3, <1>6, <1>7 DEF Sides
  <2>2. heights[Right(t, n)] = {bh[Right(t, n)]}
    BY <1>2, <1>3, <1>6, <1>7 DEF Sides
  <2>3. heights[Left(t, n)] \cup heights[Right(t, n)] = {bh[Left(t, n)], bh[Right(t, n)]}
    BY <2>1, <2>2
  <2>4. {h + (IF t.color[n] = "black" THEN 1 ELSE 0) : h \in {bh[Left(t, n)], bh[Right(t, n)]}} = {bh[n]}
    BY <1>2
  <2> QED
    BY <1>6, <2>3, <2>4
<1>8. \A n \in Prices : n \in S
  <2> HIDE DEF S
  <2> QED
    BY <1>7, BottomUp
<1> QED
  BY <1>1, <1>3, <1>6, <1>8 DEF Nodes

-----------------------------------------------------------------------------
(* insertNode.                                                              *)

\* z hangs below y, on side d, and has no child
Attached(t, u, z, y, d) ==
    /\ u \in Trees /\ u.root = IF y = Nil THEN z ELSE t.root
    /\ \A m \in Nodes : u.color[m] = IF m = z THEN "red" ELSE t.color[m]
    /\ \A m \in Nodes : u.parent[m] = IF m = z THEN y ELSE t.parent[m]
    /\ \A m \in Prices, e \in Sides : u.child[m][e] = IF m = y /\ e = d THEN z ELSE t.child[m][e]
    /\ u.child[Nil] = t.child[Nil]

LEMMA AttachReads ==
    ASSUME NEW t \in Trees, NEW z \in Prices, \A e \in Sides : t.child[z][e] = Nil,
           NEW y \in Nodes, y = Below(t, z), y # z, NEW d, d = Toward(z, y), NEW u, u = Attach(t, z)
    PROVE  Attached(t, u, z, y, d)
<1> DEFINE f == Fresh(t, z, "red")
           s == SetParent(f, z, y)
<1>1. z \in Nodes /\ d \in Sides /\ z # Nil
  BY PricesAssumption DEF Toward, Sides, Nodes
<1>2. Freshened(t, f, z, "red")
  BY <1>1, FreshReads DEF Colors
<1>3. f \in Trees
  BY <1>2 DEF Freshened
<1>d. u = Hang(s, y, d, z)
  BY DEF Attach
<1> HIDE DEF f
<1>4. ParentSet(f, s, z, y)
  BY <1>1, <1>3, SetParentReads
<1>5. s \in Trees
  BY <1>4 DEF ParentSet
<1> HIDE DEF s
<1>6. Hung(s, u, y, d, z)
  BY <1>1, <1>5, <1>d, HangReads
<1>7. u \in Trees /\ u.root = IF y = Nil THEN z ELSE t.root
  BY <1>2, <1>4, <1>6 DEF Freshened, ParentSet, Hung
<1>8. \A m \in Nodes : u.color[m] = IF m = z THEN "red" ELSE t.color[m]
  BY <1>2, <1>4, <1>6 DEF Freshened, ParentSet, Hung
<1>9. \A m \in Nodes : u.parent[m] = IF m = z THEN y ELSE t.parent[m]
  BY <1>2, <1>4, <1>6 DEF Freshened, ParentSet, Hung
<1>10. ASSUME NEW m \in Prices, NEW e \in Sides
       PROVE  u.child[m][e] = IF m = y /\ e = d THEN z ELSE t.child[m][e]
  <2>1. m \in Nodes /\ m # Nil
    BY PricesAssumption DEF Nodes
  <2>2. u.child[m][e] = IF y # Nil /\ m = y /\ e = d THEN z ELSE s.child[m][e]
    BY <1>6, <2>1 DEF Hung
  <2>3. s.child[m][e] = f.child[m][e]
    BY <1>4 DEF ParentSet
  <2>4. f.child[m][e] = t.child[m][e]
    <3>1. CASE m = z
      BY <1>2, <3>1 DEF Freshened
    <3>2. CASE m # z
      BY <1>2, <2>1, <3>2 DEF Freshened
    <3> QED
      BY <3>1, <3>2
  <2> QED
    BY <2>1, <2>2, <2>3, <2>4
<1>11. u.child[Nil] = t.child[Nil]
  <2>1. Nil \in Nodes /\ (y = Nil \/ Nil # y)
    BY DEF Nodes
  <2>2. u.child[Nil] = s.child[Nil]
    BY <1>6, <2>1 DEF Hung
  <2>3. s.child = f.child
    BY <1>4 DEF ParentSet
  <2>4. f.child[Nil] = t.child[Nil]
    BY <1>1, <1>2, <2>1 DEF Freshened
  <2> QED
    BY <2>2, <2>3, <2>4
<1> QED
  BY <1>7, <1>8, <1>9, <1>10, <1>11 DEF Attached

\* A new price goes where its neighbours leave a place for it; it is red, and
\* all insertFixup has to mend is a red parent.
LEMMA AttachStep ==
    ASSUME NEW t, NEW sub, NEW bh, Rest(t, sub, bh), NEW z \in Prices, z \notin sub[t.root],
           NEW u, u = Attach(t, z)
    PROVE  \E sub2, bh2 : Inserting(u, z, sub2, bh2) /\ sub2[u.root] = sub[t.root] \cup {z}
<1> DEFINE y == Below(t, z)
           d == Toward(z, y)
           sub2 == [n \in Nodes |-> IF y \in sub[n] THEN sub[n] \cup {z} ELSE sub[n]]
           bh2 == [n \in Nodes |-> IF n = z THEN 0 ELSE bh[n]]
<1>1. /\ Shape(t, sub) /\ Typed(t) /\ Spans(t, sub) /\ Links(t, sub) /\ t \in Trees
      /\ t.color[Nil] = "black" /\ Balanced(t, bh, Nil, "left") /\ NoRedRed(t, Nil, Nil)
      /\ t.color[t.root] = "black" /\ t.root \in Nodes /\ Nil \in Nodes
      /\ sub \in [Nodes -> SUBSET Prices] /\ sub[Nil] = {}
  BY DEF Rest, Shape, Typed, Trees, Spans, Nodes
<1>2. t.parent[z] = Nil /\ \A e \in Sides : t.child[z][e] = Nil
  BY <1>1 DEF Links
<1>3. z \in Nodes /\ z # Nil /\ sub[z] = {z}
  <2>1. \A m \in Prices : m \in sub[z] <=> m = z
    BY <1>1, <1>2 DEF Spans
  <2>2. z \in Nodes /\ z # Nil
    BY PricesAssumption DEF Nodes
  <2> QED
    BY <1>1, <2>1, <2>2
<1>d. y = Below(t, z) /\ d = Toward(z, y)
  OBVIOUS
<1>4. /\ y = Nil => t.root = Nil
      /\ y # Nil => /\ y \in sub[t.root] /\ y \in Prices /\ t.root \in Prices /\ t.child[y][d] = Nil
                    /\ \A j \in sub[t.root], e \in Sides : y \in sub[t.child[j][e]] => e = Toward(z, j)
      /\ y \in Nodes /\ y # z
  <2> HIDE DEF y, d
  <2>1. CASE t.root = Nil
    BY <1>1, <1>3, <1>d, <2>1 DEF Below
  <2>2. CASE t.root # Nil
    <3>1. t.root \in Prices
      BY <1>1, <2>2 DEF Nodes
    <3>2. /\ y \in sub[t.root] /\ t.child[y][Toward(z, y)] = Nil
          /\ \A j \in sub[t.root], e \in Sides : y \in sub[t.child[j][e]] => e = Toward(z, j)
      BY <1>1, <1>d, <3>1, BelowIs
    <3>3. y \in Prices /\ y # Nil
      BY <1>1, <3>2, PricesAssumption
    <3> QED
      BY <1>d, <2>2, <3>1, <3>2, <3>3 DEF Nodes
  <2> QED
    BY <2>1, <2>2
<1> HIDE DEF y, d
<1>5. Attached(t, u, z, y, d)
  BY <1>1, <1>2, <1>4, <1>d, AttachReads
<1>6. d \in Sides /\ \A n \in Prices : n # z => Beyond(Toward(z, n), z, n)
  BY <1>d, PricesAssumption DEF Toward, Sides, Beyond
<1>7. \A n \in Nodes : sub2[n] = IF y \in sub[n] THEN sub[n] \cup {z} ELSE sub[n]
  OBVIOUS
<1>8. sub2 \in [Nodes -> SUBSET Prices] /\ sub2[Nil] = {} /\ sub2[z] = {z}
  <2>1. \A n \in Nodes : sub2[n] \in SUBSET Prices
    BY <1>1, <1>7
  <2>2. sub2[Nil] = {} /\ sub2[z] = {z}
    BY <1>1, <1>3, <1>4, <1>7
  <2> QED
    BY <2>1, <2>2
<1> HIDE DEF sub2, bh2
<1>9. sub2[u.root] = sub[t.root] \cup {z}
  <2>1. u.root = IF y = Nil THEN z ELSE t.root
    BY <1>5 DEF Attached
  <2>2. CASE y = Nil
    BY <1>1, <1>4, <1>8, <2>1, <2>2
  <2>3. CASE y # Nil
    BY <1>1, <1>4, <1>7, <2>1, <2>3
  <2> QED
    BY <2>2, <2>3
<1>10. Typed(u)
  <2>1. u \in Trees
    BY <1>5 DEF Attached
  <2>2. \A n \in Prices : u.parent[n] \in Nodes
    BY <1>1, <1>4, <1>5 DEF Attached, Typed, Nodes
  <2>3. \A n \in Prices, e \in Sides : u.child[n][e] \in Nodes
    BY <1>1, <1>3, <1>5 DEF Attached, Typed
  <2> QED
    BY <2>1, <2>2, <2>3 DEF Typed
<1>11. \A n \in Prices, e \in Sides : u.child[n][e] = IF n = y /\ e = d THEN z ELSE t.child[n][e]
  BY <1>5 DEF Attached
<1>12. \A n \in Prices, e \in Sides : t.child[n][e] # z
  <2>1. ASSUME NEW n \in Prices, NEW e \in Sides, t.child[n][e] = z PROVE FALSE
    <3>1. t.parent[z] = n
      BY <1>1, <1>3, <2>1 DEF Links
    <3> QED
      BY <1>2, <3>1, PricesAssumption
  <2> QED
    BY <2>1
<1>13. Spans(u, sub2)
  <2>1. ASSUME NEW n \in Prices PROVE IsFiniteSet(sub2[n])
    <3>1. IsFiniteSet(sub[n]) /\ n \in Nodes
      BY <1>1 DEF Spans, Nodes
    <3> QED
      BY <1>7, <3>1, FS_AddElement
  <2>2. ASSUME NEW n \in Prices, NEW m \in Prices
        PROVE  m \in sub2[n] <=> m = n \/ \E e \in Sides : m \in sub2[u.child[n][e]]
    <3>1. \A k \in Prices : k \in sub[n] <=> k = n \/ \E e \in Sides : k \in sub[t.child[n][e]]
      BY <1>1 DEF Spans
    <3>2. \A e \in Sides : t.child[n][e] \in Nodes /\ n \notin sub[t.child[n][e]]
      BY <1>1, SpansFacts
    <3>3. CASE n = y
      <4>1. y \in sub[n] /\ n \in Nodes
        BY <1>4, <3>1, <3>3
      <4>2. sub2[n] = sub[n] \cup {z}
        BY <1>7, <4>1
      <4>3. \A e \in Sides : e # d => sub2[u.child[n][e]] = sub[t.child[n][e]]
        BY <1>7, <1>11, <3>2, <3>3
      <4>4. sub2[u.child[n][d]] = {z} /\ sub[t.child[n][d]] = {}
        BY <1>1, <1>4, <1>6, <1>8, <1>11, <3>3, PricesAssumption
      <4> QED
        BY <1>6, <3>1, <4>2, <4>3, <4>4
    <3>4. CASE n # y
      <4>1. \A e \in Sides : u.child[n][e] = t.child[n][e]
        BY <1>11, <3>4
      <4>2. n \in Nodes
        BY DEF Nodes
      <4>3. y \in sub[n] <=> \E e \in Sides : y \in sub[t.child[n][e]]
        <5>1. CASE y = Nil
          BY <1>1, <3>2, <4>2, <5>1, PricesAssumption
        <5>2. CASE y # Nil
          BY <1>4, <3>1, <3>4, <5>2
        <5> QED
          BY <5>1, <5>2
      <4>4. m \in sub2[n] <=> m \in sub[n] \/ (m = z /\ y \in sub[n])
        BY <1>7, <4>2
      <4>5. \A e \in Sides : m \in sub2[u.child[n][e]] <=>
                m \in sub[t.child[n][e]] \/ (m = z /\ y \in sub[t.child[n][e]])
        <5> TAKE e \in Sides
        <5>1. t.child[n][e] \in Nodes /\ u.child[n][e] = t.child[n][e]
          BY <3>2, <4>1
        <5>2. sub2[t.child[n][e]] = IF y \in sub[t.child[n][e]] THEN sub[t.child[n][e]] \cup {z}
                                   ELSE sub[t.child[n][e]]
          BY <1>7, <5>1
        <5> QED
          BY <5>1, <5>2
      <4> QED
        BY <3>1, <4>3, <4>4, <4>5
    <3> QED
      BY <3>3, <3>4
  <2>3. ASSUME NEW n \in Prices, NEW e \in Sides, NEW m \in sub2[u.child[n][e]]
        PROVE  Beyond(e, m, n)
    <3>1. t.child[n][e] \in Nodes /\ sub[t.child[n][e]] \subseteq sub[n]
      BY <1>1, SpansFacts
    <3>2. \A k \in sub[t.child[n][e]] : Beyond(e, k, n)
      BY <1>1 DEF Spans
    <3>3. CASE n = y /\ e = d
      BY <1>4, <1>6, <1>8, <1>11, <1>d, <2>3, <3>3
    <3>4. CASE ~(n = y /\ e = d)
      <4>1. m \in sub[t.child[n][e]] \/ (m = z /\ y \in sub[t.child[n][e]])
        <5>1. u.child[n][e] = t.child[n][e]
          BY <1>11, <3>4
        <5>2. m \in sub2[t.child[n][e]]
          BY <2>3, <5>1
        <5> QED
          BY <1>7, <3>1, <5>2
      <4>2. CASE m \in sub[t.child[n][e]]
        BY <3>2, <4>2
      <4>3. CASE m = z /\ y \in sub[t.child[n][e]]
        <5>1. n \in sub[t.root]
          <6>1. ASSUME n \notin sub[t.root] PROVE FALSE
            <7>1. t.child[n][e] = Nil
              BY <1>1, <6>1 DEF Links
            <7> QED
              BY <1>1, <4>3, <7>1
          <6> QED
            BY <6>1
        <5>2. y # Nil
          BY <1>1, <3>1, <4>3, PricesAssumption
        <5>3. e = Toward(z, n) /\ n # z
          BY <1>4, <4>3, <5>1, <5>2
        <5> QED
          BY <1>6, <4>3, <5>3
      <4> QED
        BY <4>1, <4>2, <4>3
    <3> QED
      BY <3>3, <3>4
  <2> QED
    BY <1>8, <2>1, <2>2, <2>3 DEF Spans
<1>14. Links(u, sub2)
  <2>1. u.root # Nil => u.parent[u.root] = Nil
    <3>1. u.root = IF y = Nil THEN z ELSE t.root
      BY <1>5 DEF Attached
    <3>2. CASE y = Nil
      BY <1>3, <1>5, <3>1, <3>2 DEF Attached
    <3>3. CASE y # Nil
      <4>1. t.root \in sub[t.root] /\ t.root # Nil
        BY <1>1, <1>4, <3>3, SpansFacts, PricesAssumption
      <4>2. u.parent[t.root] = t.parent[t.root]
        BY <1>1, <1>5, <4>1 DEF Attached
      <4> QED
        BY <1>1, <3>1, <3>3, <4>1, <4>2 DEF Links
    <3> QED
      BY <3>2, <3>3
  <2>2. ASSUME NEW n \in Prices, NEW e \in Sides, u.child[n][e] # Nil
        PROVE  u.parent[u.child[n][e]] = n
    <3>1. CASE n = y /\ e = d
      BY <1>3, <1>5, <1>11, <3>1 DEF Attached
    <3>2. CASE ~(n = y /\ e = d)
      <4> DEFINE c == t.child[n][e]
      <4>1. u.child[n][e] = c /\ c # z /\ c # Nil
        BY <1>11, <1>12, <2>2, <3>2
      <4>2. t.parent[c] = n /\ c \in Nodes
        BY <1>1, <4>1 DEF Links, Typed
      <4> HIDE DEF c
      <4> QED
        BY <1>5, <4>1, <4>2 DEF Attached
    <3> QED
      BY <3>1, <3>2
  <2>3. ASSUME NEW n \in Prices, n \notin sub2[u.root]
        PROVE  u.parent[n] = Nil /\ \A e \in Sides : u.child[n][e] = Nil
    <3>1. n \notin sub[t.root] /\ n # z
      BY <1>9, <2>3
    <3>2. n # y
      BY <1>4, <3>1, PricesAssumption
    <3>3. t.parent[n] = Nil /\ \A e \in Sides : t.child[n][e] = Nil
      BY <1>1, <3>1 DEF Links
    <3> QED
      BY <1>5, <1>11, <3>1, <3>2, <3>3 DEF Attached, Nodes
  <2>4. u.child[Nil] = Behind
    BY <1>1, <1>5 DEF Attached, Links
  <2> QED
    BY <2>1, <2>2, <2>3, <2>4 DEF Links
<1>15. \A m \in Nodes : u.color[m] = IF m = z THEN "red" ELSE t.color[m]
  BY <1>5 DEF Attached
<1>16. \A n \in Nodes : bh2[n] = IF n = z THEN 0 ELSE bh[n]
  BY DEF bh2
<1>17. Balanced(u, bh2, Nil, "left")
  <2>1. bh \in [Nodes -> Nat] /\ bh[Nil] = 0
    BY <1>1 DEF Balanced
  <2>2. bh2 \in [Nodes -> Nat] /\ bh2[Nil] = 0
    <3>1. \A n \in Nodes : bh2[n] \in Nat
      BY <1>16, <2>1
    <3> QED
      BY <1>1, <1>3, <1>16, <2>1, <3>1 DEF bh2
  <2>3. ASSUME NEW n \in Prices, NEW e \in Sides
        PROVE  bh2[n] = bh2[u.child[n][e]] + Weight(u, n) + 0
    <3>1. bh[n] = bh[t.child[n][e]] + Weight(t, n) + 0
      BY <1>1, PricesAssumption DEF Balanced
    <3>2. n \in Nodes /\ t.child[n][e] \in Nodes
      BY <1>1 DEF Typed, Nodes
    <3>3. CASE n = z
      <4>1. u.child[n][e] = Nil /\ Weight(u, n) = 0
        BY <1>2, <1>4, <1>11, <1>15, <3>2, <3>3 DEF Weight
      <4> QED
        BY <1>16, <2>2, <3>2, <3>3, <4>1
    <3>4. CASE n # z
      <4>1. bh2[n] = bh[n] /\ Weight(u, n) = Weight(t, n)
        BY <1>15, <1>16, <3>2, <3>4 DEF Weight
      <4>2. bh2[u.child[n][e]] = bh[t.child[n][e]]
        <5>1. CASE n = y /\ e = d
          <6>1. t.child[n][e] = Nil /\ u.child[n][e] = z
            BY <1>4, <1>11, <5>1, PricesAssumption
          <6> QED
            BY <1>3, <1>16, <2>1, <6>1
        <5>2. CASE ~(n = y /\ e = d)
          BY <1>11, <1>12, <1>16, <3>2, <5>2
        <5> QED
          BY <5>1, <5>2
      <4> QED
        BY <3>1, <4>1, <4>2
    <3> QED
      BY <3>3, <3>4
  <2>4. \A n \in Prices, e \in Sides : ~(n = Nil /\ e = "left")
    BY PricesAssumption
  <2> QED
    BY <2>2, <2>3, <2>4 DEF Balanced
<1>18. NoRedRed(u, Nil, z)
  <2> SUFFICES ASSUME NEW n \in Prices, NEW e \in Sides, u.color[n] = "red", u.child[n][e] # z
               PROVE  u.color[u.child[n][e]] = "black"
    BY DEF NoRedRed
  <2>1. n \in Nodes /\ t.child[n][e] \in Nodes /\ n # Nil
    BY <1>1, PricesAssumption DEF Typed, Nodes
  <2>2. u.child[n][e] = t.child[n][e]
    BY <1>11
  <2>3. CASE n = z
    BY <1>1, <1>2, <1>3, <1>15, <2>2, <2>3
  <2>4. CASE n # z
    <3>1. t.color[n] = "red"
      BY <1>15, <2>1, <2>4
    <3>2. t.color[t.child[n][e]] = "black" \/ t.child[n][e] = Nil
      BY <1>1, <2>1, <3>1 DEF NoRedRed
    <3>3. t.color[t.child[n][e]] = "black"
      BY <1>1, <3>2
    <3> QED
      BY <1>12, <1>15, <2>1, <2>2, <3>3
  <2> QED
    BY <2>3, <2>4
<1>19. z # u.root => u.color[u.root] = "black"
  BY <1>1, <1>5, <1>15 DEF Attached
<1>20. u.color[Nil] = "black" /\ u.color[z] = "red"
  BY <1>1, <1>3, <1>15
<1>21. Inserting(u, z, sub2, bh2)
  BY <1>9, <1>10, <1>13, <1>14, <1>17, <1>18, <1>19, <1>20 DEF Inserting, Shape
<1> QED
  BY <1>9, <1>21

-----------------------------------------------------------------------------
(* deleteNode of a price with at most one child.                            *)

\* x has come up in place of y, and y is garbage
Spliced(t, u, y, x, p, s) ==
    /\ u \in Trees /\ u.root = IF p = Nil THEN x ELSE t.root
    /\ \A m \in Nodes : u.color[m] = IF m = y THEN "black" ELSE t.color[m]
    /\ \A m \in Nodes : u.parent[m] = IF m = y THEN Nil ELSE IF m = x THEN p ELSE t.parent[m]
    /\ \A m \in Prices, e \in Sides : u.child[m][e] =
          IF m = y THEN Nil ELSE IF m = p /\ e = s THEN x ELSE t.child[m][e]
    /\ u.child[Nil] = t.child[Nil]

LEMMA TransplantReads ==
    ASSUME NEW t \in Trees, NEW y \in Nodes, NEW x \in Nodes, NEW p \in Nodes, p = t.parent[y],
           NEW s, s = Side(t, y), NEW u, u = Transplant(t, y, x)
    PROVE  /\ u \in Trees /\ u.root = IF p = Nil THEN x ELSE t.root
           /\ u.color = t.color
           /\ \A m \in Nodes : u.parent[m] = IF m = x THEN p ELSE t.parent[m]
           /\ \A m \in Prices, e \in Sides : u.child[m][e] = IF m = p /\ e = s THEN x ELSE t.child[m][e]
           /\ u.child[Nil] = t.child[Nil]
<1> DEFINE h == Hang(t, p, s, x)
<1>1. u = SetParent(h, x, p) /\ s \in Sides
  BY SideIsSide DEF Transplant
<1>2. Hung(t, h, p, s, x)
  BY <1>1, HangReads
<1>3. h \in Trees
  BY <1>2 DEF Hung
<1> HIDE DEF h
<1>4. ParentSet(h, u, x, p)
  BY <1>1, <1>3, SetParentReads
<1>5. u \in Trees /\ u.root = IF p = Nil THEN x ELSE t.root
  BY <1>2, <1>4 DEF Hung, ParentSet
<1>6. u.color = t.color /\ \A m \in Nodes : u.parent[m] = IF m = x THEN p ELSE t.parent[m]
  BY <1>2, <1>4 DEF Hung, ParentSet
<1>7. ASSUME NEW m \in Prices, NEW e \in Sides
      PROVE  u.child[m][e] = IF m = p /\ e = s THEN x ELSE t.child[m][e]
  <2>1. m \in Nodes /\ m # Nil
    BY PricesAssumption DEF Nodes
  <2> QED
    BY <1>2, <1>4, <2>1 DEF Hung, ParentSet
<1>8. u.child[Nil] = t.child[Nil]
  <2>1. Nil \in Nodes /\ (p = Nil \/ Nil # p)
    BY DEF Nodes
  <2> QED
    BY <1>2, <1>4, <2>1 DEF Hung, ParentSet
<1> QED
  BY <1>5, <1>6, <1>7, <1>8

LEMMA SpliceReads ==
    ASSUME NEW t \in Trees, NEW y \in Prices, NEW x \in Nodes, x # y, NEW p \in Nodes, p = t.parent[y],
           NEW s, s = Side(t, y), NEW u, u = Fresh(Transplant(t, y, x), y, "black")
    PROVE  Spliced(t, u, y, x, p, s)
<1> DEFINE h == Transplant(t, y, x)
<1>1. y \in Nodes /\ y # Nil
  BY PricesAssumption DEF Nodes
<1>2. /\ h \in Trees /\ h.root = IF p = Nil THEN x ELSE t.root
      /\ h.color = t.color
      /\ \A m \in Nodes : h.parent[m] = IF m = x THEN p ELSE t.parent[m]
      /\ \A m \in Prices, e \in Sides : h.child[m][e] = IF m = p /\ e = s THEN x ELSE t.child[m][e]
      /\ h.child[Nil] = t.child[Nil]
  BY <1>1, TransplantReads
<1> HIDE DEF h
<1>3. Freshened(h, u, y, "black")
  BY <1>1, <1>2, FreshReads DEF Colors, h
<1>4. u \in Trees /\ u.root = IF p = Nil THEN x ELSE t.root
  BY <1>2, <1>3 DEF Freshened
<1>5. \A m \in Nodes : u.color[m] = IF m = y THEN "black" ELSE t.color[m]
  BY <1>2, <1>3 DEF Freshened
<1>6. \A m \in Nodes : u.parent[m] = IF m = y THEN Nil ELSE IF m = x THEN p ELSE t.parent[m]
  BY <1>2, <1>3 DEF Freshened
<1>7. ASSUME NEW m \in Prices, NEW e \in Sides
      PROVE  u.child[m][e] = IF m = y THEN Nil ELSE IF m = p /\ e = s THEN x ELSE t.child[m][e]
  <2>1. m \in Nodes
    BY DEF Nodes
  <2>2. CASE m = y
    BY <1>3, <2>2 DEF Freshened
  <2>3. CASE m # y
    BY <1>2, <1>3, <2>1, <2>3 DEF Freshened
  <2> QED
    BY <2>2, <2>3
<1>8. u.child[Nil] = t.child[Nil]
  BY <1>1, <1>2, <1>3 DEF Freshened, Nodes
<1> QED
  BY <1>4, <1>5, <1>6, <1>7, <1>8 DEF Spliced

\* y has no child but x, on side d
Single(t, sub, y, x, d, p, s) ==
    /\ y \in Prices /\ y \in sub[t.root] /\ x \in Nodes /\ d \in Sides /\ p \in Nodes /\ s \in Sides
    /\ x = t.child[y][d] /\ t.child[y][Other(d)] = Nil /\ p = t.parent[y] /\ s = Side(t, y)
    /\ x # y /\ p # y /\ (p = x => p = Nil)
    /\ p # Nil => p \in Prices /\ p \in sub[t.root] /\ t.child[p][s] = y /\ y # t.root
    /\ p = Nil => y = t.root
    /\ x # Nil => x \in Prices /\ t.parent[x] = y /\ x # t.root /\ x \in sub[y]

LEMMA SingleFacts ==
    ASSUME NEW t, NEW sub, Shape(t, sub), NEW y \in sub[t.root], NEW d \in Sides,
           NEW x, x = t.child[y][d], t.child[y][Other(d)] = Nil,
           NEW p, p = t.parent[y], NEW s, s = Side(t, y)
    PROVE  Single(t, sub, y, x, d, p, s)
<1>1. /\ Typed(t) /\ Spans(t, sub) /\ Links(t, sub) /\ t \in Trees /\ t.root \in Nodes
      /\ sub \in [Nodes -> SUBSET Prices]
  BY DEF Shape, Typed, Trees, Spans
<1>2. y \in Prices /\ s \in Sides
  BY <1>1, SideIsSide
<1>3. x \in Nodes /\ p \in Nodes
  BY <1>1, <1>2 DEF Typed
<1>4. x # Nil => x # y /\ x \in Prices /\ t.parent[x] = y /\ x \in sub[y]
  <2>1. x # Nil => x # y /\ x \in Prices /\ x \in sub[y]
    BY <1>1, <1>2, ChildFacts
  <2>2. x # Nil => t.parent[x] = y
    BY <1>1, <1>2 DEF Links
  <2> QED
    BY <2>1, <2>2
<1>5. /\ p = Nil => y = t.root
      /\ p # Nil => p \in Prices /\ p \in sub[t.root] /\ t.child[p][s] = y /\ y # t.root /\ p # y
  BY <1>2, ParentFacts
<1>6. x # Nil => x # t.root
  BY <1>1, <1>2, <1>4, PricesAssumption DEF Links
<1>7. p = x => p = Nil
  <2>1. ASSUME p = x, p # Nil PROVE FALSE
    <3>1. t.child[p][s] = y /\ p \in Prices
      BY <1>5, <2>1
    <3>2. t.child[y][d] # p
      BY <1>1, <1>2, <3>1, NoLoop
    <3> QED
      BY <2>1, <3>2
  <2> QED
    BY <2>1
<1>8. x # y /\ p # y
  BY <1>2, <1>4, <1>5, PricesAssumption
<1> QED
  BY <1>2, <1>3, <1>4, <1>5, <1>6, <1>7, <1>8 DEF Single

Without(sub, y) == [n \in Nodes |-> IF n = y THEN {y} ELSE sub[n] \ {y}]

LEMMA SpliceShape ==
    ASSUME NEW t, NEW sub, Shape(t, sub), NEW y, NEW x, NEW d, NEW p, NEW s, Single(t, sub, y, x, d, p, s),
           NEW u, Spliced(t, u, y, x, p, s)
    PROVE  Shape(u, Without(sub, y)) /\ Without(sub, y)[u.root] = sub[t.root] \ {y}
<1> DEFINE sub2 == Without(sub, y)
<1>1. /\ Typed(t) /\ Spans(t, sub) /\ Links(t, sub) /\ t \in Trees /\ t.root \in Nodes /\ Nil \in Nodes
      /\ sub \in [Nodes -> SUBSET Prices] /\ sub[Nil] = {}
  BY DEF Shape, Typed, Trees, Spans, Nodes
<1>2. /\ y \in Prices /\ y \in sub[t.root] /\ x \in Nodes /\ d \in Sides /\ p \in Nodes /\ s \in Sides
      /\ x = t.child[y][d] /\ t.child[y][Other(d)] = Nil
      /\ x # y /\ p # y /\ (p = x => p = Nil)
      /\ p # Nil => p \in Prices /\ p \in sub[t.root] /\ t.child[p][s] = y /\ y # t.root
      /\ p = Nil => y = t.root
      /\ x # Nil => x \in Prices /\ t.parent[x] = y /\ x # t.root /\ x \in sub[y]
      /\ y # Nil /\ y \in Nodes
  BY PricesAssumption DEF Single, Nodes
<1>3. \A n \in Prices, e \in Sides : t.child[n][e] = y => n = p /\ e = s
  BY <1>1, <1>2, OnlyPlace DEF Single
<1>4. /\ u \in Trees /\ u.root = IF p = Nil THEN x ELSE t.root
      /\ \A m \in Nodes : u.parent[m] = IF m = y THEN Nil ELSE IF m = x THEN p ELSE t.parent[m]
      /\ \A m \in Prices, e \in Sides : u.child[m][e] =
            IF m = y THEN Nil ELSE IF m = p /\ e = s THEN x ELSE t.child[m][e]
      /\ u.child[Nil] = t.child[Nil]
  BY DEF Spliced
<1>5. sub[y] = {y} \cup sub[x] /\ y \notin sub[x]
  <2>1. \A m \in Prices : m \in sub[y] <=> m = y \/ \E e \in Sides : m \in sub[t.child[y][e]]
    BY <1>1, <1>2 DEF Spans
  <2>2. sub[t.child[y][Other(d)]] = {}
    BY <1>1, <1>2
  <2>3. \A m \in Prices : m \in sub[y] <=> m = y \/ m \in sub[x]
    BY <1>2, <2>1, <2>2, SideFacts
  <2>4. y \notin sub[x] /\ sub[y] \subseteq Prices /\ sub[x] \subseteq Prices
    BY <1>1, <1>2, SpansFacts
  <2> QED
    BY <1>2, <2>3, <2>4
<1>6. \A n \in Nodes : sub2[n] = IF n = y THEN {y} ELSE sub[n] \ {y}
  BY DEF Without
<1>7. sub2 \in [Nodes -> SUBSET Prices] /\ sub2[Nil] = {}
  <2>1. \A n \in Nodes : sub2[n] \in SUBSET Prices
    BY Zenon, <1>1, <1>2, <1>6
  <2>2. sub2[Nil] = {}
    BY <1>1, <1>2, <1>6
  <2> QED
    BY <2>1, <2>2 DEF Without
<1> HIDE DEF sub2
<1>8. sub2[u.root] = sub[t.root] \ {y}
  <2>1. CASE p = Nil
    <3>1. u.root = x /\ t.root = y
      BY <1>2, <1>4, <2>1
    <3>2. sub2[x] = sub[x] \ {y}
      BY <1>2, <1>6
    <3> QED
      BY <1>5, <3>1, <3>2
  <2>2. CASE p # Nil
    BY <1>1, <1>2, <1>4, <1>6, <2>2
  <2> QED
    BY <2>1, <2>2
<1>9. Typed(u)
  <2>1. \A n \in Prices : u.parent[n] \in Nodes
    BY <1>1, <1>2, <1>4 DEF Typed, Nodes
  <2>2. \A n \in Prices, e \in Sides : u.child[n][e] \in Nodes
    BY <1>1, <1>2, <1>4 DEF Typed
  <2> QED
    BY <1>4, <2>1, <2>2 DEF Typed
<1>10. ASSUME NEW n \in Prices, n # y, NEW e \in Sides
       PROVE  sub2[u.child[n][e]] = sub[t.child[n][e]] \ {y}
  <2>1. CASE n = p /\ e = s
    <3>1. u.child[n][e] = x /\ t.child[n][e] = y
      BY <1>2, <1>4, <1>10, <2>1, PricesAssumption
    <3> QED
      BY <1>2, <1>5, <1>6, <3>1
  <2>2. CASE ~(n = p /\ e = s)
    <3>1. u.child[n][e] = t.child[n][e] /\ t.child[n][e] # y /\ t.child[n][e] \in Nodes
      BY <1>1, <1>3, <1>4, <1>10, <2>2 DEF Typed
    <3> QED
      BY <1>6, <3>1
  <2> QED
    BY <2>1, <2>2
<1>11. \A e \in Sides : sub2[u.child[y][e]] = {}
  BY <1>2, <1>4, <1>7
<1>12. Spans(u, sub2)
  <2>1. ASSUME NEW n \in Prices PROVE IsFiniteSet(sub2[n])
    <3>1. IsFiniteSet(sub[n]) /\ n \in Nodes
      BY <1>1 DEF Spans, Nodes
    <3>2. IsFiniteSet({y}) /\ IsFiniteSet(sub[n] \ {y})
      BY <3>1, FS_Singleton, FS_Subset
    <3> QED
      BY <1>6, <3>1, <3>2
  <2>2. ASSUME NEW n \in Prices, NEW m \in Prices
        PROVE  m \in sub2[n] <=> m = n \/ \E e \in Sides : m \in sub2[u.child[n][e]]
    <3>1. CASE n = y
      <4>1. sub2[n] = {y}
        BY <1>2, <1>6, <3>1
      <4>2. \A e \in Sides : m \notin sub2[u.child[n][e]]
        BY <1>11, <3>1
      <4> QED
        BY <3>1, <4>1, <4>2
    <3>2. CASE n # y
      <4>1. m \in sub2[n] <=> m \in sub[n] /\ m # y
        BY <1>6, <3>2 DEF Nodes
      <4>2. m \in sub[n] <=> m = n \/ \E e \in Sides : m \in sub[t.child[n][e]]
        BY <1>1 DEF Spans
      <4>3. \A e \in Sides : m \in sub2[u.child[n][e]] <=> m \in sub[t.child[n][e]] /\ m # y
        BY <1>10, <3>2
      <4> QED
        BY <3>2, <4>1, <4>2, <4>3
    <3> QED
      BY <3>1, <3>2
  <2>3. ASSUME NEW n \in Prices, NEW e \in Sides, NEW m \in sub2[u.child[n][e]]
        PROVE  Beyond(e, m, n)
    <3>1. n # y
      BY <1>11, <2>3
    <3>2. m \in sub[t.child[n][e]]
      BY <1>10, <2>3, <3>1
    <3> QED
      BY <1>1, <3>2 DEF Spans
  <2> QED
    BY <1>7, <2>1, <2>2, <2>3 DEF Spans
<1>13. Links(u, sub2)
  <2>1. u.root # Nil => u.parent[u.root] = Nil
    <3>1. CASE p = Nil
      BY <1>2, <1>4, <3>1
    <3>2. CASE p # Nil
      <4>1. t.root # Nil /\ t.root # x /\ t.root # y
        BY <1>1, <1>2, <3>2
      <4> QED
        BY <1>1, <1>4, <3>2, <4>1 DEF Links
    <3> QED
      BY <3>1, <3>2
  <2>2. ASSUME NEW n \in Prices, NEW e \in Sides, u.child[n][e] # Nil
        PROVE  u.parent[u.child[n][e]] = n
    <3>1. n # y
      BY <1>4, <2>2
    <3>2. CASE n = p /\ e = s
      BY <1>2, <1>4, <3>1, <3>2
    <3>3. CASE ~(n = p /\ e = s)
      <4> DEFINE c == t.child[n][e]
      <4>1. u.child[n][e] = c /\ c # y /\ c # Nil /\ c \in Nodes
        BY <1>1, <1>3, <1>4, <2>2, <3>1, <3>3 DEF Typed
      <4>2. t.parent[c] = n
        BY <1>1, <4>1 DEF Links
      <4> HIDE DEF c
      <4>3. c # x
        BY <1>2, <3>1, <4>1, <4>2
      <4> QED
        BY <1>4, <4>1, <4>2, <4>3
    <3> QED
      BY <3>2, <3>3
  <2>3. ASSUME NEW n \in Prices, n \notin sub2[u.root]
        PROVE  u.parent[n] = Nil /\ \A e \in Sides : u.child[n][e] = Nil
    <3>1. CASE n = y
      BY <1>2, <1>4, <3>1
    <3>2. CASE n # y
      <4>1. n \notin sub[t.root]
        BY <1>8, <2>3, <3>2
      <4>2. t.parent[n] = Nil /\ \A e \in Sides : t.child[n][e] = Nil
        BY <1>1, <4>1 DEF Links
      <4>3. n # p /\ n # x
        <5>1. n # p
          BY <1>2, <4>1, PricesAssumption
        <5>2. sub[y] \subseteq sub[t.root]
          <6>1. t.root \in Prices
            BY <1>1, <1>2 DEF Nodes
          <6> QED
            BY <1>1, <1>2, <6>1, Transitive
        <5> QED
          BY <1>2, <4>1, <5>1, <5>2, PricesAssumption
      <4> QED
        BY <1>4, <3>2, <4>2, <4>3 DEF Nodes
    <3> QED
      BY <3>1, <3>2
  <2>4. u.child[Nil] = Behind
    BY <1>1, <1>4 DEF Links
  <2> QED
    BY <2>1, <2>2, <2>3, <2>4 DEF Links
<1> QED
  BY <1>8, <1>9, <1>12, <1>13 DEF Shape, sub2

\* A red node leaves the tree at rest; a black one leaves a gap where its child
\* has come up.
LEMMA SpliceStep ==
    ASSUME NEW t, NEW sub, NEW bh, Rest(t, sub, bh),
           NEW y, NEW x, NEW d, NEW p, NEW s, Single(t, sub, y, x, d, p, s),
           NEW u, Spliced(t, u, y, x, p, s)
    PROVE  /\ t.color[y] # "black" => \E new : Rest(u, Without(sub, y), new)
           /\ t.color[y] = "black" => \E new : Deleting(u, x, Without(sub, y), new)
           /\ Without(sub, y)[u.root] = sub[t.root] \ {y}
<1> DEFINE new == [n \in Nodes |-> IF n = y THEN 1 ELSE bh[n]]
           gone == IF t.color[y] = "black" THEN 1 ELSE 0
<1>1. /\ Shape(t, sub) /\ Typed(t) /\ Spans(t, sub) /\ Links(t, sub) /\ t \in Trees
      /\ t.color[Nil] = "black" /\ Balanced(t, bh, Nil, "left") /\ NoRedRed(t, Nil, Nil)
      /\ t.color[t.root] = "black" /\ t.root \in Nodes /\ Nil \in Nodes
  BY DEF Rest, Shape, Typed, Trees, Nodes
<1>2. /\ y \in Prices /\ y \in sub[t.root] /\ x \in Nodes /\ d \in Sides /\ p \in Nodes /\ s \in Sides
      /\ t.child[y][d] = x /\ t.child[y][Other(d)] = Nil /\ t.parent[y] = p /\ Side(t, y) = s
      /\ x # y /\ p # y /\ (p = x => p = Nil)
      /\ p # Nil => p \in Prices /\ p \in sub[t.root] /\ t.child[p][s] = y /\ y # t.root
      /\ p = Nil => y = t.root
      /\ x # Nil => x \in Prices /\ x # t.root /\ x \in sub[y]
      /\ y # Nil /\ y \in Nodes
  BY PricesAssumption DEF Single, Nodes
<1>3. ASSUME NEW n \in Prices, NEW e \in Sides, t.child[n][e] = y PROVE n = p /\ e = s
  <2>1. n = t.parent[y] /\ e = Side(t, y)
    BY <1>1, <1>2, <1>3, OnlyPlace
  <2> QED
    BY <1>2, <2>1
<1>4. /\ u \in Trees /\ u.root = IF p = Nil THEN x ELSE t.root
      /\ \A m \in Nodes : u.color[m] = IF m = y THEN "black" ELSE t.color[m]
      /\ \A m \in Nodes : u.parent[m] = IF m = y THEN Nil ELSE IF m = x THEN p ELSE t.parent[m]
      /\ \A m \in Prices, e \in Sides : u.child[m][e] =
            IF m = y THEN Nil ELSE IF m = p /\ e = s THEN x ELSE t.child[m][e]
  BY DEF Spliced
<1>5. Shape(u, Without(sub, y)) /\ Without(sub, y)[u.root] = sub[t.root] \ {y}
  BY <1>1, SpliceShape
<1>6. /\ bh \in [Nodes -> Nat] /\ bh[Nil] = 0
      /\ \A n \in Prices, e \in Sides : bh[n] = bh[t.child[n][e]] + Weight(t, n) + 0
  BY <1>1, PricesAssumption DEF Balanced
<1>7. new[y] = 1 /\ \A n \in Nodes : n # y => new[n] = bh[n]
  BY <1>2
<1>8. new \in [Nodes -> Nat] /\ new[Nil] = 0
  <2>1. \A n \in Nodes : new[n] \in Nat
    BY <1>6, <1>7
  <2> QED
    BY <1>1, <1>2, <1>6, <1>7, <2>1
<1> HIDE DEF new
<1>9. gone = Weight(t, y) /\ gone \in {0, 1}
  BY DEF Weight
<1> HIDE DEF gone
<1>10. ASSUME NEW n \in Prices, NEW e \in Sides
       PROVE  new[n] = new[u.child[n][e]] + Weight(u, n) + (IF n = p /\ e = s THEN gone ELSE 0)
  <2>1. n \in Nodes /\ t.child[n][e] \in Nodes
    BY <1>1 DEF Typed, Nodes
  <2>2. bh[n] = bh[t.child[n][e]] + Weight(t, n) + 0
    BY <1>6
  <2>3. bh[n] \in Nat /\ bh[t.child[n][e]] \in Nat /\ Weight(t, n) \in Nat /\ bh[x] \in Nat
    BY <1>2, <1>6, <2>1 DEF Weight
  <2>4. CASE n = y
    <3>1. u.child[n][e] = Nil /\ Weight(u, n) = 1 /\ ~(n = p /\ e = s)
      BY <1>2, <1>4, <2>4 DEF Weight
    <3> QED
      BY <1>7, <1>8, <2>4, <3>1
  <2>5. CASE n # y
    <3>1. new[n] = bh[n] /\ Weight(u, n) = Weight(t, n)
      BY <1>4, <1>7, <2>1, <2>5 DEF Weight
    <3>2. CASE n = p /\ e = s
      <4>1. u.child[n][e] = x /\ t.child[n][e] = y /\ new[x] = bh[x]
        BY <1>2, <1>4, <1>7, <2>5, <3>2, PricesAssumption
      <4>2. bh[y] = bh[t.child[y][d]] + Weight(t, y) + 0
        BY <1>2, <1>6
      <4>3. bh[y] = bh[x] + gone
        BY <1>2, <1>9, <2>3, <4>2
      <4> QED
        BY <1>9, <2>2, <2>3, <3>1, <3>2, <4>1, <4>3
    <3>3. CASE ~(n = p /\ e = s)
      <4>1. u.child[n][e] = t.child[n][e] /\ t.child[n][e] # y
        BY <1>3, <1>4, <2>5, <3>3
      <4> QED
        BY <1>7, <2>1, <2>2, <3>1, <3>3, <4>1
    <3> QED
      BY <3>2, <3>3
  <2> QED
    BY <2>4, <2>5
<1>11. u.color[Nil] = "black"
  BY <1>1, <1>2, <1>4
<1>12. ASSUME NEW n \in Prices, NEW e \in Sides, u.color[n] = "red"
       PROVE  u.color[u.child[n][e]] = "black" \/ (u.child[n][e] = x /\ t.color[y] = "black")
  <2>1. n \in Nodes /\ t.child[n][e] \in Nodes /\ n # Nil /\ n # y /\ t.color[n] = "red"
    BY <1>1, <1>4, <1>12, PricesAssumption DEF Typed, Nodes
  <2>2. t.color[t.child[n][e]] = "black"
    BY <1>1, <2>1 DEF NoRedRed
  <2>3. CASE n = p /\ e = s
    BY <1>2, <1>4, <2>1, <2>2, <2>3
  <2>4. CASE ~(n = p /\ e = s)
    BY <1>4, <2>1, <2>2, <2>4
  <2> QED
    BY <2>3, <2>4
<1>13. ASSUME t.color[y] # "black" PROVE \E b : Rest(u, Without(sub, y), b)
  <2>1. gone = 0
    BY <1>13 DEF gone
  <2>2. Balanced(u, new, Nil, "left")
    BY <1>8, <1>10, <2>1, PricesAssumption DEF Balanced
  <2>3. NoRedRed(u, Nil, Nil)
    BY <1>12, <1>13 DEF NoRedRed
  <2>4. u.color[u.root] = "black"
    BY <1>1, <1>2, <1>4, <1>13
  <2> QED
    BY <1>5, <1>11, <2>2, <2>3, <2>4 DEF Rest
<1>14. ASSUME t.color[y] = "black" PROVE \E b : Deleting(u, x, Without(sub, y), b)
  <2>1. gone = 1
    BY <1>14 DEF gone
  <2>2. NoRedRed(u, x, x)
    BY <1>12 DEF NoRedRed
  <2>3. x \in Without(sub, y)[u.root] \cup {Nil}
    <3>1. sub[y] \subseteq sub[t.root]
      <4>1. t.root \in Prices
        BY <1>1, <1>2 DEF Nodes, Spans
      <4> QED
        BY <1>1, <1>2, <4>1, Transitive
    <3> QED
      BY <1>2, <1>5, <3>1
  <2>4. CASE p = Nil
    <3>1. u.root = x
      BY <1>4, <2>4
    <3>2. Balanced(u, new, Nil, "left")
      BY <1>8, <1>10, <2>4, PricesAssumption DEF Balanced
    <3>3. Deleting(u, x, Without(sub, y), new)
      BY <1>5, <1>11, <2>2, <2>3, <3>1, <3>2 DEF Deleting
    <3> QED
      BY <3>3
  <2>5. CASE p # Nil
    <3>1. u.root = t.root /\ t.root # Nil /\ t.root # x /\ t.root # y
      <4>1. t.root # Nil
        BY <1>1, <1>2 DEF Spans
      <4> QED
        BY <1>2, <1>4, <2>5, <4>1
    <3>2. Balanced(u, new, p, s)
      BY <1>8, <1>10, <2>1 DEF Balanced
    <3>3. u.child[p][s] = x /\ u.parent[x] = p /\ p \in Prices
      BY <1>2, <1>4, <2>5
    <3>4. Side(u, x) = s
      <4>1. Typed(u) /\ s \in Sides /\ p \in Prices /\ Balanced(u, new, p, s) /\ u.child[p][s] = x /\ u.parent[x] = p
        BY <1>2, <1>5, <3>2, <3>3 DEF Shape
      <4> QED
        BY <4>1, Gap
    <3>5. p \in Without(sub, y)[u.root]
      BY <1>2, <1>5, <2>5
    <3>6. u.color[u.root] = "black"
      BY <1>1, <1>4, <3>1
    <3>7. Deleting(u, x, Without(sub, y), new)
      BY <1>5, <1>11, <2>2, <2>3, <3>1, <3>2, <3>3, <3>4, <3>5, <3>6 DEF Deleting
    <3> QED
      BY <3>7
  <2> QED
    BY <2>4, <2>5
<1> QED
  BY <1>5, <1>13, <1>14

-----------------------------------------------------------------------------
(* deleteNode of a price with two children: its successor takes its place.  *)

As(z, y, n) == IF n = z THEN y ELSE n

\* v is u with y, which was garbage, in place of z, which now is; the parent
\* of the sentinel counts only when the sentinel is x
InStead(u, v, z, y, x) ==
    /\ v \in Trees /\ v.root = As(z, y, u.root)
    /\ \A m \in Nodes : v.color[m] =
          IF m = y THEN u.color[z] ELSE IF m = z THEN "black" ELSE u.color[m]
    /\ v.parent[y] = u.parent[z] /\ v.parent[z] = Nil
    /\ \A m \in Prices \cup {x} : m # y /\ m # z => v.parent[m] = As(z, y, u.parent[m])
    /\ \A e \in Sides : v.child[y][e] = u.child[z][e] /\ v.child[z][e] = Nil
    /\ \A m \in Prices, e \in Sides : m # y /\ m # z => v.child[m][e] = As(z, y, u.child[m][e])
    /\ v.child[Nil] = u.child[Nil]

\* y fits into the order where z was
Fits(u, sub, z, y) ==
    /\ \A e \in Sides : \A m \in sub[u.child[z][e]] : Beyond(e, m, y)
    /\ \A n \in Prices, e \in Sides : z \in sub[u.child[n][e]] => Beyond(e, y, n)

Renamed(sub, z, y) ==
    [n \in Nodes |-> IF n = z THEN {z}
                     ELSE IF n = y THEN (sub[z] \ {z}) \cup {y}
                     ELSE IF z \in sub[n] THEN (sub[n] \ {z}) \cup {y} ELSE sub[n]]

\* what is needed of z, of y and of x for this
Garbage(u, sub, z, y, x) ==
    /\ Shape(u, sub) /\ z \in sub[u.root] /\ z \in Prices /\ y \in Prices /\ y \notin sub[u.root] /\ y # z
    /\ u.color[y] = "black" /\ x \in Nodes /\ x # y /\ x # z

LEMMA GarbageFacts ==
    ASSUME NEW u, NEW sub, NEW z, NEW y, NEW x, Garbage(u, sub, z, y, x)
    PROVE  /\ \A e \in Sides : u.child[y][e] = Nil
           /\ u.parent[y] = Nil
           /\ \A n \in Prices, e \in Sides : u.child[n][e] # y
           /\ \A e \in Sides : u.child[z][e] # z /\ z \notin sub[u.child[z][e]]
           /\ \A n \in Nodes : n # y => y \notin sub[n]
           /\ sub[y] = {y} /\ u.root \in Prices /\ u.root # y
<1>1. /\ Shape(u, sub) /\ Typed(u) /\ Spans(u, sub) /\ Links(u, sub)
      /\ z \in sub[u.root] /\ z \in Prices /\ y \in Prices /\ y \notin sub[u.root] /\ y # z
      /\ u.root \in Nodes /\ y # Nil /\ z # Nil
  BY PricesAssumption DEF Garbage, Shape, Typed, Trees
<1>2. u.parent[y] = Nil /\ \A e \in Sides : u.child[y][e] = Nil
  BY <1>1 DEF Links
<1>3. \A n \in Prices, e \in Sides : u.child[n][e] # y
  <2>1. ASSUME NEW n \in Prices, NEW e \in Sides, u.child[n][e] = y PROVE FALSE
    <3>1. u.parent[y] = n
      BY <1>1, <2>1 DEF Links
    <3> QED
      BY <1>2, <3>1, PricesAssumption
  <2> QED
    BY <2>1
<1>4. u.root \in Prices /\ u.root # y
  <2>1. u.root \in Prices
    BY <1>1 DEF Spans, Nodes
  <2> QED
    BY <1>1, <2>1, SpansFacts
<1>5. ASSUME NEW e \in Sides PROVE u.child[z][e] # z /\ z \notin sub[u.child[z][e]]
  <2>1. z \notin sub[u.child[z][e]] /\ z \in sub[z]
    BY <1>1, SpansFacts
  <2> QED
    BY <2>1
<1>6. ASSUME NEW n \in Prices, \A e \in Sides : u.child[n][e] = Nil PROVE sub[n] = {n}
  <2>1. \A m \in Prices : m \in sub[n] <=> m = n
    BY <1>1, <1>6 DEF Spans
  <2>2. sub[n] \subseteq Prices
    BY <1>1, SpansFacts
  <2> QED
    BY <2>1, <2>2
<1>7. ASSUME NEW n \in Nodes, n # y PROVE y \notin sub[n]
  <2>1. CASE n = Nil
    BY <1>1, <2>1 DEF Spans
  <2>2. CASE n \in sub[u.root]
    <3>1. sub[n] \subseteq sub[u.root]
      BY <1>1, <1>4, <2>2, Transitive
    <3> QED
      BY <1>1, <3>1
  <2>3. CASE n # Nil /\ n \notin sub[u.root]
    <3>1. n \in Prices /\ \A e \in Sides : u.child[n][e] = Nil
      BY <1>1, <2>3 DEF Links, Nodes
    <3> QED
      BY <1>6, <1>7, <3>1
  <2> QED
    BY <2>1, <2>2, <2>3
<1>8. sub[y] = {y}
  BY <1>1, <1>2, <1>6
<1> QED
  BY <1>2, <1>3, <1>4, <1>5, <1>7, <1>8

LEMMA InSteadShape ==
    ASSUME NEW u, NEW sub, NEW z, NEW y, NEW x, Garbage(u, sub, z, y, x), Fits(u, sub, z, y),
           NEW v, InStead(u, v, z, y, x)
    PROVE  Shape(v, Renamed(sub, z, y)) /\ Renamed(sub, z, y)[v.root] = (sub[u.root] \ {z}) \cup {y}
<1> DEFINE sub3 == Renamed(sub, z, y)
<1>1. /\ Shape(u, sub) /\ Typed(u) /\ Spans(u, sub) /\ Links(u, sub)
      /\ z \in sub[u.root] /\ z \in Prices /\ y \in Prices /\ y \notin sub[u.root] /\ y # z
      /\ u.root \in Nodes /\ y # Nil /\ z # Nil /\ y \in Nodes /\ z \in Nodes /\ Nil \in Nodes
      /\ sub \in [Nodes -> SUBSET Prices] /\ sub[Nil] = {}
  BY PricesAssumption DEF Garbage, Shape, Typed, Trees, Nodes, Spans
<1>2. /\ \A e \in Sides : u.child[y][e] = Nil
      /\ u.parent[y] = Nil
      /\ \A n \in Prices, e \in Sides : u.child[n][e] # y
      /\ \A e \in Sides : u.child[z][e] # z /\ z \notin sub[u.child[z][e]]
      /\ \A n \in Nodes : n # y => y \notin sub[n]
      /\ sub[y] = {y} /\ u.root \in Prices /\ u.root # y
  BY GarbageFacts
<1>3. /\ v \in Trees /\ v.root = As(z, y, u.root)
      /\ v.parent[y] = u.parent[z] /\ v.parent[z] = Nil
      /\ \A m \in Prices : m # y /\ m # z => v.parent[m] = As(z, y, u.parent[m])
      /\ \A e \in Sides : v.child[y][e] = u.child[z][e] /\ v.child[z][e] = Nil
      /\ \A m \in Prices, e \in Sides : m # y /\ m # z => v.child[m][e] = As(z, y, u.child[m][e])
      /\ v.child[Nil] = u.child[Nil]
  BY DEF InStead
<1>4. z \in sub[z]
  BY <1>1, SpansFacts
<1>5. /\ sub3[z] = {z} /\ sub3[y] = (sub[z] \ {z}) \cup {y}
      /\ \A n \in Nodes : n # z /\ n # y =>
            sub3[n] = IF z \in sub[n] THEN (sub[n] \ {z}) \cup {y} ELSE sub[n]
  BY <1>1 DEF Renamed
<1>6. sub3 \in [Nodes -> SUBSET Prices] /\ sub3[Nil] = {}
  <2>1. \A n \in Nodes : sub3[n] \in SUBSET Prices
    <3>1. ASSUME NEW n \in Nodes PROVE sub3[n] \subseteq Prices
      <4>1. sub[n] \subseteq Prices /\ sub[z] \subseteq Prices /\ y \in Prices /\ z \in Prices
        BY <1>1
      <4>2. sub3[n] \subseteq sub[n] \cup sub[z] \cup {y, z}
        <5>1. CASE n = z
          BY <1>5, <5>1
        <5>2. CASE n = y
          BY <1>5, <5>2
        <5>3. CASE n # z /\ n # y
          BY <1>5, <5>3
        <5> QED
          BY <5>1, <5>2, <5>3
      <4> QED
        BY <4>1, <4>2
    <3> QED
      BY <3>1
  <2>2. sub3[Nil] = {}
    BY <1>1, <1>5
  <2> QED
    BY <2>1, <2>2 DEF Renamed
<1> HIDE DEF sub3
<1>7. ASSUME NEW c \in Nodes, c # y
      PROVE  \A m : m \in sub3[As(z, y, c)] <=> (m = y /\ z \in sub[c]) \/ (m # z /\ m # y /\ m \in sub[c])
  <2>1. y \notin sub[c]
    BY <1>2, <1>7
  <2>2. CASE c = z
    BY <1>1, <1>4, <1>5, <2>1, <2>2 DEF As
  <2>3. CASE c # z
    BY Zenon, <1>1, <1>5, <1>7, <2>1, <2>3 DEF As
  <2> QED
    BY <2>2, <2>3
<1>8. Typed(v)
  <2>1. \A n \in Prices : v.parent[n] \in Nodes
    <3>1. ASSUME NEW n \in Prices PROVE v.parent[n] \in Nodes
      <4>1. u.parent[n] \in Nodes /\ u.parent[z] \in Nodes
        BY <1>1 DEF Typed
      <4> QED
        BY <1>1, <1>3, <4>1 DEF As
    <3> QED
      BY <3>1
  <2>2. \A n \in Prices, e \in Sides : v.child[n][e] \in Nodes
    <3>1. ASSUME NEW n \in Prices, NEW e \in Sides PROVE v.child[n][e] \in Nodes
      <4>1. u.child[n][e] \in Nodes /\ u.child[z][e] \in Nodes
        BY <1>1 DEF Typed
      <4> QED
        BY <1>1, <1>3, <4>1 DEF As
    <3> QED
      BY <3>1
  <2> QED
    BY <1>3, <2>1, <2>2 DEF Typed
<1>9. Spans(v, sub3)
  <2>1. ASSUME NEW n \in Prices PROVE IsFiniteSet(sub3[n])
    <3>1. IsFiniteSet(sub[n]) /\ IsFiniteSet(sub[z]) /\ n \in Nodes
      BY <1>1 DEF Spans, Nodes
    <3>2. IsFiniteSet(sub[n] \ {z}) /\ IsFiniteSet(sub[z] \ {z}) /\ IsFiniteSet({z})
      BY <3>1, FS_Subset, FS_Singleton
    <3>3. IsFiniteSet((sub[n] \ {z}) \cup {y}) /\ IsFiniteSet((sub[z] \ {z}) \cup {y})
      BY <3>2, FS_AddElement
    <3>4. CASE n = z
      BY <1>5, <3>2, <3>4
    <3>5. CASE n = y
      BY <1>5, <3>3, <3>5
    <3>6. CASE n # z /\ n # y
      BY <1>5, <3>1, <3>3, <3>6
    <3> QED
      BY <3>4, <3>5, <3>6
  <2>2. ASSUME NEW n \in Prices, NEW m \in Prices
        PROVE  m \in sub3[n] <=> m = n \/ \E e \in Sides : m \in sub3[v.child[n][e]]
    <3>1. CASE n = z
      <4>1. \A e \in Sides : m \notin sub3[v.child[n][e]]
        BY <1>3, <1>6, <3>1
      <4> QED
        BY <1>5, <3>1, <4>1
    <3>2. CASE n = y
      <4>1. ASSUME NEW e \in Sides
            PROVE  m \in sub3[v.child[n][e]] <=> m # z /\ m # y /\ m \in sub[u.child[z][e]]
        <5> DEFINE c == u.child[z][e]
        <5>1. c \in Nodes /\ c # y /\ c # z /\ z \notin sub[c] /\ v.child[n][e] = c
          BY <1>1, <1>2, <1>3, <3>2 DEF Typed
        <5> HIDE DEF c
        <5>2. As(z, y, c) = c
          BY <5>1 DEF As
        <5>3. m \in sub3[c] <=> m # z /\ m # y /\ m \in sub[c]
          BY <1>7, <5>1, <5>2
        <5> QED
          BY <5>1, <5>3 DEF c
      <4>2. m \in sub3[y] <=> m = y \/ (m # z /\ m # y /\ m \in sub[z])
        BY <1>5
      <4>3. m \in sub[z] <=> m = z \/ \E e \in Sides : m \in sub[u.child[z][e]]
        BY <1>1 DEF Spans
      <4> QED
        BY <3>2, <4>1, <4>2, <4>3
    <3>3. CASE n # z /\ n # y
      <4>1. ASSUME NEW e \in Sides
            PROVE  m \in sub3[v.child[n][e]] <=> (m = y /\ z \in sub[u.child[n][e]])
                                                 \/ (m # z /\ m # y /\ m \in sub[u.child[n][e]])
        <5> DEFINE c == u.child[n][e]
        <5>1. c \in Nodes /\ c # y /\ v.child[n][e] = As(z, y, c)
          BY <1>1, <1>2, <1>3, <3>3 DEF Typed
        <5> HIDE DEF c
        <5>2. m \in sub3[As(z, y, c)] <=> (m = y /\ z \in sub[c]) \/ (m # z /\ m # y /\ m \in sub[c])
          BY <1>7, <5>1
        <5> QED
          BY <5>1, <5>2 DEF c
      <4>2. m \in sub3[n] <=> (m = y /\ z \in sub[n]) \/ (m # z /\ m # y /\ m \in sub[n])
        <5>1. n \in Nodes /\ As(z, y, n) = n
          BY <3>3 DEF As, Nodes
        <5>2. m \in sub3[As(z, y, n)] <=> (m = y /\ z \in sub[n]) \/ (m # z /\ m # y /\ m \in sub[n])
          BY <1>7, <3>3, <5>1
        <5> QED
          BY <5>1, <5>2
      <4>3. m \in sub[n] <=> m = n \/ \E e \in Sides : m \in sub[u.child[n][e]]
        BY <1>1 DEF Spans
      <4>4. z \in sub[n] <=> \E e \in Sides : z \in sub[u.child[n][e]]
        BY <1>1, <3>3 DEF Spans
      <4> QED
        BY <3>3, <4>1, <4>2, <4>3, <4>4
    <3> QED
      BY <3>1, <3>2, <3>3
  <2>3. ASSUME NEW n \in Prices, NEW e \in Sides, NEW m \in sub3[v.child[n][e]]
        PROVE  Beyond(e, m, n)
    <3>1. CASE n = z
      BY <1>3, <1>6, <2>3, <3>1
    <3>2. CASE n = y
      <4> DEFINE c == u.child[z][e]
      <4>1. c \in Nodes /\ c # y /\ c # z /\ z \notin sub[c] /\ v.child[n][e] = c
        BY <1>1, <1>2, <1>3, <3>2 DEF Typed
      <4> HIDE DEF c
      <4>2. As(z, y, c) = c /\ m \in sub3[c]
        BY <2>3, <4>1 DEF As
      <4>3. m \in sub[c]
        BY <1>7, <4>1, <4>2
      <4> QED
        BY <3>2, <4>3 DEF Fits, c
    <3>3. CASE n # z /\ n # y
      <4> DEFINE c == u.child[n][e]
      <4>1. c \in Nodes /\ c # y /\ v.child[n][e] = As(z, y, c)
        BY <1>1, <1>2, <1>3, <3>3 DEF Typed
      <4> HIDE DEF c
      <4>2. m \in sub3[As(z, y, c)]
        BY <2>3, <4>1
      <4>3. (m = y /\ z \in sub[c]) \/ m \in sub[c]
        BY <1>7, <4>1, <4>2
      <4>4. CASE m = y /\ z \in sub[c]
        BY <4>4 DEF Fits, c
      <4>5. CASE m \in sub[c]
        BY <1>1, <4>5 DEF Spans, c
      <4> QED
        BY <4>3, <4>4, <4>5
    <3> QED
      BY <3>1, <3>2, <3>3
  <2> QED
    BY <1>6, <2>1, <2>2, <2>3 DEF Spans
<1>10. sub3[v.root] = (sub[u.root] \ {z}) \cup {y}
  <2>1. CASE u.root = z
    BY <1>3, <1>5, <2>1 DEF As
  <2>2. CASE u.root # z
    BY <1>1, <1>2, <1>3, <1>5, <2>2 DEF As
  <2> QED
    BY <2>1, <2>2
<1>11. Links(v, sub3)
  <2>1. v.root # Nil => v.parent[v.root] = Nil
    <3>0. u.parent[u.root] = Nil
      BY <1>1, <1>2, PricesAssumption DEF Links
    <3>1. CASE u.root = z
      BY <1>3, <3>0, <3>1 DEF As
    <3>2. CASE u.root # z
      <4>1. v.root = u.root /\ v.parent[u.root] = As(z, y, u.parent[u.root])
        BY <1>2, <1>3, <3>2 DEF As
      <4> QED
        BY <1>1, <3>0, <4>1 DEF As
    <3> QED
      BY <3>1, <3>2
  <2>2. ASSUME NEW n \in Prices, NEW e \in Sides, v.child[n][e] # Nil
        PROVE  v.parent[v.child[n][e]] = n
    <3>1. CASE n = z
      BY <1>3, <2>2, <3>1
    <3>2. CASE n = y
      <4> DEFINE c == u.child[z][e]
      <4>1. c \in Nodes /\ c # y /\ c # z /\ v.child[n][e] = c /\ c # Nil
        BY <1>1, <1>2, <1>3, <2>2, <3>2 DEF Typed
      <4>2. u.parent[c] = z
        BY <1>1, <4>1 DEF Links
      <4> HIDE DEF c
      <4>3. v.parent[c] = As(z, y, u.parent[c])
        BY <1>3, <4>1 DEF Nodes
      <4> QED
        BY <3>2, <4>1, <4>2, <4>3 DEF As
    <3>3. CASE n # z /\ n # y
      <4> DEFINE c == u.child[n][e]
      <4>1. c \in Nodes /\ c # y /\ v.child[n][e] = As(z, y, c)
        BY <1>1, <1>2, <1>3, <3>3 DEF Typed
      <4>2. c # Nil
        BY <1>1, <2>2, <4>1 DEF As
      <4>3. u.parent[c] = n
        BY <1>1, <4>2 DEF Links
      <4> HIDE DEF c
      <4>4. CASE c = z
        BY <1>3, <4>1, <4>3, <4>4 DEF As
      <4>5. CASE c # z
        <5>1. v.parent[c] = As(z, y, u.parent[c])
          BY <1>3, <4>1, <4>2, <4>5 DEF Nodes
        <5> QED
          BY <3>3, <4>1, <4>3, <4>5, <5>1 DEF As
      <4> QED
        BY <4>4, <4>5
    <3> QED
      BY <3>1, <3>2, <3>3
  <2>3. ASSUME NEW n \in Prices, n \notin sub3[v.root]
        PROVE  v.parent[n] = Nil /\ \A e \in Sides : v.child[n][e] = Nil
    <3>1. CASE n = z
      BY <1>3, <3>1
    <3>2. CASE n # z
      <4>1. n # y /\ n \notin sub[u.root]
        BY <1>10, <2>3, <3>2
      <4>2. u.parent[n] = Nil /\ \A e \in Sides : u.child[n][e] = Nil
        BY <1>1, <4>1 DEF Links
      <4> QED
        BY <1>1, <1>3, <3>2, <4>1, <4>2 DEF As
    <3> QED
      BY <3>1, <3>2
  <2>4. v.child[Nil] = Behind
    BY <1>1, <1>3 DEF Links
  <2> QED
    BY <2>1, <2>2, <2>3, <2>4 DEF Links
<1> QED
  BY <1>8, <1>9, <1>10, <1>11 DEF Shape, sub3

\* The colors and the numbers of black nodes follow.
LEMMA InSteadColors ==
    ASSUME NEW u, NEW sub, NEW z, NEW y, NEW x, Garbage(u, sub, z, y, x), NEW v, InStead(u, v, z, y, x)
    PROVE  /\ \A bh, q, e : Balanced(u, bh, q, e) /\ q # y => Balanced(v, Traded(bh, z, y), As(z, y, q), e)
           /\ NoRedRed(u, Nil, Nil) => NoRedRed(v, Nil, Nil)
           /\ NoRedRed(u, x, x) => NoRedRed(v, x, x)
           /\ v.color[v.root] = u.color[u.root] /\ v.color[Nil] = u.color[Nil]
<1>1. /\ Typed(u) /\ z \in Prices /\ y \in Prices /\ y # z /\ x # y /\ x # z /\ x \in Nodes
      /\ u.root \in Nodes /\ y # Nil /\ z # Nil /\ y \in Nodes /\ z \in Nodes /\ Nil \in Nodes
      /\ u.color[y] = "black"
  BY PricesAssumption DEF Garbage, Shape, Typed, Trees, Nodes
<1>2. /\ \A e \in Sides : u.child[y][e] = Nil
      /\ \A n \in Prices, e \in Sides : u.child[n][e] # y
      /\ \A e \in Sides : u.child[z][e] # z
      /\ u.root # y
  BY GarbageFacts
<1>3. /\ v.root = As(z, y, u.root)
      /\ \A m \in Nodes : v.color[m] =
            IF m = y THEN u.color[z] ELSE IF m = z THEN "black" ELSE u.color[m]
      /\ \A e \in Sides : v.child[y][e] = u.child[z][e] /\ v.child[z][e] = Nil
      /\ \A m \in Prices, e \in Sides : m # y /\ m # z => v.child[m][e] = As(z, y, u.child[m][e])
  BY DEF InStead
<1>4. \A c \in Nodes : c # y => v.color[As(z, y, c)] = u.color[c]
  BY <1>1, <1>3 DEF As
<1>5. v.color[v.root] = u.color[u.root] /\ v.color[Nil] = u.color[Nil]
  BY <1>1, <1>2, <1>3, <1>4
<1>6. ASSUME NEW bh, NEW q, NEW f, Balanced(u, bh, q, f), q # y
      PROVE  Balanced(v, Traded(bh, z, y), As(z, y, q), f)
  <2> DEFINE new == Traded(bh, z, y)
  <2>1. /\ bh \in [Nodes -> Nat] /\ bh[Nil] = 0
        /\ \A n \in Prices, e \in Sides :
              bh[n] = bh[u.child[n][e]] + Weight(u, n) + (IF n = q /\ e = f THEN 1 ELSE 0)
    BY <1>6 DEF Balanced
  <2>2. /\ new[z] = bh[y] /\ new[y] = bh[z] /\ \A n \in Nodes : n # z /\ n # y => new[n] = bh[n]
    BY <1>1 DEF Traded
  <2>3. new \in [Nodes -> Nat] /\ new[Nil] = 0
    <3>1. \A n \in Nodes : new[n] \in Nat
      BY <1>1, <2>1, <2>2
    <3> QED
      BY <1>1, <2>1, <2>2, <3>1 DEF Traded
  <2> HIDE DEF new
  <2>4. \A c \in Nodes : c # y => new[As(z, y, c)] = bh[c]
    BY <1>1, <2>2 DEF As
  <2>5. ASSUME NEW n \in Prices, NEW e \in Sides
        PROVE  new[n] = new[v.child[n][e]] + Weight(v, n) + (IF n = As(z, y, q) /\ e = f THEN 1 ELSE 0)
    <3>1. CASE n = z
      <4>1. bh[y] = bh[u.child[y][e]] + Weight(u, y) + (IF y = q /\ e = f THEN 1 ELSE 0)
        BY <1>1, <2>1
      <4>2. bh[y] = 0 + 1 + 0
        BY <1>1, <1>2, <1>6, <2>1, <4>1 DEF Weight
      <4>3. v.child[n][e] = Nil /\ Weight(v, n) = 1 /\ n # As(z, y, q)
        BY <1>1, <1>3, <3>1 DEF Weight, As
      <4> QED
        BY <2>2, <2>3, <3>1, <4>2, <4>3
    <3>2. CASE n = y
      <4>1. bh[z] = bh[u.child[z][e]] + Weight(u, z) + (IF z = q /\ e = f THEN 1 ELSE 0)
        BY <1>1, <2>1
      <4> DEFINE c == u.child[z][e]
      <4>2. c \in Nodes /\ c # y /\ c # z /\ v.child[n][e] = c
        BY <1>1, <1>2, <1>3, <3>2 DEF Typed
      <4>3. Weight(v, n) = Weight(u, z) /\ (n = As(z, y, q) <=> z = q)
        BY <1>1, <1>3, <1>6, <3>2 DEF Weight, As
      <4> HIDE DEF c
      <4>4. new[c] = bh[c]
        BY <2>2, <4>2
      <4> QED
        BY <2>2, <3>2, <4>1, <4>2, <4>3, <4>4 DEF c
    <3>3. CASE n # z /\ n # y
      <4>1. bh[n] = bh[u.child[n][e]] + Weight(u, n) + (IF n = q /\ e = f THEN 1 ELSE 0)
        BY <2>1
      <4> DEFINE c == u.child[n][e]
      <4>2. c \in Nodes /\ c # y /\ v.child[n][e] = As(z, y, c) /\ n \in Nodes
        BY <1>1, <1>2, <1>3, <3>3 DEF Typed, Nodes
      <4>3. Weight(v, n) = Weight(u, n) /\ (n = As(z, y, q) <=> n = q) /\ new[n] = bh[n]
        BY <1>1, <1>3, <2>2, <3>3, <4>2 DEF Weight, As
      <4>d. c = u.child[n][e]
        OBVIOUS
      <4> HIDE DEF c
      <4>4. new[As(z, y, c)] = bh[c]
        BY <2>4, <4>2
      <4> QED
        BY <4>1, <4>2, <4>3, <4>4, <4>d
    <3> QED
      BY <3>1, <3>2, <3>3
  <2> QED
    BY <2>3, <2>5 DEF Balanced, new
<1>7. ASSUME NEW a, a \in {Nil, x}, NoRedRed(u, a, a) PROVE NoRedRed(v, a, a)
  <2> SUFFICES ASSUME NEW n \in Prices, NEW e \in Sides, v.color[n] = "red", n # a, v.child[n][e] # a
               PROVE  v.color[v.child[n][e]] = "black"
    BY DEF NoRedRed
  <2>0. a # y /\ a # z /\ n \in Nodes
    BY <1>1, <1>7 DEF Nodes
  <2>1. CASE n = z
    BY <1>1, <1>3, <2>1
  <2>2. CASE n = y
    <3> DEFINE c == u.child[z][e]
    <3>1. c \in Nodes /\ c # y /\ c # z /\ v.child[n][e] = c
      BY <1>1, <1>2, <1>3, <2>2 DEF Typed
    <3>2. u.color[z] = "red"
      BY <1>3, <2>0, <2>2
    <3>3. u.color[c] = "black" \/ c = a
      BY <1>1, <1>7, <2>0, <3>2 DEF NoRedRed
    <3> HIDE DEF c
    <3> QED
      BY <1>3, <3>1, <3>3
  <2>3. CASE n # z /\ n # y
    <3> DEFINE c == u.child[n][e]
    <3>1. c \in Nodes /\ c # y /\ v.child[n][e] = As(z, y, c)
      BY <1>1, <1>2, <1>3, <2>3 DEF Typed
    <3>2. u.color[n] = "red"
      BY <1>3, <2>0, <2>3
    <3>3. u.color[c] = "black" \/ c = a
      BY <1>7, <3>2 DEF NoRedRed
    <3> HIDE DEF c
    <3>4. c # a
      BY <2>0, <3>1 DEF As
    <3> QED
      BY <1>4, <3>1, <3>3, <3>4
  <2> QED
    BY <2>1, <2>2, <2>3
<1> QED
  BY <1>5, <1>6, <1>7

LEMMA InSteadStep ==
    ASSUME NEW u, NEW sub, NEW z, NEW y, NEW x, Garbage(u, sub, z, y, x), Fits(u, sub, z, y),
           NEW v, InStead(u, v, z, y, x), NEW bh
    PROVE  /\ Rest(u, sub, bh) => Rest(v, Renamed(sub, z, y), Traded(bh, z, y))
           /\ Deleting(u, x, sub, bh) => Deleting(v, x, Renamed(sub, z, y), Traded(bh, z, y))
<1> DEFINE sub3 == Renamed(sub, z, y)
           new == Traded(bh, z, y)
<1>1. /\ Typed(u) /\ Shape(u, sub) /\ z \in Prices /\ y \in Prices /\ y # z /\ x # y /\ x # z /\ x \in Nodes
      /\ y # Nil /\ z # Nil /\ z \in sub[u.root] /\ y \notin sub[u.root] /\ Spans(u, sub)
  BY PricesAssumption DEF Garbage, Shape
<1>2. Shape(v, sub3) /\ sub3[v.root] = (sub[u.root] \ {z}) \cup {y}
  BY InSteadShape
<1> HIDE DEF sub3, new
<1>3. /\ \A q, e : Balanced(u, bh, q, e) /\ q # y => Balanced(v, new, As(z, y, q), e)
      /\ NoRedRed(u, Nil, Nil) => NoRedRed(v, Nil, Nil)
      /\ NoRedRed(u, x, x) => NoRedRed(v, x, x)
      /\ v.color[v.root] = u.color[u.root] /\ v.color[Nil] = u.color[Nil]
  BY InSteadColors DEF new
<1>4. As(z, y, Nil) = Nil
  BY <1>1 DEF As
<1>5. ASSUME Rest(u, sub, bh) PROVE Rest(v, sub3, new)
  <2>1. Balanced(v, new, Nil, "left")
    BY <1>1, <1>3, <1>4, <1>5 DEF Rest
  <2> QED
    BY <1>2, <1>3, <1>5, <2>1 DEF Rest
<1>6. ASSUME Deleting(u, x, sub, bh) PROVE Deleting(v, x, sub3, new)
  <2>1. v.root = x <=> u.root = x
    BY <1>1 DEF As, InStead
  <2>2. x \in sub3[v.root] \cup {Nil}
    BY <1>1, <1>2, <1>6 DEF Deleting
  <2>3. v.color[Nil] = "black" /\ NoRedRed(v, x, x) /\ (x # v.root => v.color[v.root] = "black")
    BY <1>3, <1>6, <2>1 DEF Deleting
  <2>4. CASE x = u.root
    <3>1. Balanced(v, new, Nil, "left")
      BY <1>1, <1>3, <1>4, <1>6, <2>4 DEF Deleting
    <3> QED
      BY <1>2, <2>1, <2>2, <2>3, <2>4, <3>1 DEF Deleting
  <2>5. CASE x # u.root
    <3> DEFINE q == u.parent[x]
               f == Side(u, x)
    <3>1. q \in sub[u.root] /\ u.child[q][f] = x /\ Balanced(u, bh, q, f) /\ f \in Sides
      BY <1>6, <2>5, SideIsSide DEF Deleting
    <3>2. q \in Prices /\ q # y
      <4>1. sub[u.root] \subseteq Prices
        BY <1>1 DEF Spans, Typed, Trees
      <4> QED
        BY <1>1, <3>1, <4>1
    <3>3. v.parent[x] = As(z, y, q)
      BY <1>1 DEF InStead
    <3>d. q = u.parent[x] /\ f = Side(u, x)
      OBVIOUS
    <3> HIDE DEF q, f
    <3>4. As(z, y, q) \in Prices /\ As(z, y, q) \in sub3[v.root]
      BY <1>1, <1>2, <3>1, <3>2 DEF As
    <3>5. \A e \in Sides : v.child[As(z, y, q)][e] = x <=> u.child[q][e] = x
      <4>1. CASE q = z
        BY <1>1, <4>1 DEF As, InStead
      <4>2. CASE q # z
        <5>1. \A e \in Sides : v.child[q][e] = As(z, y, u.child[q][e])
          BY <3>2, <4>2 DEF InStead
        <5> QED
          BY <1>1, <4>2, <5>1 DEF As
      <4> QED
        BY <4>1, <4>2
    <3>6. Side(v, x) = f
      <4>1. v.child[As(z, y, q)]["left"] = x <=> u.child[q]["left"] = x
        BY <3>5 DEF Sides
      <4> QED
        BY <3>3, <3>d, <4>1 DEF Side, Left
    <3>7. Balanced(v, new, As(z, y, q), f)
      BY <1>3, <3>1, <3>2
    <3>8. v.child[As(z, y, q)][f] = x
      BY <3>1, <3>5
    <3> QED
      BY <1>2, <2>1, <2>2, <2>3, <2>5, <3>3, <3>4, <3>6, <3>7, <3>8 DEF Deleting
  <2> QED
    BY <2>4, <2>5
<1> QED
  BY <1>5, <1>6 DEF sub3, new

\* z has the children l and r, and y, whose right child is x, succeeds it
Heir(t, sub, z, l, r, y, x, p, g) ==
    /\ z \in Prices /\ l \in Prices /\ r \in Prices /\ y \in Prices /\ p \in Prices
    /\ x \in Nodes /\ g \in Nodes
    /\ l = t.child[z]["left"] /\ r = t.child[z]["right"] /\ x = t.child[y]["right"]
    /\ t.child[y]["left"] = Nil /\ p = t.parent[y] /\ g = t.parent[z]
    /\ t.parent[l] = z /\ t.parent[r] = z
    /\ l # r /\ l # z /\ r # z /\ y # z /\ y # l /\ p # y
    /\ x # z /\ x # l /\ x # y /\ x # r
    /\ g # z /\ g # y /\ g # p
    /\ (p = z <=> r = y) /\ (p = z => Side(t, y) = "right")
    /\ y \in sub[r] /\ y \in sub[z] /\ y \in sub[t.root]
    /\ Outermost("left", sub[r], y)

LEMMA HeirFacts ==
    ASSUME NEW t, NEW sub, Shape(t, sub), NEW z \in sub[t.root],
           NEW l, l = Left(t, z), l # Nil, NEW r, r = Right(t, z), r # Nil,
           NEW y, y = Minimum(t, r), NEW x, x = Right(t, y), NEW p, p = t.parent[y], NEW g, g = t.parent[z]
    PROVE  Heir(t, sub, z, l, r, y, x, p, g)
<1>1. /\ Typed(t) /\ Spans(t, sub) /\ Links(t, sub) /\ t \in Trees /\ t.root \in Nodes
      /\ sub \in [Nodes -> SUBSET Prices] /\ "left" \in Sides /\ "right" \in Sides
      /\ Other("left") = "right" /\ Other("right") = "left"
  BY DEF Shape, Typed, Trees, Spans, Sides, Other
<1>2. z \in Prices /\ z # Nil /\ t.root \in Prices
  <2>1. t.root \in Prices
    BY <1>1 DEF Spans, Nodes
  <2> QED
    BY <1>1, <2>1, PricesAssumption
<1>3. l = t.child[z]["left"] /\ r = t.child[z]["right"] /\ x = t.child[y]["right"]
  BY DEF Left, Right
<1>4. /\ l \in Prices /\ l # z /\ l \in sub[z] /\ l # r /\ t.parent[l] = z
      /\ z \notin sub[l] /\ l \in sub[l]
  <2>1. l \in Prices /\ l # z /\ l \in sub[z] /\ l # r /\ z \notin sub[l] /\ l \in sub[l]
    BY <1>1, <1>2, <1>3, ChildFacts
  <2>2. t.parent[l] = z
    BY <1>1, <1>2, <1>3 DEF Links
  <2> QED
    BY <2>1, <2>2
<1>5. r \in Prices /\ r # z /\ r \in sub[z] /\ t.parent[r] = z /\ z \notin sub[r] /\ r \in sub[r]
  <2>1. r \in Prices /\ r # z /\ r \in sub[z] /\ z \notin sub[r] /\ r \in sub[r]
    BY <1>1, <1>2, <1>3, ChildFacts
  <2>2. t.parent[r] = z
    BY <1>1, <1>2, <1>3 DEF Links
  <2> QED
    BY <2>1, <2>2
<1>6. Outermost("left", sub[r], y) /\ y \in Prices /\ t.child[y]["left"] = Nil /\ y \in sub[r]
  <2>1. y = Extreme(t, r, "left")
    BY DEF Minimum
  <2>2. Outermost("left", sub[r], y) /\ y \in Prices /\ t.child[y]["left"] = Nil
    BY <1>1, <1>5, <2>1, ExtremeIs
  <2> QED
    BY <2>2 DEF Outermost
<1>7. y # z /\ y # l /\ y \in sub[z] /\ y \in sub[t.root]
  <2>1. sub[r] \subseteq sub[z] /\ sub[z] \subseteq sub[t.root]
    BY <1>1, <1>2, <1>5, Transitive
  <2>2. y # l
    <3>1. ASSUME y = l PROVE FALSE
      <4>1. l \in sub[t.child[z]["left"]] /\ l \in sub[t.child[z]["right"]]
        BY <1>3, <1>4, <1>6, <3>1
      <4>2. "left" = "right"
        BY <1>1, <1>2, <4>1, Disjoint
      <4> QED
        BY <4>2
    <3> QED
      BY <3>1
  <2> QED
    BY <1>5, <1>6, <2>1, <2>2
<1>8. p \in sub[z] /\ p \in Prices /\ Side(t, y) \in Sides /\ t.child[p][Side(t, y)] = y /\ p # y
      /\ y \in sub[t.child[p][Side(t, y)]]
  <2>1. p \in sub[z]
    BY <1>2, <1>7, ParentBelow
  <2>2. p \in Prices
    BY <1>1, <1>2, <2>1 DEF Nodes
  <2>3. p # Nil
    BY <2>2, PricesAssumption
  <2> QED
    BY <1>6, <2>1, <2>2, <2>3, ParentFacts
<1>9. (p = z <=> r = y) /\ (p = z => Side(t, y) = "right")
  <2>1. ASSUME p = z PROVE r = y /\ Side(t, y) = "right"
    <3>1. y \in sub[t.child[z][Side(t, y)]] /\ y \in sub[t.child[z]["right"]]
      BY <1>3, <1>6, <1>8, <2>1
    <3>2. Side(t, y) = "right"
      BY <1>1, <1>2, <1>8, <3>1, Disjoint
    <3> QED
      BY <1>3, <1>8, <2>1, <3>2
  <2>2. r = y => p = z
    BY Zenon, <1>5
  <2> QED
    BY <2>1, <2>2
<1>10. x \in Nodes /\ x # z /\ x # l /\ x # y /\ x # r
  <2>1. x \in Nodes
    BY <1>1, <1>3, <1>6 DEF Typed
  <2>2. ASSUME x # Nil PROVE t.parent[x] = y /\ x # y /\ x \in sub[y]
    <3>1. x # y /\ x \in sub[y]
      BY <1>1, <1>3, <1>6, <2>2, ChildFacts
    <3> QED
      BY <1>1, <1>3, <1>6, <2>2, <3>1 DEF Links
  <2>3. sub[y] \subseteq sub[r]
    BY <1>1, <1>5, <1>6, Transitive
  <2> QED
    BY <1>2, <1>4, <1>5, <1>6, <1>7, <2>1, <2>2, <2>3, PricesAssumption
<1>11. g \in Nodes /\ g # z /\ g # y /\ g # p
  <2>1. g \in Nodes
    BY <1>1, <1>2 DEF Typed
  <2>2. g \notin sub[z]
    <3>1. CASE g = Nil
      BY <1>1, <1>2, <3>1, PricesAssumption DEF Nodes
    <3>2. CASE g # Nil
      <4>1. g \in Prices /\ Side(t, z) \in Sides /\ t.child[g][Side(t, z)] = z
        BY <1>2, <3>2, ParentFacts
      <4>2. g \notin sub[t.child[g][Side(t, z)]]
        BY <1>1, <4>1, SpansFacts
      <4> QED
        BY <4>1, <4>2
    <3> QED
      BY <3>1, <3>2
  <2>3. z \in sub[z]
    BY <1>1, <1>2, SpansFacts
  <2> QED
    BY <1>7, <1>8, <2>1, <2>2, <2>3
<1> QED
  BY Zenon, <1>2, <1>3, <1>4, <1>5, <1>6, <1>7, <1>8, <1>9, <1>10, <1>11 DEF Heir

\* the tree after y was taken from its place
Freed(t, f, z, r, y, x, p, s) ==
    /\ f \in Trees /\ f.root = t.root /\ f.color = t.color /\ f.child[Nil] = t.child[Nil]
    /\ \A m \in Prices, e \in Sides : f.child[m][e] =
          IF p # z /\ m = p /\ e = s THEN x
          ELSE IF p # z /\ m = y /\ e = "right" THEN r ELSE t.child[m][e]
    /\ \A m \in Nodes : f.parent[m] =
          IF m = x THEN (IF p = z THEN y ELSE p) ELSE IF p # z /\ m = r THEN y ELSE t.parent[m]

LEMMA FreedReads ==
    ASSUME NEW t \in Trees, NEW z \in Prices, NEW r \in Prices, NEW y \in Prices, NEW x \in Nodes,
           NEW p \in Prices, p = t.parent[y], NEW s, s = Side(t, y), x # r, p # y,
           NEW f, f = IF p = z THEN SetParent(t, x, y)
                      ELSE SetParent(SetChild(Transplant(t, y, x), y, "right", r), r, y)
    PROVE  Freed(t, f, z, r, y, x, p, s)
<1>1. y \in Nodes /\ r \in Nodes /\ p \in Nodes /\ p # Nil /\ y # Nil /\ "right" \in Sides
  BY PricesAssumption DEF Nodes, Sides
<1>2. CASE p = z
  <2>1. ParentSet(t, f, x, y)
    BY <1>1, <1>2, SetParentReads
  <2> QED
    BY <1>2, <2>1 DEF ParentSet, Freed
<1>3. CASE p # z
  <2> DEFINE a == Transplant(t, y, x)
             b == SetChild(a, y, "right", r)
  <2>1. f = SetParent(b, r, y)
    BY <1>3
  <2>2. /\ a \in Trees /\ a.root = t.root /\ a.color = t.color /\ a.child[Nil] = t.child[Nil]
        /\ \A m \in Nodes : a.parent[m] = IF m = x THEN p ELSE t.parent[m]
        /\ \A m \in Prices, e \in Sides : a.child[m][e] = IF m = p /\ e = s THEN x ELSE t.child[m][e]
    BY <1>1, TransplantReads
  <2> HIDE DEF a
  <2>3. ChildSet(a, b, y, "right", r)
    BY <1>1, <2>2, SetChildReads
  <2>4. b \in Trees
    BY <2>3 DEF ChildSet
  <2> HIDE DEF b
  <2>5. ParentSet(b, f, r, y)
    BY <1>1, <2>1, <2>4, SetParentReads
  <2>6. f \in Trees /\ f.root = t.root /\ f.color = t.color /\ f.child = b.child
    BY <2>2, <2>3, <2>5 DEF ChildSet, ParentSet
  <2>7. f.child[Nil] = t.child[Nil]
    BY <1>1, <2>2, <2>3, <2>6 DEF ChildSet, Nodes
  <2>8. ASSUME NEW m \in Prices, NEW e \in Sides
        PROVE  f.child[m][e] = IF m = p /\ e = s THEN x ELSE IF m = y /\ e = "right" THEN r ELSE t.child[m][e]
    <3>1. m \in Nodes
      BY DEF Nodes
    <3>2. f.child[m][e] = IF m = y /\ e = "right" THEN r ELSE a.child[m][e]
      BY <2>3, <2>6, <3>1 DEF ChildSet
    <3> QED
      BY <2>2, <3>2
  <2>9. ASSUME NEW m \in Nodes
        PROVE  f.parent[m] = IF m = x THEN p ELSE IF m = r THEN y ELSE t.parent[m]
    <3>1. f.parent[m] = IF m = r THEN y ELSE b.parent[m]
      BY <2>5 DEF ParentSet
    <3>2. b.parent[m] = IF m = x THEN p ELSE t.parent[m]
      BY <2>2, <2>3 DEF ChildSet
    <3> QED
      BY <3>1, <3>2
  <2> QED
    BY <1>3, <2>6, <2>7, <2>8, <2>9 DEF Freed
<1> QED
  BY <1>2, <1>3

\* the tree after y was put where z was
Lifted(f, v, z, l, y, c, g, s) ==
    /\ v \in Trees /\ v.root = (IF g = Nil THEN y ELSE f.root) /\ v.child[Nil] = f.child[Nil]
    /\ \A m \in Nodes : v.color[m] = IF m = z THEN "black" ELSE IF m = y THEN c ELSE f.color[m]
    /\ \A m \in Nodes : v.parent[m] =
          IF m = z THEN Nil ELSE IF m = l THEN y ELSE IF m = y THEN g ELSE f.parent[m]
    /\ \A m \in Prices, e \in Sides : v.child[m][e] =
          IF m = z THEN Nil ELSE IF m = y /\ e = "left" THEN l
          ELSE IF m = g /\ e = s THEN y ELSE f.child[m][e]

LEMMA LiftedReads ==
    ASSUME NEW f \in Trees, NEW z \in Prices, NEW l \in Prices, NEW y \in Prices, NEW c \in Colors,
           NEW g \in Nodes, g = f.parent[z], NEW s, s = Side(f, z), l # z, l # y, y # z,
           NEW v, v = Fresh(Paint(SetParent(SetChild(Transplant(f, z, y), y, "left", l), l, y), y, c), z, "black")
    PROVE  Lifted(f, v, z, l, y, c, g, s)
<1> DEFINE a == Transplant(f, z, y)
           b == SetChild(a, y, "left", l)
           h == SetParent(b, l, y)
           k == Paint(h, y, c)
<1>1. y \in Nodes /\ l \in Nodes /\ z \in Nodes /\ y # Nil /\ z # Nil /\ "left" \in Sides
  BY PricesAssumption DEF Nodes, Sides
<1>2. /\ a \in Trees /\ a.root = (IF g = Nil THEN y ELSE f.root) /\ a.color = f.color /\ a.child[Nil] = f.child[Nil]
      /\ \A m \in Nodes : a.parent[m] = IF m = y THEN g ELSE f.parent[m]
      /\ \A m \in Prices, e \in Sides : a.child[m][e] = IF m = g /\ e = s THEN y ELSE f.child[m][e]
  BY <1>1, TransplantReads
<1> HIDE DEF a
<1>3. ChildSet(a, b, y, "left", l)
  BY <1>1, <1>2, SetChildReads
<1>4. b \in Trees
  BY <1>3 DEF ChildSet
<1> HIDE DEF b
<1>5. ParentSet(b, h, l, y)
  BY <1>1, <1>4, SetParentReads
<1>6. h \in Trees
  BY <1>5 DEF ParentSet
<1> HIDE DEF h
<1>7. Painted(h, k, y, c)
  BY <1>1, <1>6, PaintReads
<1>8. k \in Trees /\ v = Fresh(k, z, "black")
  BY <1>7 DEF Painted, h, b, a
<1> HIDE DEF k
<1>9. Freshened(k, v, z, "black")
  BY <1>1, <1>8, FreshReads DEF Colors
<1>10. v \in Trees /\ v.root = IF g = Nil THEN y ELSE f.root
  BY <1>2, <1>3, <1>5, <1>7, <1>9 DEF ChildSet, ParentSet, Painted, Freshened
<1>11. k.child = b.child /\ k.parent = h.parent /\ h.color = f.color /\ b.parent = a.parent
  BY <1>2, <1>3, <1>5, <1>7 DEF ChildSet, ParentSet, Painted
<1>12. v.child[Nil] = f.child[Nil]
  <2>1. v.child[Nil] = k.child[Nil] /\ b.child[Nil] = a.child[Nil]
    BY <1>1, <1>3, <1>9 DEF ChildSet, Freshened, Nodes
  <2> QED
    BY <1>2, <1>11, <2>1
<1>13. ASSUME NEW m \in Nodes
       PROVE  v.color[m] = IF m = z THEN "black" ELSE IF m = y THEN c ELSE f.color[m]
  BY <1>7, <1>9, <1>11 DEF Painted, Freshened
<1>14. ASSUME NEW m \in Nodes
       PROVE  v.parent[m] = IF m = z THEN Nil ELSE IF m = l THEN y ELSE IF m = y THEN g ELSE f.parent[m]
  <2>1. v.parent[m] = IF m = z THEN Nil ELSE h.parent[m]
    BY <1>9, <1>11 DEF Freshened
  <2>2. h.parent[m] = IF m = l THEN y ELSE a.parent[m]
    BY <1>5, <1>11 DEF ParentSet
  <2> QED
    BY <1>2, <2>1, <2>2
<1>15. ASSUME NEW m \in Prices, NEW e \in Sides
       PROVE  v.child[m][e] = IF m = z THEN Nil ELSE IF m = y /\ e = "left" THEN l
                              ELSE IF m = g /\ e = s THEN y ELSE f.child[m][e]
  <2>1. m \in Nodes
    BY DEF Nodes
  <2>2. CASE m = z
    BY <1>9, <2>2 DEF Freshened
  <2>3. CASE m # z
    <3>1. v.child[m][e] = b.child[m][e]
      BY <1>9, <1>11, <2>1, <2>3 DEF Freshened
    <3>2. b.child[m][e] = IF m = y /\ e = "left" THEN l ELSE a.child[m][e]
      BY <1>3, <2>1 DEF ChildSet
    <3> QED
      BY <1>2, <2>3, <3>1, <3>2
  <2> QED
    BY <2>2, <2>3
<1> QED
  BY <1>10, <1>12, <1>13, <1>14, <1>15 DEF Lifted

LEMMA HeirIsInStead ==
    ASSUME NEW t, NEW sub, Shape(t, sub), NEW z \in sub[t.root],
           NEW l, NEW r, NEW y, NEW x, NEW p, NEW g, Heir(t, sub, z, l, r, y, x, p, g),
           NEW u, Spliced(t, u, y, x, p, Side(t, y)), NEW f, Freed(t, f, z, r, y, x, p, Side(t, y)),
           NEW v, Lifted(f, v, z, l, y, t.color[z], g, Side(f, z))
    PROVE  InStead(u, v, z, y, x)
<1> DEFINE s == Side(t, y)
           h == Side(f, z)
<1>d. s = Side(t, y) /\ h = Side(f, z)
  OBVIOUS
<1>1. /\ Typed(t) /\ t \in Trees /\ t.root \in Nodes /\ s \in Sides /\ "left" \in Sides /\ "right" \in Sides
  BY SideIsSide DEF Shape, Typed, Trees, Sides
<1> HIDE DEF s, h
<1>2. /\ z \in Prices /\ l \in Prices /\ r \in Prices /\ y \in Prices /\ p \in Prices
      /\ x \in Nodes /\ g \in Nodes
      /\ l = t.child[z]["left"] /\ r = t.child[z]["right"] /\ x = t.child[y]["right"]
      /\ t.child[y]["left"] = Nil /\ p = t.parent[y] /\ g = t.parent[z]
      /\ t.parent[l] = z /\ t.parent[r] = z
      /\ l # r /\ l # z /\ r # z /\ y # z /\ y # l /\ p # y
      /\ x # z /\ x # l /\ x # y /\ x # r
      /\ g # z /\ g # y /\ g # p
      /\ (p = z <=> r = y) /\ (p = z => s = "right")
      /\ y \in Nodes /\ z \in Nodes /\ p # Nil /\ y # Nil /\ z # Nil /\ Nil \in Nodes
  BY <1>d, PricesAssumption DEF Heir, Nodes
<1>3. /\ u.root = t.root
      /\ \A m \in Nodes : u.color[m] = IF m = y THEN "black" ELSE t.color[m]
      /\ \A m \in Nodes : u.parent[m] = IF m = y THEN Nil ELSE IF m = x THEN p ELSE t.parent[m]
      /\ \A m \in Prices, e \in Sides : u.child[m][e] =
            IF m = y THEN Nil ELSE IF m = p /\ e = s THEN x ELSE t.child[m][e]
      /\ u.child[Nil] = t.child[Nil]
  BY <1>2, <1>d DEF Spliced
<1>4. /\ f.root = t.root /\ f.color = t.color /\ f.child[Nil] = t.child[Nil]
      /\ \A m \in Prices, e \in Sides : f.child[m][e] =
            IF p # z /\ m = p /\ e = s THEN x
            ELSE IF p # z /\ m = y /\ e = "right" THEN r ELSE t.child[m][e]
      /\ \A m \in Nodes : f.parent[m] =
            IF m = x THEN (IF p = z THEN y ELSE p) ELSE IF p # z /\ m = r THEN y ELSE t.parent[m]
  BY <1>d DEF Freed
<1>5. /\ v \in Trees /\ v.root = (IF g = Nil THEN y ELSE f.root) /\ v.child[Nil] = f.child[Nil]
      /\ \A m \in Nodes : v.color[m] = IF m = z THEN "black" ELSE IF m = y THEN t.color[z] ELSE f.color[m]
      /\ \A m \in Nodes : v.parent[m] =
            IF m = z THEN Nil ELSE IF m = l THEN y ELSE IF m = y THEN g ELSE f.parent[m]
      /\ \A m \in Prices, e \in Sides : v.child[m][e] =
            IF m = z THEN Nil ELSE IF m = y /\ e = "left" THEN l
            ELSE IF m = g /\ e = h THEN y ELSE f.child[m][e]
  BY <1>d DEF Lifted
<1>6. \A m \in Prices, e \in Sides : t.child[m][e] = z <=> m = g /\ e = Side(t, z)
  BY <1>2, OnlyPlace
<1>7. g # Nil => h = Side(t, z)
  <2>1. ASSUME g # Nil PROVE f.parent[z] = g /\ f.child[g]["left"] = t.child[g]["left"]
    <3>1. g \in Prices
      BY <1>2, <2>1 DEF Nodes
    <3>2. f.parent[z] = g
      BY <1>2, <1>4
    <3> QED
      BY <1>1, <1>2, <1>4, <3>1, <3>2
  <2> QED
    BY <1>2, <1>d, <2>1 DEF Side, Left
<1>8. v.root = As(z, y, u.root)
  <2>1. g = Nil <=> z = t.root
    BY <1>2, ParentFacts
  <2> QED
    BY <1>3, <1>4, <1>5, <2>1 DEF As
<1>9. \A m \in Nodes : v.color[m] = IF m = y THEN u.color[z] ELSE IF m = z THEN "black" ELSE u.color[m]
  BY <1>2, <1>3, <1>4, <1>5
<1>10. v.parent[y] = u.parent[z] /\ v.parent[z] = Nil
  <2>1. v.parent[y] = g /\ v.parent[z] = Nil
    BY <1>2, <1>5
  <2>2. u.parent[z] = g
    BY <1>2, <1>3
  <2> QED
    BY <2>1, <2>2
<1>11. ASSUME NEW m \in Prices \cup {x}, m # y, m # z PROVE v.parent[m] = As(z, y, u.parent[m])
  <2>1. m \in Nodes
    BY <1>2 DEF Nodes
  <2>2. v.parent[m] = IF m = l THEN y ELSE IF m = x THEN (IF p = z THEN y ELSE p)
                      ELSE IF p # z /\ m = r THEN y ELSE t.parent[m]
    BY <1>4, <1>5, <1>11, <2>1
  <2>3. u.parent[m] = IF m = x THEN p ELSE t.parent[m]
    BY <1>3, <1>11, <2>1
  <2>4. CASE m = l \/ m = x \/ m = r
    BY <1>2, <1>11, <2>2, <2>3, <2>4 DEF As
  <2>5. CASE m # l /\ m # x /\ m # r
    <3>1. m \in Prices
      BY <2>5
    <3>2. ASSUME t.parent[m] = z PROVE FALSE
      <4>1. t.child[z][Side(t, m)] = m /\ Side(t, m) \in Sides
        BY <1>2, <3>1, <3>2, ParentFacts
      <4> QED
        BY <1>2, <2>5, <4>1 DEF Sides
    <3> QED
      BY <2>2, <2>3, <2>5, <3>2 DEF As
  <2> QED
    BY <2>4, <2>5
<1>12. ASSUME NEW e \in Sides PROVE v.child[y][e] = u.child[z][e] /\ v.child[z][e] = Nil
  <2>1. v.child[z][e] = Nil
    BY <1>2, <1>5
  <2>2. u.child[z][e] = IF z = p /\ e = s THEN x ELSE t.child[z][e]
    BY <1>2, <1>3
  <2>3. v.child[y][e] = IF e = "left" THEN l ELSE f.child[y][e]
    BY <1>2, <1>5
  <2>4. f.child[y][e] = IF p # z /\ e = "right" THEN r ELSE t.child[y][e]
    BY <1>2, <1>4
  <2>5. CASE e = "left"
    BY <1>2, <2>1, <2>2, <2>3, <2>5
  <2>6. CASE e = "right"
    BY <1>2, <2>1, <2>2, <2>3, <2>4, <2>6
  <2> QED
    BY <2>5, <2>6 DEF Sides
<1>13. ASSUME NEW m \in Prices, NEW e \in Sides, m # y, m # z PROVE v.child[m][e] = As(z, y, u.child[m][e])
  <2>1. u.child[m][e] = IF m = p /\ e = s THEN x ELSE t.child[m][e]
    BY <1>3, <1>13
  <2>2. f.child[m][e] = IF m = p /\ e = s THEN x ELSE t.child[m][e]
    BY <1>4, <1>13
  <2>3. v.child[m][e] = IF m = g /\ e = h THEN y ELSE f.child[m][e]
    BY <1>5, <1>13
  <2>4. CASE m = g
    <3>1. g # Nil /\ g # p
      BY <1>2, <2>4, PricesAssumption
    <3>2. t.child[m][e] = z <=> e = h
      BY <1>6, <1>7, <2>4, <3>1
    <3> QED
      BY <2>1, <2>2, <2>3, <2>4, <3>1, <3>2 DEF As
  <2>5. CASE m # g
    <3>1. t.child[m][e] # z
      BY <1>6, <2>5
    <3> QED
      BY <1>2, <2>1, <2>2, <2>3, <2>5, <3>1 DEF As
  <2> QED
    BY <2>4, <2>5
<1>14. v.child[Nil] = u.child[Nil]
  BY <1>3, <1>4, <1>5
<1> QED
  BY <1>5, <1>8, <1>9, <1>10, <1>11, <1>12, <1>13, <1>14 DEF InStead

\* A price below a child of a node is also below that node's child before y
\* was taken out.
LEMMA SplicedBelow ==
    ASSUME NEW t, NEW sub, Shape(t, sub), NEW y, NEW x, NEW p, NEW s, Single(t, sub, y, x, "right", p, s),
           NEW u, Spliced(t, u, y, x, p, s), NEW n \in Prices, n # y, NEW e \in Sides,
           NEW m, m \in Without(sub, y)[u.child[n][e]]
    PROVE  m \in sub[t.child[n][e]] /\ m # y
<1>1. /\ Typed(t) /\ Spans(t, sub) /\ y \in Prices /\ x \in Nodes /\ p \in Nodes /\ x # y /\ y \in Nodes
      /\ x # Nil => x \in sub[y]
      /\ p # Nil => t.child[p][s] = y
      /\ n # Nil /\ sub[Nil] = {} /\ Nil # y
  BY PricesAssumption DEF Shape, Single, Nodes, Spans
<1>2. u.child[n][e] = IF n = p /\ e = s THEN x ELSE t.child[n][e]
  BY DEF Spliced
<1>3. t.child[n][e] \in Nodes
  BY <1>1 DEF Typed
<1>4. CASE n = p /\ e = s
  <2>1. m \in sub[x] \ {y}
    BY <1>1, <1>2, <1>4 DEF Without
  <2>2. x # Nil
    BY <1>1, <2>1
  <2>3. sub[x] \subseteq sub[y]
    BY <1>1, <2>2, Transitive
  <2> QED
    BY <1>1, <1>4, <2>1, <2>3
<1>5. CASE ~(n = p /\ e = s)
  <2>1. t.child[n][e] # y
    BY <1>1, <1>5, OnlyPlace DEF Single
  <2>2. m \in sub[t.child[n][e]] \ {y}
    BY <1>1, <1>2, <1>3, <1>5, <2>1 DEF Without
  <2> QED
    BY <2>2
<1> QED
  BY <1>4, <1>5

LEMMA HeirFits ==
    ASSUME NEW t, NEW sub, Shape(t, sub), NEW z \in sub[t.root],
           NEW l, NEW r, NEW y, NEW x, NEW p, NEW g, Heir(t, sub, z, l, r, y, x, p, g),
           Single(t, sub, y, x, "right", p, Side(t, y)),
           NEW u, Spliced(t, u, y, x, p, Side(t, y))
    PROVE  Garbage(u, Without(sub, y), z, y, x) /\ Fits(u, Without(sub, y), z, y)
<1>1. /\ Typed(t) /\ Spans(t, sub) /\ "left" \in Sides /\ "right" \in Sides /\ sub[Nil] = {}
      /\ sub \in [Nodes -> SUBSET Prices]
  BY DEF Shape, Spans, Sides
<1>2. /\ z \in Prices /\ l \in Prices /\ r \in Prices /\ y \in Prices /\ x \in Nodes /\ y # z /\ y # Nil
      /\ l = t.child[z]["left"] /\ r = t.child[z]["right"] /\ x # y /\ x # z
      /\ y \in sub[r] /\ y \in sub[z] /\ Outermost("left", sub[r], y) /\ Nil \in Nodes /\ y \in Nodes
  BY PricesAssumption DEF Heir, Nodes
<1>3. Shape(u, Without(sub, y)) /\ Without(sub, y)[u.root] = sub[t.root] \ {y}
  BY SpliceShape
<1>4. u.color[y] = "black" /\ \A e \in Sides : u.child[y][e] = Nil
  BY <1>2 DEF Spliced
<1>5. Garbage(u, Without(sub, y), z, y, x)
  BY <1>2, <1>3, <1>4 DEF Garbage
<1>6. ASSUME NEW e \in Sides, NEW m \in Without(sub, y)[u.child[z][e]] PROVE Beyond(e, m, y)
  <2>1. m \in sub[t.child[z][e]] /\ m # y
    BY <1>2, SplicedBelow
  <2>2. m \in Prices /\ Beyond(e, m, z)
    <3>1. t.child[z][e] \in Nodes
      BY <1>1, <1>2 DEF Typed
    <3> QED
      BY <1>1, <1>2, <2>1, <3>1 DEF Spans
  <2>3. CASE e = "left"
    <3>1. Beyond("right", y, z)
      BY <1>1, <1>2 DEF Spans
    <3> QED
      BY <1>2, <2>2, <2>3, <3>1, PricesAssumption DEF Beyond
  <2>4. CASE e = "right"
    BY <1>2, <2>1, <2>2, <2>4, PricesAssumption DEF Beyond, Outermost
  <2> QED
    BY <2>3, <2>4 DEF Sides
<1>7. ASSUME NEW n \in Prices, NEW e \in Sides, z \in Without(sub, y)[u.child[n][e]] PROVE Beyond(e, y, n)
  <2>1. n # y
    <3>1. ASSUME n = y PROVE FALSE
      <4>1. z \in Without(sub, y)[Nil]
        BY <1>4, <1>7, <3>1
      <4> QED
        BY <1>1, <1>2, <4>1 DEF Without
    <3> QED
      BY <3>1
  <2>2. z \in sub[t.child[n][e]]
    BY <1>7, <2>1, SplicedBelow
  <2>3. t.child[n][e] \in Prices
    BY <1>1, <2>2 DEF Typed, Nodes
  <2>4. sub[z] \subseteq sub[t.child[n][e]]
    BY <1>1, <2>2, <2>3, Transitive
  <2>5. y \in sub[t.child[n][e]]
    BY <1>2, <2>4
  <2> QED
    BY <1>1, <2>5 DEF Spans
<1>8. Fits(u, Without(sub, y), z, y)
  BY <1>6, <1>7 DEF Fits
<1> QED
  BY <1>5, <1>8

\* deleteNode leaves a red-black tree without z, or one whose paths through
\* the node that moved up lack a black node.
LEMMA DetachStep ==
    ASSUME NEW t, NEW sub, NEW bh, Rest(t, sub, bh), NEW z \in sub[t.root],
           NEW D, D = Detach(t, z), NEW v, v = Fresh(D.tree, z, "black")
    PROVE  \E sub2, bh2 :
              /\ sub2[v.root] = sub[t.root] \ {z}
              /\ D.color = "black" => Deleting(v, D.up, sub2, bh2)
              /\ D.color # "black" => Rest(v, sub2, bh2)
<1> DEFINE l == Left(t, z)
           r == Right(t, z)
           y == Minimum(t, r)
           x == Right(t, y)
           p == t.parent[y]
           g == t.parent[z]
           f == IF p = z THEN SetParent(t, x, y)
                ELSE SetParent(SetChild(Transplant(t, y, x), y, "right", r), r, y)
           moved == SetChild(Transplant(f, z, y), y, "left", l)
<1>1. /\ Shape(t, sub) /\ Typed(t) /\ Spans(t, sub) /\ t \in Trees /\ t.root \in Nodes
      /\ sub \in [Nodes -> SUBSET Prices] /\ "left" \in Sides /\ "right" \in Sides
      /\ Other("left") = "right" /\ Other("right") = "left"
  BY DEF Rest, Shape, Typed, Trees, Spans, Sides, Other
<1>2. z \in Prices /\ z \in Nodes /\ g \in Nodes /\ l \in Nodes /\ r \in Nodes
  BY <1>1 DEF Typed, Nodes, Left, Right
<1>d. /\ l = Left(t, z) /\ r = Right(t, z) /\ y = Minimum(t, r) /\ x = Right(t, y) /\ p = t.parent[y]
      /\ g = t.parent[z] /\ l = t.child[z]["left"] /\ r = t.child[z]["right"] /\ x = t.child[y]["right"]
      /\ f = IF p = z THEN SetParent(t, x, y)
             ELSE SetParent(SetChild(Transplant(t, y, x), y, "right", r), r, y)
      /\ moved = SetChild(Transplant(f, z, y), y, "left", l)
  BY DEF Left, Right
<1>3. D = CASE l = Nil -> [tree |-> Transplant(t, z, r), up |-> r, color |-> t.color[z]]
            [] l # Nil /\ r = Nil -> [tree |-> Transplant(t, z, l), up |-> l, color |-> t.color[z]]
            [] OTHER ->
                 [tree |-> Paint(SetParent(moved, l, y), y, t.color[z]), up |-> x, color |-> t.color[y]]
  BY DEF Detach
<1> HIDE DEF l, r, y, x, p, g, f, moved
<1>4. ASSUME NEW c, NEW d \in Sides, c = t.child[z][d], t.child[z][Other(d)] = Nil,
             D.tree = Transplant(t, z, c), D.up = c, D.color = t.color[z]
      PROVE  \E sub2, bh2 :
                /\ sub2[v.root] = sub[t.root] \ {z}
                /\ D.color = "black" => Deleting(v, D.up, sub2, bh2)
                /\ D.color # "black" => Rest(v, sub2, bh2)
  <2>1. Single(t, sub, z, c, d, g, Side(t, z))
    BY <1>1, <1>4, <1>d, SingleFacts
  <2>2. c \in Nodes /\ c # z
    BY <2>1 DEF Single
  <2>3. Spliced(t, v, z, c, g, Side(t, z))
    BY <1>1, <1>2, <1>4, <1>d, <2>2, SpliceReads
  <2>4. /\ t.color[z] # "black" => \E new : Rest(v, Without(sub, z), new)
        /\ t.color[z] = "black" => \E new : Deleting(v, c, Without(sub, z), new)
        /\ Without(sub, z)[v.root] = sub[t.root] \ {z}
    BY <2>1, <2>3, SpliceStep
  <2> QED
    BY <1>4, <2>4
<1>5. CASE l = Nil
  <2>1. D = [tree |-> Transplant(t, z, r), up |-> r, color |-> t.color[z]]
    BY <1>3, <1>5
  <2> QED
    BY <1>1, <1>4, <1>5, <1>d, <2>1
<1>6. CASE l # Nil /\ r = Nil
  <2>1. D = [tree |-> Transplant(t, z, l), up |-> l, color |-> t.color[z]]
    BY <1>3, <1>6
  <2> QED
    BY <1>1, <1>4, <1>6, <1>d, <2>1
<1>7. CASE l # Nil /\ r # Nil
  <2> DEFINE u == Fresh(Transplant(t, y, x), y, "black")
             w == Without(sub, y)
  <2>d. u = Fresh(Transplant(t, y, x), y, "black") /\ w = Without(sub, y)
    OBVIOUS
  <2> HIDE DEF u, w
  <2>1. D = [tree |-> Paint(SetParent(moved, l, y), y, t.color[z]), up |-> x, color |-> t.color[y]]
    BY <1>3, <1>7
  <2>2. v = Fresh(Paint(SetParent(moved, l, y), y, t.color[z]), z, "black") /\ D.up = x /\ D.color = t.color[y]
    BY <2>1
  <2>3. Heir(t, sub, z, l, r, y, x, p, g)
    BY <1>1, <1>7, <1>d, HeirFacts
  <2>4. /\ l \in Prices /\ r \in Prices /\ y \in Prices /\ p \in Prices /\ x \in Nodes
        /\ t.child[y]["left"] = Nil /\ y \in sub[t.root] /\ g # y /\ x # z /\ r # z
        /\ x # r /\ x # y /\ p # y /\ l # z /\ l # y /\ y # z /\ p \in Nodes
    BY <2>3 DEF Heir, Nodes
  <2>5. Single(t, sub, y, x, "right", p, Side(t, y))
    BY <1>1, <1>d, <2>4, SingleFacts
  <2>6. Spliced(t, u, y, x, p, Side(t, y))
    BY <1>1, <1>d, <2>d, <2>4, SpliceReads
  <2>7. Freed(t, f, z, r, y, x, p, Side(t, y))
    BY Zenon, <1>1, <1>2, <1>d, <2>4, FreedReads
  <2>8. f \in Trees /\ f.parent[z] = g
    BY Zenon, <1>2, <1>d, <2>4, <2>7 DEF Freed
  <2>9. t.color[z] \in Colors
    BY <1>1, <1>2 DEF Trees
  <2>10. v = Fresh(Paint(SetParent(SetChild(Transplant(f, z, y), y, "left", l), l, y), y, t.color[z]), z, "black")
    BY <1>d, <2>2
  <2>11. Lifted(f, v, z, l, y, t.color[z], g, Side(f, z))
    BY <1>2, <2>4, <2>8, <2>9, <2>10, LiftedReads
  <2>12. InStead(u, v, z, y, x)
    BY <1>1, <2>3, <2>6, <2>7, <2>11, HeirIsInStead
  <2>13. Garbage(u, w, z, y, x) /\ Fits(u, w, z, y)
    BY <1>1, <2>3, <2>5, <2>6, <2>d, HeirFits
  <2>14. /\ t.color[y] # "black" => \E new : Rest(u, w, new)
         /\ t.color[y] = "black" => \E new : Deleting(u, x, w, new)
         /\ w[u.root] = sub[t.root] \ {y}
    BY <2>5, <2>6, <2>d, SpliceStep
  <2>15. Renamed(w, z, y)[v.root] = sub[t.root] \ {z}
    <3>1. Renamed(w, z, y)[v.root] = (w[u.root] \ {z}) \cup {y}
      BY <2>12, <2>13, InSteadShape
    <3> QED
      BY <2>4, <2>14, <3>1
  <2>16. CASE t.color[y] = "black"
    <3>1. PICK new : Deleting(u, x, w, new)
      BY <2>14, <2>16
    <3>2. Deleting(v, x, Renamed(w, z, y), Traded(new, z, y))
      BY <2>12, <2>13, <3>1, InSteadStep
    <3> QED
      BY <2>2, <2>15, <2>16, <3>2
  <2>17. CASE t.color[y] # "black"
    <3>1. PICK new : Rest(u, w, new)
      BY <2>14, <2>17
    <3>2. Rest(v, Renamed(w, z, y), Traded(new, z, y))
      BY <2>12, <2>13, <3>1, InSteadStep
    <3> QED
      BY <2>2, <2>15, <2>17, <3>2
  <2> QED
    BY <2>16, <2>17
<1> QED
  BY <1>5, <1>6, <1>7

-----------------------------------------------------------------------------
(* The invariant: the tree is in one of the three phases.                   *)

Phase(t, f, a, sub, bh) ==
    /\ f \in {"no", "insert", "delete"}
    /\ f = "no" => Rest(t, sub, bh) /\ a = Nil
    /\ f = "insert" => Inserting(t, a, sub, bh)
    /\ f = "delete" => Deleting(t, a, sub, bh)

Inv == \E sub, bh : Phase(tree, fixing, at, sub, bh)

\* what a step may do to the keys
Kept(S, T) == T = S \/ \E p \in Prices : (p \notin S /\ T = S \cup {p}) \/ (p \in S /\ T = S \ {p})

LEMMA PhaseShape ==
    ASSUME NEW t, NEW f, NEW a, NEW sub, NEW bh, Phase(t, f, a, sub, bh)
    PROVE  /\ Shape(t, sub) /\ t.color[Nil] = "black" /\ a \in Nodes
           /\ Typed(t) /\ Spans(t, sub) /\ Links(t, sub) /\ t.root \in Nodes
           /\ sub \in [Nodes -> SUBSET Prices] /\ sub[t.root] \subseteq Prices
<1>1. Shape(t, sub) /\ t.color[Nil] = "black"
  BY DEF Phase, Rest, Inserting, Deleting
<1>2. Typed(t) /\ Spans(t, sub) /\ Links(t, sub) /\ t.root \in Nodes /\ sub \in [Nodes -> SUBSET Prices]
  BY <1>1 DEF Shape, Typed, Trees, Spans
<1>3. sub[t.root] \subseteq Prices
  BY <1>2
<1>4. a = Nil \/ a \in sub[t.root]
  BY DEF Phase, Inserting, Deleting
<1> QED
  BY <1>1, <1>2, <1>3, <1>4 DEF Nodes

LEMMA InitHolds ==
    ASSUME Init
    PROVE  \E sub, bh : Phase(tree, fixing, at, sub, bh) /\ sub[tree.root] = {}
<1> DEFINE sub == [n \in Nodes |-> IF n = Nil THEN {} ELSE {n}]
           bh == [n \in Nodes |-> IF n = Nil THEN 0 ELSE 1]
<1>1. /\ tree.root = Nil /\ Nil \in Nodes /\ Prices \subseteq Nodes /\ Nil \notin Prices
      /\ tree.color \in [Nodes -> Colors] /\ \A n \in Nodes : tree.color[n] = "black"
      /\ tree.parent \in [Nodes -> Nodes \cup {Null}] /\ \A n \in Prices : tree.parent[n] = Nil
      /\ \A n \in Prices : tree.child[n] = Leaf
      /\ tree.child[Nil] = Behind
  BY PricesAssumption DEF Init, Nodes, Colors
<1>2. Leaf \in [Sides -> Nodes \cup {Null}] /\ Behind \in [Sides -> Nodes \cup {Null}]
      /\ \A d \in Sides : Leaf[d] = Nil
  BY <1>1 DEF Leaf, Behind
<1>3. tree \in Trees
  <2>1. tree.child \in [Nodes -> [Sides -> Nodes \cup {Null}]]
    BY <1>2 DEF Init
  <2>2. tree = [root |-> tree.root, color |-> tree.color, child |-> tree.child, parent |-> tree.parent]
    BY DEF Init
  <2> QED
    BY <1>1, <2>1, <2>2 DEF Trees
<1>4. \A n \in Prices, d \in Sides : tree.child[n][d] = Nil
  BY <1>1, <1>2
<1>5. Typed(tree)
  BY <1>1, <1>3, <1>4 DEF Typed
<1>6. /\ sub \in [Nodes -> SUBSET Prices] /\ sub[Nil] = {} /\ \A n \in Prices : sub[n] = {n}
  BY <1>1 DEF Nodes
<1>7. bh \in [Nodes -> Nat] /\ bh[Nil] = 0 /\ \A n \in Prices : bh[n] = 1
  BY <1>1
<1> HIDE DEF sub, bh
<1>8. Spans(tree, sub)
  <2>1. \A n \in Prices : IsFiniteSet(sub[n])
    BY <1>6, FS_Singleton
  <2>2. \A n \in Prices, m \in Prices :
           m \in sub[n] <=> m = n \/ \E d \in Sides : m \in sub[tree.child[n][d]]
    BY <1>4, <1>6
  <2>3. \A n \in Prices, d \in Sides : \A m \in sub[tree.child[n][d]] : Beyond(d, m, n)
    BY <1>4, <1>6
  <2> QED
    BY <1>6, <2>1, <2>2, <2>3 DEF Spans
<1>9. Links(tree, sub)
  BY <1>1, <1>4 DEF Links
<1>10. Balanced(tree, bh, Nil, "left")
  <2>1. ASSUME NEW n \in Prices, NEW d \in Sides
        PROVE  bh[n] = bh[tree.child[n][d]] + Weight(tree, n) + (IF n = Nil /\ d = "left" THEN 1 ELSE 0)
    <3>1. n # Nil /\ bh[n] = 1 /\ tree.child[n][d] = Nil /\ tree.color[n] = "black"
      BY <1>1, <1>4, <1>7
    <3> QED
      BY <1>7, <3>1 DEF Weight
  <2> QED
    BY <1>7, <2>1 DEF Balanced
<1>11. NoRedRed(tree, Nil, Nil)
  BY <1>4 DEF NoRedRed
<1>12. Rest(tree, sub, bh)
  BY <1>1, <1>5, <1>8, <1>9, <1>10, <1>11 DEF Rest, Shape
<1>13. fixing = "no" /\ at = Nil
  BY DEF Init
<1>14. Phase(tree, fixing, at, sub, bh)
  BY <1>12, <1>13 DEF Phase
<1> QED
  BY <1>1, <1>6, <1>14

LEMMA InsertKeeps ==
    ASSUME NEW sub, NEW bh, Phase(tree, fixing, at, sub, bh), NEW z \in Prices, Insert(z)
    PROVE  \E sub2, bh2 : /\ Phase(tree', fixing', at', sub2, bh2)
                          /\ z \notin sub[tree.root] /\ sub2[tree'.root] = sub[tree.root] \cup {z}
<1>1. Rest(tree, sub, bh) /\ Typed(tree) /\ Spans(tree, sub)
  BY PhaseShape DEF Phase, Insert
<1>2. z \notin sub[tree.root]
  BY <1>1, SearchIs, PricesAssumption DEF Insert
<1>3. tree' = Attach(tree, z) /\ fixing' = "insert" /\ at' = z
  BY DEF Insert
<1>4. \E sub2, bh2 : Inserting(tree', z, sub2, bh2) /\ sub2[tree'.root] = sub[tree.root] \cup {z}
  BY <1>1, <1>2, <1>3, AttachStep
<1> QED
  BY <1>2, <1>3, <1>4 DEF Phase

LEMMA DeleteKeeps ==
    ASSUME NEW sub, NEW bh, Phase(tree, fixing, at, sub, bh), NEW z \in Prices, Delete(z)
    PROVE  \E sub2, bh2 : /\ Phase(tree', fixing', at', sub2, bh2)
                          /\ z \in sub[tree.root] /\ sub2[tree'.root] = sub[tree.root] \ {z}
<1>1. Rest(tree, sub, bh) /\ Typed(tree) /\ Spans(tree, sub)
  BY PhaseShape DEF Phase, Delete
<1>2. z \in sub[tree.root]
  BY <1>1, SearchIs, PricesAssumption DEF Delete
<1> DEFINE D == Detach(tree, z)
<1>3. /\ tree' = Fresh(D.tree, z, "black")
      /\ fixing' = IF D.color = "black" THEN "delete" ELSE "no"
      /\ at' = IF D.color = "black" THEN D.up ELSE Nil
  BY DEF Delete
<1>4. D = Detach(tree, z)
  OBVIOUS
<1> HIDE DEF D
<1>5. \E sub2, bh2 :
         /\ sub2[tree'.root] = sub[tree.root] \ {z}
         /\ D.color = "black" => Deleting(tree', D.up, sub2, bh2)
         /\ D.color # "black" => Rest(tree', sub2, bh2)
  BY <1>1, <1>2, <1>3, <1>4, DetachStep
<1>6. PICK sub2, bh2 :
         /\ sub2[tree'.root] = sub[tree.root] \ {z}
         /\ D.color = "black" => Deleting(tree', D.up, sub2, bh2)
         /\ D.color # "black" => Rest(tree', sub2, bh2)
  BY <1>5
<1>7. Phase(tree', fixing', at', sub2, bh2)
  BY <1>3, <1>6 DEF Phase
<1> QED
  BY <1>2, <1>6, <1>7

LEMMA InsertFixupKeeps ==
    ASSUME NEW sub, NEW bh, Phase(tree, fixing, at, sub, bh), InsertFixup
    PROVE  \E sub2, bh2 : Phase(tree', fixing', at', sub2, bh2) /\ sub2[tree'.root] = sub[tree.root]
<1>1. Inserting(tree, at, sub, bh) /\ tree.color[tree.parent[at]] = "red" /\ fixing' = "insert"
  BY DEF Phase, InsertFixup
<1>2. CASE tree.color[Uncle(tree, at)] = "red"
  <2>1. tree' = Repaint(tree, at) /\ at' = tree.parent[tree.parent[at]]
    BY <1>2 DEF InsertFixup
  <2>2. PICK new : Inserting(Repaint(tree, at), tree.parent[tree.parent[at]], sub, new)
                   /\ Repaint(tree, at).root = tree.root
    BY <1>1, <1>2, RepaintStep
  <2>3. Phase(tree', fixing', at', sub, new)
    BY <1>1, <2>1, <2>2 DEF Phase
  <2> QED
    BY <2>1, <2>2, <2>3
<1>3. CASE tree.color[Uncle(tree, at)] # "red"
  <2>1. /\ tree' = TurnUp(tree, at)
        /\ at' = IF Side(tree, at) # Side(tree, tree.parent[at]) THEN tree.parent[at] ELSE at
    BY <1>3 DEF InsertFixup
  <2>2. \E sub2, bh2 :
           /\ Inserting(TurnUp(tree, at), IF Side(tree, at) # Side(tree, tree.parent[at])
                                          THEN tree.parent[at] ELSE at, sub2, bh2)
           /\ sub2[TurnUp(tree, at).root] = sub[tree.root]
    BY <1>1, <1>3, TurnUpStep
  <2>3. PICK sub2, bh2 : Inserting(tree', at', sub2, bh2) /\ sub2[tree'.root] = sub[tree.root]
    BY <2>1, <2>2
  <2>4. Phase(tree', fixing', at', sub2, bh2)
    BY <1>1, <2>3 DEF Phase
  <2> QED
    BY <2>3, <2>4
<1> QED
  BY <1>2, <1>3

LEMMA DoneKeeps ==
    ASSUME NEW sub, NEW bh, Phase(tree, fixing, at, sub, bh), InsertDone \/ DeleteDone
    PROVE  \E sub2, bh2 : Phase(tree', fixing', at', sub2, bh2) /\ sub2[tree'.root] = sub[tree.root]
<1>1. fixing' = "no" /\ at' = Nil
  BY DEF InsertDone, DeleteDone
<1>2. \E new : Rest(tree', sub, new) /\ tree'.root = tree.root
  <2>1. CASE InsertDone
    <3>1. Inserting(tree, at, sub, bh) /\ tree.color[tree.parent[at]] = "black"
          /\ tree' = Paint(tree, tree.root, "black")
      BY <2>1 DEF Phase, InsertDone
    <3> QED
      BY <3>1, InsertDoneStep
  <2>2. CASE DeleteDone
    <3>1. Deleting(tree, at, sub, bh) /\ (at = tree.root \/ tree.color[at] = "red")
          /\ tree' = Paint(tree, at, "black")
      BY <2>2 DEF Phase, DeleteDone
    <3> QED
      BY <3>1, DeleteDoneStep
  <2> QED
    BY <2>1, <2>2
<1>3. PICK new : Rest(tree', sub, new) /\ tree'.root = tree.root
  BY <1>2
<1>4. Phase(tree', fixing', at', sub, new)
  BY <1>1, <1>3 DEF Phase
<1> QED
  BY <1>3, <1>4

LEMMA DeleteFixupKeeps ==
    ASSUME NEW sub, NEW bh, Phase(tree, fixing, at, sub, bh), DeleteFixup
    PROVE  \E sub2, bh2 : Phase(tree', fixing', at', sub2, bh2) /\ sub2[tree'.root] = sub[tree.root]
<1> DEFINE s == Turned(tree, at)
           w == Sibling(s, at)
<1>1. /\ Deleting(tree, at, sub, bh) /\ at # tree.root /\ tree.color[at] = "black" /\ fixing' = "delete"
      /\ s = Turned(tree, at) /\ w = Sibling(s, at)
  BY DEF Phase, DeleteFixup
<1>2. IF s.color[Left(s, w)] = "black" /\ s.color[Right(s, w)] = "black"
      THEN tree' = Paint(s, w, "red") /\ at' = s.parent[at]
      ELSE tree' = Absorb(s, at) /\ at' = tree'.root
  BY DEF DeleteFixup
<1> HIDE DEF s, w
<1>3. PICK sub2, bh2 : Deleting(tree', at', sub2, bh2) /\ sub2[tree'.root] = sub[tree.root]
  BY <1>1, <1>2, DeleteFixupStep
<1>4. Phase(tree', fixing', at', sub2, bh2)
  BY <1>1, <1>3 DEF Phase
<1> QED
  BY <1>3, <1>4

\* Every step keeps the invariant, and the keys but for one price.
LEMMA StepKeeps ==
    ASSUME NEW sub, NEW bh, Phase(tree, fixing, at, sub, bh), [Next]_vars
    PROVE  \E sub2, bh2 : Phase(tree', fixing', at', sub2, bh2) /\ Kept(sub[tree.root], sub2[tree'.root])
<1>1. ASSUME NEW z \in Prices, Insert(z)
      PROVE  \E sub2, bh2 : Phase(tree', fixing', at', sub2, bh2) /\ Kept(sub[tree.root], sub2[tree'.root])
  BY <1>1, InsertKeeps DEF Kept
<1>2. ASSUME NEW z \in Prices, Delete(z)
      PROVE  \E sub2, bh2 : Phase(tree', fixing', at', sub2, bh2) /\ Kept(sub[tree.root], sub2[tree'.root])
  BY <1>2, DeleteKeeps DEF Kept
<1>3. ASSUME Fixup
      PROVE  \E sub2, bh2 : Phase(tree', fixing', at', sub2, bh2) /\ Kept(sub[tree.root], sub2[tree'.root])
  BY <1>3, InsertFixupKeeps, DoneKeeps, DeleteFixupKeeps DEF Fixup, Kept
<1>4. ASSUME UNCHANGED vars
      PROVE  \E sub2, bh2 : Phase(tree', fixing', at', sub2, bh2) /\ Kept(sub[tree.root], sub2[tree'.root])
  BY <1>4 DEF vars, Kept
<1> QED
  BY <1>1, <1>2, <1>3, <1>4 DEF Next

-----------------------------------------------------------------------------
(* What the invariant says in the terms of the properties.                  *)

LEMMA KeysAre ==
    ASSUME NEW t, NEW sub, Shape(t, sub)
    PROVE  /\ Subtree(t, t.root) = sub[t.root]
           /\ \A n \in Prices : Subtree(t, Left(t, n)) = sub[Left(t, n)] /\ Subtree(t, Right(t, n)) = sub[Right(t, n)]
<1>1. Typed(t) /\ Spans(t, sub) /\ t.root \in Nodes /\ "left" \in Sides /\ "right" \in Sides
  BY DEF Shape, Typed, Trees, Sides
<1>2. \A n \in Prices : Left(t, n) \in Nodes /\ Right(t, n) \in Nodes
  BY <1>1 DEF Typed, Left, Right
<1> QED
  BY <1>1, <1>2, SubtreeIs

LEMMA PhaseTyped ==
    ASSUME NEW sub, NEW bh, Phase(tree, fixing, at, sub, bh)
    PROVE  TypeOK
<1>1. /\ Typed(tree) /\ at \in Nodes /\ tree \in Trees
      /\ \A n \in Prices : tree.child[n] \in [Sides -> Nodes \cup {Null}]
  <2>1. Typed(tree) /\ at \in Nodes
    BY PhaseShape
  <2>2. tree \in Trees /\ tree.child \in [Nodes -> [Sides -> Nodes \cup {Null}]]
    BY <2>1 DEF Typed, Trees
  <2> QED
    BY <2>1, <2>2 DEF Nodes
<1>2. \A n \in Prices : tree.child[n] \in [Sides -> Nodes] /\ tree.parent[n] \in Nodes
  <2>1. ASSUME NEW n \in Prices PROVE tree.child[n] \in [Sides -> Nodes]
    <3>1. \A d \in Sides : tree.child[n][d] \in Nodes
      BY <1>1 DEF Typed
    <3> QED
      BY <1>1, <3>1
  <2> QED
    BY <1>1, <2>1 DEF Typed
<1>3. fixing \in {"no", "insert", "delete"}
  BY DEF Phase
<1> QED
  BY <1>1, <1>2, <1>3 DEF TypeOK, Trees, Colors

LEMMA PhaseLinked ==
    ASSUME NEW sub, NEW bh, Phase(tree, fixing, at, sub, bh)
    PROVE  Linked
<1>1. /\ Typed(tree) /\ Links(tree, sub) /\ tree.color[Nil] = "black" /\ Keys = sub[tree.root]
      /\ sub[tree.root] \subseteq Prices
  BY PhaseShape, KeysAre DEF Keys
<1>2. ASSUME NEW n \in Keys, NEW d \in Sides, tree.child[n][d] # Nil
      PROVE  tree.child[n][d] \in Prices /\ tree.parent[tree.child[n][d]] = n
  <2>1. n \in Prices
    BY <1>1
  <2> QED
    BY <1>1, <1>2, <2>1 DEF Typed, Links, Nodes
<1>3. tree.root # Nil => tree.parent[tree.root] = Nil
  BY <1>1 DEF Links
<1>4. tree.child[Nil] = Behind
  BY <1>1 DEF Links
<1> QED
  BY <1>1, <1>2, <1>3, <1>4 DEF Linked

LEMMA PhaseOrdered ==
    ASSUME NEW sub, NEW bh, Phase(tree, fixing, at, sub, bh)
    PROVE  SearchOrder
<1>1. /\ Shape(tree, sub) /\ Spans(tree, sub) /\ Keys = sub[tree.root] /\ sub[tree.root] \subseteq Prices
  BY PhaseShape, KeysAre DEF Keys
<1>2. ASSUME NEW n \in Keys
      PROVE  /\ \A m \in Subtree(tree, Left(tree, n)) : m < n
             /\ \A m \in Subtree(tree, Right(tree, n)) : m > n
  <2>1. n \in Prices
    BY <1>1
  <2>2. Subtree(tree, Left(tree, n)) = sub[tree.child[n]["left"]]
        /\ Subtree(tree, Right(tree, n)) = sub[tree.child[n]["right"]]
    BY <1>1, <2>1, KeysAre DEF Left, Right
  <2>3. (\A m \in sub[tree.child[n]["left"]] : Beyond("left", m, n))
        /\ (\A m \in sub[tree.child[n]["right"]] : Beyond("right", m, n))
    BY <1>1, <2>1 DEF Spans, Sides
  <2> QED
    BY <2>2, <2>3 DEF Beyond
<1> QED
  BY <1>2 DEF SearchOrder

LEMMA PhaseBalanced ==
    ASSUME NEW sub, NEW bh, Phase(tree, fixing, at, sub, bh)
    PROVE  RedBlack
<1> SUFFICES ASSUME fixing = "no"
             PROVE  /\ tree.color[tree.root] = "black"
                    /\ \A n \in Keys : tree.color[n] = "red" =>
                          tree.color[Left(tree, n)] = "black" /\ tree.color[Right(tree, n)] = "black"
                    /\ Cardinality(BlackHeights(tree, tree.root)) = 1
  BY DEF RedBlack
<1>1. /\ Shape(tree, sub) /\ Typed(tree) /\ Spans(tree, sub) /\ tree.root \in Nodes
      /\ Keys = sub[tree.root] /\ sub[tree.root] \subseteq Prices
  BY PhaseShape, KeysAre DEF Keys
<1>2. /\ tree.color[Nil] = "black" /\ tree.color[tree.root] = "black"
      /\ Balanced(tree, bh, Nil, "left") /\ NoRedRed(tree, Nil, Nil)
  BY DEF Phase, Rest
<1>3. ASSUME NEW n \in Keys, tree.color[n] = "red"
      PROVE  tree.color[Left(tree, n)] = "black" /\ tree.color[Right(tree, n)] = "black"
  <2>1. n \in Prices /\ n # Nil
    BY <1>1, PricesAssumption
  <2>2. \A d \in Sides : tree.color[tree.child[n][d]] = "black"
    BY <1>2, <1>3, <2>1 DEF NoRedRed
  <2> QED
    BY <2>2 DEF Left, Right, Sides
<1>4. BlackHeights(tree, tree.root) = {bh[tree.root]}
  BY <1>1, <1>2, BlackHeightsIs
<1>5. Cardinality(BlackHeights(tree, tree.root)) = 1
  BY <1>4, FS_Singleton
<1> QED
  BY <1>2, <1>3, <1>5

LEMMA PhaseSafe ==
    ASSUME NEW sub, NEW bh, Phase(tree, fixing, at, sub, bh)
    PROVE  FixupIsSafe
<1>1. Shape(tree, sub) /\ Keys = sub[tree.root]
  BY PhaseShape, KeysAre DEF Keys
<1>2. ASSUME fixing = "delete", at # tree.root, tree.color[at] = "black"
      PROVE  /\ tree.parent[at] \in Keys
             /\ at \in {Left(tree, tree.parent[at]), Right(tree, tree.parent[at])}
             /\ Sibling(tree, at) # Nil /\ Sibling(Turned(tree, at), at) # Nil
  <2>1. Deleting(tree, at, sub, bh)
    BY <1>2 DEF Phase
  <2>2. Siblings(tree, at, sub, bh, tree.parent[at], Side(tree, at), Sibling(tree, at))
    BY <1>2, <2>1, DeleteSiblings DEF Sibling
  <2>3. tree.parent[at] \in Keys /\ Sibling(tree, at) # Nil
    BY <1>1, <2>2, PricesAssumption DEF Siblings
  <2>4. at = tree.child[tree.parent[at]][Side(tree, at)] /\ Side(tree, at) \in Sides
    BY <2>2 DEF Siblings
  <2>5. at \in {Left(tree, tree.parent[at]), Right(tree, tree.parent[at])}
    BY <2>4 DEF Left, Right, Sides
  <2> DEFINE s == Turned(tree, at)
  <2>6. s = Turned(tree, at)
    OBVIOUS
  <2> HIDE DEF s
  <2>7. \E sub1, bh1 : Siblings(s, at, sub1, bh1, s.parent[at], Side(s, at), Sibling(s, at))
    BY <1>2, <2>1, <2>6, TurnedSiblings
  <2>8. Sibling(s, at) # Nil
    BY <2>7, PricesAssumption DEF Siblings
  <2> QED
    BY <2>3, <2>5, <2>6, <2>8
<1>3. ASSUME fixing = "insert", tree.color[tree.parent[at]] = "red"
      PROVE  tree.parent[tree.parent[at]] \in Keys
  <2> DEFINE p == tree.parent[at]
             g == tree.parent[p]
             d == Side(tree, p)
             y == tree.child[g][Other(d)]
  <2>1. Inserting(tree, at, sub, bh)
    BY <1>3 DEF Phase
  <2>2. Family(tree, at, sub, p, g, d, y)
    BY <1>3, <2>1, InsertFamily
  <2> QED
    BY <1>1, <2>2 DEF Family
<1> QED
  BY <1>2, <1>3 DEF FixupIsSafe

\* The tree is always in one of the three phases (rbtree.go:40-349).
THEOREM Phases == Spec => []Inv
<1>1. Init => Inv
  BY InitHolds DEF Inv
<1>2. Inv /\ [Next]_vars => Inv'
  <2> SUFFICES ASSUME Inv, [Next]_vars PROVE Inv'
    OBVIOUS
  <2>1. PICK sub, bh : Phase(tree, fixing, at, sub, bh)
    BY DEF Inv
  <2>2. \E sub2, bh2 : Phase(tree', fixing', at', sub2, bh2)
    BY <2>1, StepKeeps
  <2> QED
    BY <2>2 DEF Inv
<1> QED
  BY <1>1, <1>2, PTL DEF Spec

\* The tree that inserts and deletes work on is a red-black tree: links agree,
\* a search finds every level, colors and black heights are right when the
\* mutex is free, and no loop reads behind the sentinel, for any set of prices
\* (rbtree.go:40-85, 140-349).
THEOREM StaysRedBlack == Spec => []IsRedBlackTree
<1>1. Inv => IsRedBlackTree
  BY PhaseTyped, PhaseLinked, PhaseOrdered, PhaseBalanced, PhaseSafe DEF Inv, IsRedBlackTree
<1> QED
  BY <1>1, Phases, PTL

-----------------------------------------------------------------------------
(* The refinement of PriceLevels.                                           *)

\* the price of S that is furthest on side d
Furthest(S, d) ==
    IF S = {} THEN Nil
    ELSE IF d = "left" THEN CHOOSE p \in S : \A q \in S : p <= q ELSE CHOOSE p \in S : \A q \in S : p >= q

LEMMA OutermostIsFurthest ==
    ASSUME NEW S \in SUBSET Prices, NEW d \in Sides, NEW k, Outermost(d, S, k)
    PROVE  k = Furthest(S, d)
<1>1. S # {} /\ k \in S /\ S \subseteq Int /\ \A j \in S : j = k \/ Beyond(d, k, j)
  BY PricesAssumption DEF Outermost
<1>2. CASE d = "left"
  <2>1. \A q \in S : k <= q
    BY <1>1, <1>2 DEF Beyond
  <2>2. \A j \in S : (\A q \in S : j <= q) => j = k
    BY <1>1, <2>1
  <2> DEFINE c == CHOOSE p \in S : \A q \in S : p <= q
  <2>3. c \in S /\ \A q \in S : c <= q
    BY <1>1, <2>1
  <2> HIDE DEF c
  <2>4. c = k
    BY <2>2, <2>3
  <2> QED
    BY <1>1, <1>2, <2>4 DEF Furthest, c
<1>3. CASE d = "right"
  <2>1. \A q \in S : k >= q
    BY <1>1, <1>3 DEF Beyond
  <2>2. \A j \in S : (\A q \in S : j >= q) => j = k
    BY <1>1, <2>1
  <2> DEFINE c == CHOOSE p \in S : \A q \in S : p >= q
  <2>3. c \in S /\ \A q \in S : c >= q
    BY <1>1, <2>1
  <2> HIDE DEF c
  <2>4. c = k
    BY <2>2, <2>3
  <2> QED
    BY <1>1, <1>3, <2>4 DEF Furthest, c
<1> QED
  BY <1>2, <1>3 DEF Sides

\* GetBest returns the best price of the tree.
LEMMA BestIs ==
    ASSUME NEW t, NEW sub, Shape(t, sub), NEW d \in Sides
    PROVE  (IF t.root = Nil THEN Nil ELSE Extreme(t, t.root, d)) = Furthest(sub[t.root], d)
<1>1. /\ Typed(t) /\ Spans(t, sub) /\ t.root \in Nodes /\ sub[Nil] = {}
      /\ sub \in [Nodes -> SUBSET Prices]
  BY DEF Shape, Typed, Trees, Spans
<1>2. CASE t.root = Nil
  BY <1>1, <1>2 DEF Furthest
<1>3. CASE t.root # Nil
  <2>1. t.root \in Prices
    BY <1>1, <1>3 DEF Nodes
  <2>2. Outermost(d, sub[t.root], Extreme(t, t.root, d))
    BY <1>1, <2>1, ExtremeIs
  <2>3. sub[t.root] \in SUBSET Prices
    BY <1>1
  <2> QED
    BY <1>3, <2>2, <2>3, OutermostIsFurthest
<1> QED
  BY <1>2, <1>3

LEMMA MapIs ==
    ASSUME NEW sub, NEW bh, Phase(tree, fixing, at, sub, bh)
    PROVE  /\ Keys = sub[tree.root]
           /\ GetBest(FALSE) = Furthest(sub[tree.root], "left")
           /\ GetBest(TRUE) = Furthest(sub[tree.root], "right")
<1>1. Shape(tree, sub) /\ "left" \in Sides /\ "right" \in Sides
  BY PhaseShape DEF Sides
<1>2. Keys = sub[tree.root]
  BY <1>1, KeysAre DEF Keys
<1>3. GetBest(FALSE) = Furthest(sub[tree.root], "left")
  BY <1>1, BestIs DEF GetBest
<1>4. GetBest(TRUE) = Furthest(sub[tree.root], "right")
  BY <1>1, BestIs DEF GetBest
<1> QED
  BY <1>2, <1>3, <1>4

LEMMA MapIsNext ==
    ASSUME NEW sub, NEW bh, Phase(tree', fixing', at', sub, bh)
    PROVE  /\ Keys' = sub[tree'.root]
           /\ GetBest(FALSE)' = Furthest(sub[tree'.root], "left")
           /\ GetBest(TRUE)' = Furthest(sub[tree'.root], "right")
<1>1. Shape(tree', sub) /\ "left" \in Sides /\ "right" \in Sides
  BY PhaseShape DEF Sides
<1>2. Keys' = sub[tree'.root]
  BY <1>1, KeysAre DEF Keys
<1>3. GetBest(FALSE)' = Furthest(sub[tree'.root], "left")
  BY <1>1, BestIs DEF GetBest
<1>4. GetBest(TRUE)' = Furthest(sub[tree'.root], "right")
  BY <1>1, BestIs DEF GetBest
<1> QED
  BY <1>2, <1>3, <1>4

\* The tree implements the set of prices of PriceLevels: an insert and a
\* delete change it by their price, a round of a loop does not change it, and
\* GetBest gives its ends at any time (rbtree.go:40-106, 154-302).
THEOREM ImplementsPriceLevels == Spec => HoldsTheLevels
<1>1. Init => ImplementsLevels!Init
  <2> SUFFICES ASSUME Init PROVE ImplementsLevels!Init
    OBVIOUS
  <2>1. PICK sub, bh : Phase(tree, fixing, at, sub, bh) /\ sub[tree.root] = {}
    BY InitHolds
  <2>2. Keys = {} /\ GetBest(FALSE) = Nil /\ GetBest(TRUE) = Nil
    BY <2>1, MapIs DEF Furthest
  <2> QED
    BY <2>2 DEF ImplementsLevels!Init
<1>2. Inv /\ [Next]_vars => [ImplementsLevels!Next]_ImplementsLevels!vars
  <2> SUFFICES ASSUME Inv, [Next]_vars PROVE [ImplementsLevels!Next]_ImplementsLevels!vars
    OBVIOUS
  <2>1. PICK sub, bh : Phase(tree, fixing, at, sub, bh)
    BY DEF Inv
  <2>2. PICK sub2, bh2 : Phase(tree', fixing', at', sub2, bh2) /\ Kept(sub[tree.root], sub2[tree'.root])
    BY <2>1, StepKeeps
  <2>3. /\ Keys = sub[tree.root] /\ GetBest(FALSE) = Furthest(Keys, "left")
        /\ GetBest(TRUE) = Furthest(Keys, "right")
    BY <2>1, MapIs
  <2>4. /\ Keys' = sub2[tree'.root] /\ GetBest(FALSE)' = Furthest(Keys', "left")
        /\ GetBest(TRUE)' = Furthest(Keys', "right")
    BY <2>2, MapIsNext
  <2>5. Kept(Keys, Keys')
    BY <2>2, <2>3, <2>4
  <2>6. CASE Keys' = Keys
    <3>1. GetBest(FALSE)' = GetBest(FALSE) /\ GetBest(TRUE)' = GetBest(TRUE)
      BY <2>3, <2>4, <2>6
    <3> QED
      BY Zenon, <2>6, <3>1 DEF ImplementsLevels!vars
  <2>7. ImplementsLevels!Reports
    BY <2>4 DEF ImplementsLevels!Reports, Furthest
  <2>8. ASSUME NEW p \in Prices, p \notin Keys, Keys' = Keys \cup {p} PROVE ImplementsLevels!Next
    BY <2>7, <2>8 DEF ImplementsLevels!Next, ImplementsLevels!Insert
  <2>9. ASSUME NEW p \in Prices, p \in Keys, Keys' = Keys \ {p} PROVE ImplementsLevels!Next
    BY <2>7, <2>9 DEF ImplementsLevels!Next, ImplementsLevels!Delete
  <2> QED
    BY <2>5, <2>6, <2>8, <2>9 DEF Kept
<1> QED
  BY <1>1, <1>2, Phases, PTL DEF Spec, HoldsTheLevels, ImplementsLevels!Spec

-----------------------------------------------------------------------------
(* What successor and predecessor return.                                   *)

\* k lies on one side of all prices below and at n
OneSide(sub, n, k) == \E d \in Sides : \A m \in sub[n] : Beyond(d, m, k)

\* The prices below a node are next to one another: any other price of the
\* tree has them all on one side.
LEMMA Apart ==
    ASSUME NEW t, NEW sub, Shape(t, sub)
    PROVE  \A n \in sub[t.root] : \A k \in sub[t.root] \ sub[n] : OneSide(sub, n, k)
<1> DEFINE S == {n \in sub[t.root] : \A k \in sub[t.root] \ sub[n] : OneSide(sub, n, k)}
<1>1. /\ Typed(t) /\ Spans(t, sub) /\ t.root \in Nodes /\ sub \in [Nodes -> SUBSET Prices]
      /\ sub[t.root] \subseteq Prices
  BY DEF Shape, Typed, Trees, Spans
<1>2. ASSUME NEW n \in sub[t.root], t.parent[n] # Nil => t.parent[n] \in S PROVE n \in S
  <2> SUFFICES ASSUME NEW k \in sub[t.root], k \notin sub[n] PROVE OneSide(sub, n, k)
    OBVIOUS
  <2> DEFINE p == t.parent[n]
             s == Side(t, n)
  <2>1. n \in Prices /\ k \in Prices /\ k # n
    <3>1. n \in Prices /\ k \in Prices
      BY <1>1
    <3> QED
      BY <1>1, <3>1, SpansFacts
  <2>2. p # Nil
    <3>1. ASSUME p = Nil PROVE FALSE
      <4>1. n = t.root
        BY <2>1, <3>1, ParentFacts
      <4> QED
        BY <4>1
    <3> QED
      BY <3>1
  <2>3. /\ p \in Prices /\ s \in Sides /\ t.child[p][s] = n
        /\ sub[n] \subseteq sub[p] /\ p \in S
    BY <1>2, <2>1, <2>2, ParentFacts
  <2> HIDE DEF p, s
  <2>4. CASE k \notin sub[p]
    <3>1. OneSide(sub, p, k)
      BY <2>3, <2>4
    <3> QED
      BY <2>3, <3>1 DEF OneSide
  <2>5. CASE k \in sub[p]
    <3>1. k = p \/ \E d \in Sides : k \in sub[t.child[p][d]]
      BY <1>1, <2>1, <2>3, <2>5 DEF Spans
    <3>2. \A m \in sub[n] : Beyond(s, m, p) /\ m \in Prices
      <4>1. sub[n] \subseteq Prices
        BY <1>1, <2>1, SpansFacts
      <4> QED
        BY <1>1, <2>3, <4>1 DEF Spans
    <3>3. CASE k = p
      BY <2>3, <3>2, <3>3 DEF OneSide
    <3>4. CASE k # p
      <4>1. PICK d \in Sides : k \in sub[t.child[p][d]]
        BY <3>1, <3>4
      <4>2. d = Other(s)
        BY <2>3, <4>1, SideFacts
      <4>3. Beyond(Other(s), k, p)
        BY <1>1, <2>3, <4>1, <4>2 DEF Spans
      <4>4. Beyond(s, p, k)
        BY <2>1, <2>3, <4>3, Order, SideFacts
      <4>5. \A m \in sub[n] : Beyond(s, m, k)
        BY <2>1, <2>3, <3>2, <4>4, Order
      <4> QED
        BY <2>3, <4>5 DEF OneSide
    <3> QED
      BY <3>3, <3>4
  <2> QED
    BY <2>4, <2>5
<1>3. \A n \in sub[t.root] : n \in S
  <2> HIDE DEF S
  <2> QED
    BY <1>2, TopDown
<1> QED
  BY <1>3

\* Two prices below a node are on the same side of any other one.
LEMMA SameSide ==
    ASSUME NEW t, NEW sub, Shape(t, sub), NEW n \in sub[t.root], NEW k \in sub[t.root], k \notin sub[n],
           NEW a \in sub[n], NEW b \in sub[n], NEW d \in Sides, Beyond(d, a, k)
    PROVE  Beyond(d, b, k)
<1>1. PICK e \in Sides : \A m \in sub[n] : Beyond(e, m, k)
  BY Apart DEF OneSide
<1>2. Beyond(e, a, k) /\ Beyond(e, b, k)
  BY <1>1
<1>3. a \in Prices /\ b \in Prices /\ k \in Prices
  <2>1. sub \in [Nodes -> SUBSET Prices] /\ t.root \in Nodes
    BY DEF Shape, Typed, Trees, Spans
  <2>2. n \in Prices /\ n \in Nodes
    BY <2>1 DEF Nodes
  <2> QED
    BY <2>1, <2>2
<1>4. e = d
  <2>1. CASE e = Other(d)
    BY <1>2, <1>3, <2>1, Order
  <2> QED
    BY <2>1, SideFacts
<1> QED
  BY <1>2, <1>4

\* the keys on the worse side of n, when d is the better one
Worse(S, d, n) == {k \in S : Beyond(Other(d), k, n)}

\* the same, without those below n
Past(t, sub, d, n) == {k \in sub[t.root] \ sub[n] : Beyond(Other(d), k, n)}

\* A node on the worse side of its parent has the same keys to come, above it.
LEMMA PastClimbs ==
    ASSUME NEW t, NEW sub, Shape(t, sub), NEW d \in Sides, NEW p \in sub[t.root],
           NEW m, m = t.child[p][Other(d)], m # Nil
    PROVE  Past(t, sub, d, m) = Past(t, sub, d, p)
<1> DEFINE e == Other(d)
<1>1. /\ Typed(t) /\ Spans(t, sub) /\ t.root \in Nodes /\ sub \in [Nodes -> SUBSET Prices]
      /\ sub[t.root] \subseteq Prices /\ e \in Sides /\ Other(e) = d /\ e # d /\ e = Other(d)
  BY SideFacts DEF Shape, Typed, Trees, Spans
<1> HIDE DEF e
<1>2. /\ p \in Prices /\ m \in Prices /\ m \in sub[m] /\ m \in sub[p] /\ p \in sub[p]
      /\ Beyond(e, m, p) /\ p \notin sub[m]
  <2>1. p \in Prices
    BY <1>1
  <2> QED
    BY <1>1, <2>1, ChildFacts, SpansFacts
<1>3. sub[m] \subseteq sub[p]
  BY <1>1, <1>2, SpansFacts
<1>4. ASSUME NEW k \in Past(t, sub, d, p) PROVE k \in Past(t, sub, d, m)
  <2>1. k \in sub[t.root] /\ k \notin sub[p] /\ Beyond(e, k, p) /\ k \in Prices
    BY <1>1, <1>4 DEF Past
  <2>2. Beyond(d, p, k)
    BY <1>1, <1>2, <2>1, Order
  <2>3. Beyond(d, m, k)
    BY <1>2, <2>1, <2>2, SameSide
  <2>4. Beyond(e, k, m)
    BY <1>1, <1>2, <2>1, <2>3, Order
  <2> QED
    BY <1>1, <1>3, <2>1, <2>4 DEF Past
<1>5. ASSUME NEW k \in Past(t, sub, d, m) PROVE k \in Past(t, sub, d, p)
  <2>1. k \in sub[t.root] /\ k \notin sub[m] /\ Beyond(e, k, m) /\ k \in Prices
    BY <1>1, <1>5 DEF Past
  <2>2. Beyond(e, k, p)
    BY <1>1, <1>2, <2>1, Order
  <2>3. ASSUME k \in sub[p] PROVE FALSE
    <3>1. k = p \/ \E f \in Sides : k \in sub[t.child[p][f]]
      BY <1>1, <1>2, <2>1, <2>3 DEF Spans
    <3>2. k # p
      BY <1>1, <1>2, <2>2, Order
    <3>3. PICK f \in Sides : k \in sub[t.child[p][f]]
      BY <3>1, <3>2
    <3>4. Beyond(f, k, p)
      BY <1>1, <1>2, <3>3 DEF Spans
    <3>5. f # e
      BY <1>1, <2>1, <3>3
    <3>6. f = Other(e)
      BY <1>1, <3>5, SideFacts
    <3> QED
      BY <1>1, <1>2, <2>1, <2>2, <3>4, <3>6, Order
  <2> QED
    BY <1>1, <2>1, <2>2, <2>3 DEF Past
<1> QED
  BY <1>4, <1>5

\* A node on the better side of its parent is followed by it, above.
LEMMA PastTurns ==
    ASSUME NEW t, NEW sub, Shape(t, sub), NEW d \in Sides, NEW p \in sub[t.root],
           NEW m, m = t.child[p][d], m # Nil
    PROVE  Outermost(d, Past(t, sub, d, m), p)
<1> DEFINE e == Other(d)
<1>1. /\ Typed(t) /\ Spans(t, sub) /\ t.root \in Nodes /\ sub \in [Nodes -> SUBSET Prices]
      /\ sub[t.root] \subseteq Prices /\ e \in Sides /\ Other(e) = d /\ e # d /\ e = Other(d)
  BY SideFacts DEF Shape, Typed, Trees, Spans
<1> HIDE DEF e
<1>2. /\ p \in Prices /\ m \in Prices /\ m \in sub[m] /\ m \in sub[p] /\ p \in sub[p]
      /\ Beyond(d, m, p) /\ p \notin sub[m]
  <2>1. p \in Prices
    BY <1>1
  <2> QED
    BY <1>1, <2>1, ChildFacts, SpansFacts
<1>3. p \in Past(t, sub, d, m)
  <2>1. Beyond(e, p, m)
    BY <1>1, <1>2, Order
  <2> QED
    BY <1>1, <1>2, <2>1 DEF Past
<1>4. ASSUME NEW k \in Past(t, sub, d, m), k # p PROVE Beyond(d, p, k)
  <2>1. k \in sub[t.root] /\ k \notin sub[m] /\ Beyond(e, k, m) /\ k \in Prices
    BY <1>1, <1>4 DEF Past
  <2>2. CASE k \notin sub[p]
    <3>1. Beyond(d, m, k)
      BY <1>1, <1>2, <2>1, Order
    <3> QED
      BY <1>2, <2>1, <2>2, <3>1, SameSide
  <2>3. CASE k \in sub[p]
    <3>1. PICK f \in Sides : k \in sub[t.child[p][f]]
      BY <1>1, <1>2, <1>4, <2>1, <2>3 DEF Spans
    <3>2. f = e
      BY <1>1, <2>1, <3>1, SideFacts
    <3>3. Beyond(e, k, p)
      BY <1>1, <1>2, <3>1, <3>2 DEF Spans
    <3> QED
      BY <1>1, <1>2, <2>1, <3>3, Order
  <2> QED
    BY <2>2, <2>3
<1> QED
  BY <1>3, <1>4 DEF Outermost

\* what the climb from a node ends at
Climbed(t, sub, d, m) == IF m \in sub[t.root] THEN Furthest(Past(t, sub, d, m), d) ELSE Nil

LEMMA ClimbedStep ==
    ASSUME NEW t, NEW sub, Shape(t, sub), NEW d \in Sides, NEW m \in Prices, NEW p, p = t.parent[m]
    PROVE  /\ p \in Nodes
           /\ m \in sub[t.root] /\ p # Nil => p \in sub[t.root] /\ p \in Prices
           /\ Climbed(t, sub, d, m) =
                 IF p # Nil /\ m = t.child[p][Other(d)] THEN Climbed(t, sub, d, p) ELSE p
<1>1. /\ Typed(t) /\ Links(t, sub) /\ t.root \in Nodes /\ sub \in [Nodes -> SUBSET Prices]
      /\ sub[t.root] \subseteq Prices /\ p \in Nodes
  BY DEF Shape, Typed, Trees, Spans
<1>2. CASE m \notin sub[t.root]
  <2>1. p = Nil
    BY <1>1, <1>2 DEF Links
  <2> QED
    BY <1>1, <1>2, <2>1 DEF Climbed
<1>3. CASE m \in sub[t.root] /\ p = Nil
  <2>1. m = t.root
    BY <1>3, ParentFacts
  <2>2. Past(t, sub, d, m) = {}
    BY <2>1 DEF Past
  <2> QED
    BY <1>1, <1>3, <2>2 DEF Climbed, Furthest
<1>4. CASE m \in sub[t.root] /\ p # Nil
  <2> DEFINE s == Side(t, m)
  <2>1. /\ p \in sub[t.root] /\ p \in Prices /\ s \in Sides /\ t.child[p][s] = m /\ m # Nil
        /\ t.child[p][Other(s)] # m
    BY <1>4, ParentFacts, PricesAssumption
  <2> HIDE DEF s
  <2>2. CASE s = Other(d)
    <3>1. Past(t, sub, d, m) = Past(t, sub, d, p)
      BY <2>1, <2>2, PastClimbs
    <3> QED
      BY <1>1, <1>4, <2>1, <2>2, <3>1 DEF Climbed
  <2>3. CASE s = d
    <3>1. Outermost(d, Past(t, sub, d, m), p)
      BY <2>1, <2>3, PastTurns
    <3>2. Past(t, sub, d, m) \in SUBSET Prices
      BY <1>1 DEF Past
    <3>3. p = Furthest(Past(t, sub, d, m), d)
      BY <3>1, <3>2, OutermostIsFurthest
    <3> QED
      BY <1>1, <1>4, <2>1, <2>3, <3>3 DEF Climbed
  <2> QED
    BY <2>1, <2>2, <2>3, SideFacts
<1> QED
  BY <1>2, <1>3, <1>4

\* The climb ends at the best of the keys that are left above the node.
LEMMA ClimbIs ==
    ASSUME NEW t, NEW sub, Shape(t, sub), NEW d \in Sides,
           NEW up, up = CHOOSE f : f = [m \in Prices |->
                           IF t.parent[m] # Nil /\ m = t.child[t.parent[m]][Other(d)]
                           THEN f[t.parent[m]] ELSE t.parent[m]]
    PROVE  \A m \in sub[t.root] : up[m] = Furthest(Past(t, sub, d, m), d)
<1> DEFINE g == [m \in Prices |-> Climbed(t, sub, d, m)]
<1>1. g = [m \in Prices |-> IF t.parent[m] # Nil /\ m = t.child[t.parent[m]][Other(d)]
                            THEN g[t.parent[m]] ELSE t.parent[m]]
  <2>1. ASSUME NEW m \in Prices
        PROVE  g[m] = IF t.parent[m] # Nil /\ m = t.child[t.parent[m]][Other(d)]
                      THEN g[t.parent[m]] ELSE t.parent[m]
    <3>1. t.parent[m] # Nil => t.parent[m] \in Prices
      BY ClimbedStep DEF Nodes
    <3>2. Climbed(t, sub, d, m) = IF t.parent[m] # Nil /\ m = t.child[t.parent[m]][Other(d)]
                                  THEN Climbed(t, sub, d, t.parent[m]) ELSE t.parent[m]
      BY ClimbedStep
    <3> QED
      BY <3>1, <3>2
  <2> QED
    BY <2>1
<1> HIDE DEF g
<1>2. up = [m \in Prices |-> IF t.parent[m] # Nil /\ m = t.child[t.parent[m]][Other(d)]
                             THEN up[t.parent[m]] ELSE t.parent[m]]
  BY Zenon, <1>1
<1> DEFINE S == {m \in sub[t.root] : up[m] = Climbed(t, sub, d, m)}
<1>3. sub[t.root] \subseteq Prices
  BY DEF Shape, Typed, Trees, Spans
<1>4. ASSUME NEW m \in sub[t.root], t.parent[m] # Nil => t.parent[m] \in S PROVE m \in S
  <2>1. m \in Prices
    BY <1>3
  <2>2. up[m] = IF t.parent[m] # Nil /\ m = t.child[t.parent[m]][Other(d)]
                THEN up[t.parent[m]] ELSE t.parent[m]
    BY <1>2, <2>1
  <2>3. t.parent[m] # Nil => up[t.parent[m]] = Climbed(t, sub, d, t.parent[m])
    BY <1>4
  <2>4. Climbed(t, sub, d, m) = IF t.parent[m] # Nil /\ m = t.child[t.parent[m]][Other(d)]
                                THEN Climbed(t, sub, d, t.parent[m]) ELSE t.parent[m]
    BY <2>1, ClimbedStep
  <2>5. up[m] = Climbed(t, sub, d, m)
    BY Zenon, <2>2, <2>3, <2>4
  <2> QED
    BY <2>5
<1>5. \A m \in sub[t.root] : m \in S
  <2> HIDE DEF S
  <2> QED
    BY <1>4, TopDown
<1> QED
  BY <1>5 DEF Climbed

\* successor and predecessor return the next worse key, or the sentinel.
LEMMA FollowingIs ==
    ASSUME NEW t, NEW sub, Shape(t, sub), NEW d \in Sides, NEW n \in sub[t.root]
    PROVE  Following(t, n, d) = Furthest(Worse(sub[t.root], d, n), d)
<1> DEFINE e == Other(d)
           up == CHOOSE f : f = [m \in Prices |-> IF t.parent[m] # Nil /\ m = t.child[t.parent[m]][Other(d)]
                                                 THEN f[t.parent[m]] ELSE t.parent[m]]
           c == t.child[n][e]
<1>1. /\ Typed(t) /\ Spans(t, sub) /\ t.root \in Nodes /\ sub \in [Nodes -> SUBSET Prices]
      /\ sub[t.root] \subseteq Prices /\ e \in Sides /\ Other(e) = d /\ e # d /\ e = Other(d) /\ sub[Nil] = {}
  BY SideFacts DEF Shape, Typed, Trees, Spans
<1>2. Following(t, n, d) = IF c # Nil THEN Extreme(t, c, d) ELSE up[n]
  BY DEF Following
<1>3. c = t.child[n][e] /\ up = CHOOSE f : f = [m \in Prices |->
                              IF t.parent[m] # Nil /\ m = t.child[t.parent[m]][Other(d)]
                              THEN f[t.parent[m]] ELSE t.parent[m]]
  OBVIOUS
<1> HIDE DEF e, c, up
<1>4. n \in Prices /\ n \in sub[n] /\ t.root \in Prices /\ sub[n] \subseteq sub[t.root]
  <2>1. n \in Prices /\ t.root \in Prices
    BY <1>1 DEF Nodes
  <2> QED
    BY <1>1, <2>1, SpansFacts, Transitive
<1>5. \A k \in sub[n] : k = n \/ k \in sub[c] \/ Beyond(d, k, n)
  <2>1. ASSUME NEW k \in sub[n], k # n, k \notin sub[c] PROVE Beyond(d, k, n)
    <3>1. k \in Prices
      BY <1>1, <1>4, <2>1
    <3>2. PICK f \in Sides : k \in sub[t.child[n][f]]
      BY <1>1, <1>4, <2>1, <3>1 DEF Spans
    <3>3. f = d
      BY <1>1, <1>3, <2>1, <3>2, SideFacts
    <3> QED
      BY <1>1, <1>4, <3>2, <3>3 DEF Spans
  <2> QED
    BY <2>1
<1>6. \A k \in sub[n] : Beyond(e, k, n) => k \in sub[c]
  <2>1. ASSUME NEW k \in sub[n], Beyond(e, k, n) PROVE k \in sub[c]
    <3>1. k \in Prices
      BY <1>1, <1>4, <2>1
    <3>2. k # n /\ ~Beyond(d, k, n)
      BY <1>1, <1>4, <2>1, <3>1, Order
    <3> QED
      BY <1>5, <3>2
  <2> QED
    BY <2>1
<1>7. Worse(sub[t.root], d, n) \in SUBSET Prices
  BY <1>1 DEF Worse
<1>8. CASE c = Nil
  <2>1. Worse(sub[t.root], d, n) = Past(t, sub, d, n)
    BY <1>1, <1>6, <1>8 DEF Worse, Past
  <2>2. up[n] = Furthest(Past(t, sub, d, n), d)
    BY <1>3, ClimbIs
  <2> QED
    BY <1>2, <1>8, <2>1, <2>2
<1>9. CASE c # Nil
  <2> DEFINE k == Extreme(t, c, d)
  <2>1. c \in Prices /\ Beyond(e, c, n) /\ c \in sub[c] /\ c \in sub[n] /\ n \notin sub[c]
    BY <1>1, <1>3, <1>4, <1>9, ChildFacts
  <2>2. Outermost(d, sub[c], k)
    BY <1>1, <2>1, ExtremeIs
  <2>3. k = Extreme(t, c, d)
    OBVIOUS
  <2> HIDE DEF k
  <2>4. k \in sub[c] /\ sub[c] \subseteq sub[n]
    BY <1>1, <1>3, <1>4, <2>2, SpansFacts DEF Outermost
  <2>5. Beyond(e, k, n) /\ k \in sub[t.root] /\ k \in Prices
    BY <1>1, <1>3, <1>4, <2>4 DEF Spans
  <2>6. k \in Worse(sub[t.root], d, n)
    BY <1>1, <2>5 DEF Worse
  <2>7. ASSUME NEW j \in Worse(sub[t.root], d, n), j # k PROVE Beyond(d, k, j)
    <3>1. j \in sub[t.root] /\ j \in Prices /\ Beyond(e, j, n)
      BY <1>1, <2>7 DEF Worse
    <3>2. CASE j \in sub[n]
      BY <1>6, <2>2, <2>7, <3>1, <3>2 DEF Outermost
    <3>3. CASE j \notin sub[n]
      <4>1. Beyond(d, n, j)
        BY <1>1, <1>4, <3>1, Order
      <4> QED
        BY <1>4, <2>4, <3>1, <3>3, <4>1, SameSide
    <3> QED
      BY <3>2, <3>3
  <2>8. Outermost(d, Worse(sub[t.root], d, n), k)
    BY <2>6, <2>7 DEF Outermost
  <2>9. k = Furthest(Worse(sub[t.root], d, n), d)
    BY <1>7, <2>8, OutermostIsFurthest
  <2> QED
    BY <1>2, <1>9, <2>3, <2>9
<1> QED
  BY <1>8, <1>9

-----------------------------------------------------------------------------
(* The places of the keys, from the best one, and what GetLevels lists.     *)

\* how many keys are better
Rank(S, d, p) == Cardinality({q \in S : Beyond(d, q, p)})

\* the key that i keys are better than
Nth(S, d, i) == IF i < Cardinality(S) THEN CHOOSE p \in S : Rank(S, d, p) = i ELSE Nil

LEMMA RankFacts ==
    ASSUME NEW S \in SUBSET Prices, IsFiniteSet(S), NEW d \in Sides
    PROVE  /\ Cardinality(S) \in Nat
           /\ \A p \in S : Rank(S, d, p) \in Nat /\ Rank(S, d, p) < Cardinality(S)
           /\ \A p, q \in S : Beyond(d, p, q) => Rank(S, d, p) < Rank(S, d, q)
<1> DEFINE B(p) == {q \in S : Beyond(d, q, p)}
<1>1. Cardinality(S) \in Nat
  BY FS_CardinalityType
<1>2. ASSUME NEW p \in S PROVE IsFiniteSet(B(p)) /\ Cardinality(B(p)) \in Nat /\ Cardinality(B(p)) < Cardinality(S)
  <2>1. B(p) \subseteq S /\ p \notin B(p)
    BY Order
  <2>2. B(p) # S
    BY <2>1
  <2> HIDE DEF B
  <2> QED
    BY <2>1, <2>2, FS_Subset, FS_CardinalityType
<1>3. ASSUME NEW p \in S, NEW q \in S, Beyond(d, p, q) PROVE Cardinality(B(p)) < Cardinality(B(q))
  <2>1. B(p) \subseteq B(q)
    BY <1>3, Order
  <2>2. p \in B(q) /\ p \notin B(p)
    BY <1>3, Order
  <2>3. IsFiniteSet(B(q)) /\ B(p) # B(q) /\ Cardinality(B(p)) \in Nat /\ Cardinality(B(q)) \in Nat
    BY <1>2, <2>2
  <2> HIDE DEF B
  <2>4. Cardinality(B(p)) <= Cardinality(B(q)) /\ Cardinality(B(p)) # Cardinality(B(q))
    BY <2>1, <2>3, FS_Subset
  <2> QED
    BY <2>3, <2>4
<1> QED
  BY <1>1, <1>2, <1>3 DEF Rank

\* One key has each place.
LEMMA NthFacts ==
    ASSUME NEW S \in SUBSET Prices, IsFiniteSet(S), NEW d \in Sides
    PROVE  /\ \A i \in Nat : i < Cardinality(S) => Nth(S, d, i) \in S /\ Rank(S, d, Nth(S, d, i)) = i
           /\ \A p \in S : Nth(S, d, Rank(S, d, p)) = p
<1>1. /\ Cardinality(S) \in Nat
      /\ \A p \in S : Rank(S, d, p) \in Nat /\ Rank(S, d, p) < Cardinality(S)
      /\ \A p, q \in S : Beyond(d, p, q) => Rank(S, d, p) < Rank(S, d, q)
  BY RankFacts
<1>2. ASSUME NEW p \in S, NEW q \in S, Rank(S, d, p) = Rank(S, d, q) PROVE p = q
  <2>1. Rank(S, d, p) \in Nat /\ Rank(S, d, q) \in Nat
    BY <1>1
  <2>2. ~(Rank(S, d, p) < Rank(S, d, q)) /\ ~(Rank(S, d, q) < Rank(S, d, p))
    BY <1>2, <2>1
  <2>3. ~Beyond(d, p, q) /\ ~Beyond(d, q, p)
    BY <1>1, <2>2
  <2> QED
    BY <2>3, Order, SideFacts
<1>3. ASSUME NEW i \in Nat, i < Cardinality(S) PROVE \E p \in S : Rank(S, d, p) = i
  <2> SUFFICES ASSUME \A p \in S : Rank(S, d, p) # i PROVE FALSE
    OBVIOUS
  <2> DEFINE n == Cardinality(S)
             T == (0 .. n - 1) \ {i}
             f == [p \in S |-> Rank(S, d, p)]
  <2>0. 0 \in Int /\ n - 1 \in Int /\ n \in Int /\ ~(0 > n - 1)
    BY <1>1, <1>3
  <2>1. IsFiniteSet(0 .. n - 1) /\ Cardinality(0 .. n - 1) = n
    <3>1. IsFiniteSet(0 .. n - 1) /\ Cardinality(0 .. n - 1) = (IF 0 > n - 1 THEN 0 ELSE n - 1 - 0 + 1)
      <4> HIDE DEF n
      <4> QED
        BY <2>0, FS_Interval
    <3> QED
      BY <2>0, <3>1
  <2>2. i \in 0 .. n - 1
    BY <1>1, <1>3
  <2>3. IsFiniteSet(T) /\ Cardinality(T) = n - 1
    BY Zenon, <2>1, <2>2, FS_RemoveElement
  <2>4. Cardinality(T) < Cardinality(S)
    BY <1>1, <2>3
  <2>5. f \in [S -> T]
    <3>1. \A p \in S : Rank(S, d, p) \in 0 .. n - 1 /\ Rank(S, d, p) # i
      BY <1>1
    <3> QED
      BY <3>1
  <2> HIDE DEF T
  <2>6. \E p, q \in S : p # q /\ f[p] = f[q]
    <3> HIDE DEF f
    <3> QED
      BY <2>3, <2>4, <2>5, FS_PigeonHole
  <2> QED
    BY <1>2, <2>6
<1>4. \A i \in Nat : i < Cardinality(S) => Nth(S, d, i) \in S /\ Rank(S, d, Nth(S, d, i)) = i
  BY <1>3 DEF Nth
<1>5. ASSUME NEW p \in S PROVE Nth(S, d, Rank(S, d, p)) = p
  <2>1. Nth(S, d, Rank(S, d, p)) \in S /\ Rank(S, d, Nth(S, d, Rank(S, d, p))) = Rank(S, d, p)
    BY <1>1, <1>4
  <2> QED
    BY <1>2, <2>1
<1> QED
  BY <1>4, <1>5

\* A finite set that is not empty has a best price.
LEMMA OneIsOutermost ==
    ASSUME NEW S \in SUBSET Prices, IsFiniteSet(S), S # {}, NEW d \in Sides
    PROVE  \E k : Outermost(d, S, k)
<1> DEFINE R == {Rank(S, d, p) : p \in S}
<1>1. /\ Cardinality(S) \in Nat
      /\ \A p \in S : Rank(S, d, p) \in Nat /\ Rank(S, d, p) < Cardinality(S)
      /\ \A p, q \in S : Beyond(d, p, q) => Rank(S, d, p) < Rank(S, d, q)
  BY RankFacts
<1>2. R \in SUBSET Nat /\ R # {} /\ \A i \in R : i <= Cardinality(S)
  BY <1>1
<1>3. IsFiniteSet(R)
  <2> HIDE DEF R
  <2> QED
    BY <1>1, <1>2, FS_BoundedSetOfNaturals
<1>4. \E i \in R : \A j \in R : i <= j
  <2> HIDE DEF R
  <2> QED
    BY <1>2, <1>3, LeastOne
<1>5. PICK k \in S : \A p \in S : Rank(S, d, k) <= Rank(S, d, p)
  BY <1>4
<1>6. ASSUME NEW p \in S, p # k PROVE Beyond(d, k, p)
  <2>1. Rank(S, d, k) <= Rank(S, d, p) /\ Rank(S, d, k) \in Nat /\ Rank(S, d, p) \in Nat
    BY <1>1, <1>5
  <2>2. ~(Rank(S, d, p) < Rank(S, d, k))
    BY <2>1
  <2>3. ~Beyond(d, p, k)
    BY <1>1, <2>2
  <2>4. Beyond(Other(d), p, k)
    BY <1>6, <2>3, Order
  <2> QED
    BY <2>4, Order, SideFacts
<1> QED
  BY <1>5, <1>6 DEF Outermost

LEMMA NthFirst ==
    ASSUME NEW S \in SUBSET Prices, IsFiniteSet(S), NEW d \in Sides
    PROVE  Nth(S, d, 0) = Furthest(S, d)
<1>1. CASE S = {}
  BY <1>1, FS_EmptySet DEF Nth, Furthest
<1>2. CASE S # {}
  <2>1. PICK k : Outermost(d, S, k)
    BY <1>2, OneIsOutermost
  <2>2. k = Furthest(S, d) /\ k \in S
    BY <2>1, OutermostIsFurthest DEF Outermost
  <2>3. {q \in S : Beyond(d, q, k)} = {}
    <3>1. ASSUME NEW q \in S, Beyond(d, q, k) PROVE FALSE
      <4>1. q \in Prices /\ k \in Prices /\ (q = k \/ Beyond(d, k, q))
        BY <2>1, <2>2 DEF Outermost
      <4> QED
        BY <3>1, <4>1, Order
    <3> QED
      BY <3>1
  <2>4. Rank(S, d, k) = 0
    BY <2>3, FS_EmptySet DEF Rank
  <2>5. Nth(S, d, Rank(S, d, k)) = k
    BY <2>2, NthFacts
  <2> QED
    BY <2>2, <2>4, <2>5
<1> QED
  BY <1>1, <1>2

LEMMA NthNext ==
    ASSUME NEW S \in SUBSET Prices, IsFiniteSet(S), NEW d \in Sides, NEW i \in Nat, i < Cardinality(S),
           NEW p, p = Nth(S, d, i)
    PROVE  Nth(S, d, i + 1) = Furthest(Worse(S, d, p), d)
<1> DEFINE B(x) == {q \in S : Beyond(d, q, x)}
           W == Worse(S, d, p)
<1>1. p \in S /\ p \in Prices /\ Rank(S, d, p) = i /\ Cardinality(S) \in Nat
  BY NthFacts, RankFacts
<1>2. IsFiniteSet(B(p)) /\ Cardinality(B(p)) = i /\ p \notin B(p)
  <2>1. B(p) \subseteq S /\ p \notin B(p)
    BY <1>1, Order
  <2>2. Cardinality(B(p)) = i
    BY <1>1 DEF Rank
  <2> QED
    BY <2>1, <2>2, FS_Subset
<1>3. Cardinality(B(p) \cup {p}) = i + 1
  <2> HIDE DEF B
  <2> QED
    BY <1>2, FS_AddElement
<1>4. W \in SUBSET Prices /\ IsFiniteSet(W) /\ W \subseteq S /\ \A q \in S : q \in W <=> Beyond(Other(d), q, p)
  <2>1. W \subseteq S /\ \A q \in S : q \in W <=> Beyond(Other(d), q, p)
    BY DEF Worse
  <2> QED
    BY <2>1, FS_Subset
<1> HIDE DEF W
<1>5. CASE W = {}
  <2>1. B(p) \cup {p} = S
    BY <1>1, <1>4, <1>5, Order
  <2>2. i + 1 = Cardinality(S)
    BY <1>3, <2>1
  <2>3. ~(i + 1 < Cardinality(S))
    BY <1>1, <2>2
  <2> QED
    BY <1>5, <2>3 DEF Nth, Furthest, W
<1>6. CASE W # {}
  <2>1. PICK k : Outermost(d, W, k)
    BY <1>4, <1>6, OneIsOutermost
  <2>2. k = Furthest(W, d) /\ k \in W /\ k \in S /\ k \in Prices /\ Beyond(Other(d), k, p)
    BY <1>4, <2>1, OutermostIsFurthest DEF Outermost
  <2>3. Beyond(d, p, k)
    BY <1>1, <2>2, Order, SideFacts
  <2>4. ASSUME NEW q \in B(k), q # p PROVE q \in B(p)
    <3>1. q \in S /\ q \in Prices /\ Beyond(d, q, k)
      OBVIOUS
    <3>2. q \notin W
      <4>1. ASSUME q \in W PROVE FALSE
        <5>1. q = k \/ Beyond(d, k, q)
          BY <2>1, <4>1 DEF Outermost
        <5> QED
          BY <2>2, <3>1, <5>1, Order
      <4> QED
        BY <4>1
    <3>3. ~Beyond(Other(d), q, p)
      BY <1>4, <3>1, <3>2
    <3> QED
      BY <1>1, <2>4, <3>1, <3>3, Order
  <2>5. \A q \in B(p) : q \in B(k)
    BY <1>1, <2>2, <2>3, Order
  <2>6. B(k) = B(p) \cup {p}
    BY <1>1, <2>3, <2>4, <2>5
  <2>7. Rank(S, d, k) = i + 1
    BY <1>3, <2>6 DEF Rank
  <2>8. Nth(S, d, Rank(S, d, k)) = k
    BY <2>2, NthFacts
  <2> QED
    BY <2>2, <2>7, <2>8 DEF W
<1> QED
  BY <1>5, <1>6

\* Induction from 0 to n, for a set.
LEMMA UpTo ==
    ASSUME NEW n \in Nat, NEW T, 0 \in T, \A k \in 1 .. n : k - 1 \in T => k \in T
    PROVE  0 .. n \subseteq T
<1> DEFINE S == (0 .. n) \ T
<1> SUFFICES ASSUME S # {} PROVE FALSE
  OBVIOUS
<1>1. S \in SUBSET Nat /\ IsFiniteSet(S)
  <2>1. IsFiniteSet(0 .. n) /\ S \in SUBSET (0 .. n)
    BY FS_Interval
  <2>2. S \in SUBSET Nat
    OBVIOUS
  <2> HIDE DEF S
  <2> QED
    BY <2>1, <2>2, FS_Subset
<1>2. PICK m \in S : \A x \in S : m <= x
  <2> HIDE DEF S
  <2> QED
    BY <1>1, LeastOne
<1>3. m \in 1 .. n /\ m - 1 \in 0 .. n
  BY <1>2
<1>4. m - 1 \in T
  BY <1>2, <1>3
<1> QED
  BY <1>2, <1>3, <1>4

\* The node that the walk of GetLevels is at after i steps is the one with
\* place i.
LEMMA WalkIs ==
    ASSUME NEW sub, Shape(tree, sub), NEW d \in Sides, NEW S, S = sub[tree.root], NEW k \in Nat,
           NEW current, current = CHOOSE f : f = [i \in 0 .. k |->
               IF i = 0 THEN Furthest(S, d)
               ELSE IF f[i - 1] = Nil THEN Nil ELSE Following(tree, f[i - 1], d)]
    PROVE  \A i \in 0 .. k : current[i] = Nth(S, d, i)
<1> DEFINE g == [i \in 0 .. k |-> Nth(S, d, i)]
<1>1. S \in SUBSET Prices /\ IsFiniteSet(S)
  <2>1. tree.root \in Nodes /\ Spans(tree, sub)
    BY DEF Shape, Typed, Trees
  <2>2. IsFiniteSet(S)
    BY <2>1, FS_EmptySet DEF Spans, Nodes
  <2> QED
    BY <2>1, <2>2 DEF Spans
<1>2. Nth(S, d, 0) = Furthest(S, d)
  BY <1>1, NthFirst
<1>3. ASSUME NEW i \in 1 .. k
      PROVE  Nth(S, d, i) = IF Nth(S, d, i - 1) = Nil THEN Nil ELSE Following(tree, Nth(S, d, i - 1), d)
  <2>1. i - 1 \in Nat /\ i \in Nat /\ Cardinality(S) \in Nat /\ (i - 1) + 1 = i
    BY <1>1, RankFacts
  <2>2. CASE i - 1 < Cardinality(S)
    <3> DEFINE p == Nth(S, d, i - 1)
    <3>1. p \in S /\ p # Nil
      BY <1>1, <2>1, <2>2, NthFacts, PricesAssumption
    <3>2. p = Nth(S, d, i - 1)
      OBVIOUS
    <3> HIDE DEF p
    <3>3. Nth(S, d, (i - 1) + 1) = Furthest(Worse(S, d, p), d)
      <4> DEFINE j == i - 1
      <4>1. j \in Nat /\ j < Cardinality(S) /\ p = Nth(S, d, j)
        BY <2>1, <2>2, <3>2
      <4> HIDE DEF j
      <4>2. Nth(S, d, j + 1) = Furthest(Worse(S, d, p), d)
        BY <1>1, <4>1, NthNext
      <4> QED
        BY <4>2 DEF j
    <3>4. Following(tree, p, d) = Furthest(Worse(S, d, p), d)
      BY <3>1, FollowingIs
    <3> QED
      BY <2>1, <3>1, <3>2, <3>3, <3>4
  <2>3. CASE ~(i - 1 < Cardinality(S))
    <3>1. ~(i < Cardinality(S))
      BY <2>1, <2>3
    <3> QED
      BY <2>3, <3>1 DEF Nth
  <2> QED
    BY <2>2, <2>3
<1>4. g = [i \in 0 .. k |-> IF i = 0 THEN Furthest(S, d)
                            ELSE IF g[i - 1] = Nil THEN Nil ELSE Following(tree, g[i - 1], d)]
  <2>1. ASSUME NEW i \in 0 .. k
        PROVE  g[i] = IF i = 0 THEN Furthest(S, d)
                      ELSE IF g[i - 1] = Nil THEN Nil ELSE Following(tree, g[i - 1], d)
    <3>1. CASE i = 0
      BY <1>2, <3>1
    <3>2. CASE i # 0
      <4>1. i \in 1 .. k /\ i - 1 \in 0 .. k
        BY <3>2
      <4>2. g[i] = Nth(S, d, i) /\ g[i - 1] = Nth(S, d, i - 1)
        BY <4>1
      <4> HIDE DEF g
      <4> QED
        BY <1>3, <3>2, <4>1, <4>2
    <3> QED
      BY <3>1, <3>2
  <2> QED
    BY <2>1
<1> HIDE DEF g
<1>5. current = [i \in 0 .. k |-> IF i = 0 THEN Furthest(S, d)
                                  ELSE IF current[i - 1] = Nil THEN Nil
                                       ELSE Following(tree, current[i - 1], d)]
  BY <1>4
<1> DEFINE T == {i \in 0 .. k : current[i] = Nth(S, d, i)}
<1>6. 0 \in T
  <2>1. 0 \in 0 .. k
    OBVIOUS
  <2>2. current[0] = Furthest(S, d)
    BY <1>5, <2>1
  <2> QED
    BY <1>2, <2>1, <2>2
<1>7. ASSUME NEW i \in 1 .. k, i - 1 \in T PROVE i \in T
  <2>1. i \in 0 .. k /\ i # 0 /\ current[i - 1] = Nth(S, d, i - 1)
    BY <1>7
  <2>2. current[i] = IF current[i - 1] = Nil THEN Nil ELSE Following(tree, current[i - 1], d)
    BY <1>5, <2>1
  <2>3. current[i] = Nth(S, d, i)
    BY <1>3, <2>1, <2>2
  <2> QED
    BY <2>1, <2>3
<1>8. 0 .. k \subseteq T
  <2> HIDE DEF T
  <2> QED
    BY <1>6, <1>7, UpTo
<1> QED
  BY <1>8

\* GetLevels lists the keys with the first places, as many as asked for.
LEMMA LevelsAre ==
    ASSUME NEW sub, NEW bh, Phase(tree, fixing, at, sub, bh), NEW isBid \in BOOLEAN, NEW k \in Nat,
           NEW d, d = (IF isBid THEN "right" ELSE "left"), NEW S, S = sub[tree.root],
           NEW n, n = (IF k < Cardinality(S) THEN k ELSE Cardinality(S))
    PROVE  GetLevels(isBid, k) = [i \in 1 .. n |-> Nth(S, d, i - 1)] /\ n \in Nat
<1> DEFINE current == CHOOSE f : f = [i \in 0 .. k |->
               IF i = 0 THEN Furthest(S, d)
               ELSE IF f[i - 1] = Nil THEN Nil ELSE Following(tree, f[i - 1], d)]
           listed == {i \in 1 .. k : current[i - 1] # Nil}
<1>1. Shape(tree, sub) /\ d \in Sides
  BY PhaseShape DEF Sides
<1>2. GetBest(isBid) = Furthest(S, d)
  BY MapIs
<1>3. GetLevels(isBid, k) = [i \in listed |-> current[i - 1]]
  BY <1>2 DEF GetLevels
<1>4. current = CHOOSE f : f = [i \in 0 .. k |->
               IF i = 0 THEN Furthest(S, d)
               ELSE IF f[i - 1] = Nil THEN Nil ELSE Following(tree, f[i - 1], d)]
  OBVIOUS
<1>d. listed = {i \in 1 .. k : current[i - 1] # Nil}
  OBVIOUS
<1> HIDE DEF current, listed
<1>5. \A i \in 0 .. k : current[i] = Nth(S, d, i)
  BY <1>1, <1>4, WalkIs
<1>6. S \in SUBSET Prices /\ IsFiniteSet(S)
  <2>1. tree.root \in Nodes /\ Spans(tree, sub)
    BY <1>1 DEF Shape, Typed, Trees
  <2>2. IsFiniteSet(S)
    BY <2>1, FS_EmptySet DEF Spans, Nodes
  <2> QED
    BY <2>1, <2>2 DEF Spans
<1>7. Cardinality(S) \in Nat /\ n \in Nat
  BY <1>6, FS_CardinalityType
<1>8. ASSUME NEW i \in 1 .. k
      PROVE  current[i - 1] = Nth(S, d, i - 1) /\ (current[i - 1] # Nil <=> i \in 1 .. n)
  <2>1. i - 1 \in 0 .. k /\ i - 1 \in Nat
    OBVIOUS
  <2>2. current[i - 1] = Nth(S, d, i - 1)
    BY <1>5, <2>1
  <2>3. i - 1 < Cardinality(S) <=> i \in 1 .. n
    BY <1>7
  <2>4. i - 1 < Cardinality(S) => Nth(S, d, i - 1) # Nil
    BY <1>1, <1>6, <2>1, NthFacts, PricesAssumption
  <2>5. ~(i - 1 < Cardinality(S)) => Nth(S, d, i - 1) = Nil
    BY DEF Nth
  <2> QED
    BY <2>2, <2>3, <2>4, <2>5
<1>9. 1 .. n \subseteq 1 .. k
  BY <1>7
<1>10. listed = 1 .. n
  BY <1>8, <1>9, <1>d
<1> QED
  BY <1>3, <1>7, <1>8, <1>9, <1>10

LEMMA LevelsOrdered ==
    ASSUME NEW sub, NEW bh, Phase(tree, fixing, at, sub, bh)
    PROVE  LevelsInOrder
<1> DEFINE S == sub[tree.root]
<1>1. S \in SUBSET Prices /\ IsFiniteSet(S) /\ Keys = S
  <2>1. tree.root \in Nodes /\ Spans(tree, sub)
    BY PhaseShape
  <2>2. IsFiniteSet(S)
    BY <2>1, FS_EmptySet DEF Spans, Nodes
  <2> QED
    BY <2>1, <2>2, MapIs DEF Spans
<1>2. S = sub[tree.root]
  OBVIOUS
<1> HIDE DEF S
<1>3. ASSUME NEW isBid \in BOOLEAN, NEW k \in Nat
      PROVE  LET listed == GetLevels(isBid, k)
                 Better(p, q) == IF isBid THEN p > q ELSE p < q
             IN /\ Len(listed) = IF k < Cardinality(Keys) THEN k ELSE Cardinality(Keys)
                /\ \A i, j \in DOMAIN listed : i < j => Better(listed[i], listed[j])
                /\ \A p \in Keys : (\E i \in DOMAIN listed : listed[i] = p)
                                   \/ \A i \in DOMAIN listed : Better(listed[i], p)
  <2> DEFINE d == IF isBid THEN "right" ELSE "left"
             n == IF k < Cardinality(S) THEN k ELSE Cardinality(S)
             listed == GetLevels(isBid, k)
  <2>d. /\ d = (IF isBid THEN "right" ELSE "left") /\ n = (IF k < Cardinality(S) THEN k ELSE Cardinality(S))
        /\ listed = GetLevels(isBid, k) /\ d \in Sides
    BY DEF Sides
  <2> HIDE DEF d, n, listed
  <2>1. listed = [i \in 1 .. n |-> Nth(S, d, i - 1)] /\ n \in Nat
    BY <1>2, <2>d, LevelsAre
  <2>2. /\ Cardinality(S) \in Nat
        /\ \A p \in S : Rank(S, d, p) \in Nat /\ Rank(S, d, p) < Cardinality(S)
        /\ \A p, q \in S : Beyond(d, p, q) => Rank(S, d, p) < Rank(S, d, q)
    BY <1>1, <2>d, RankFacts
  <2>3. ASSUME NEW i \in 1 .. n PROVE listed[i] \in S /\ Rank(S, d, listed[i]) = i - 1
    <3>1. i - 1 \in Nat /\ i - 1 < Cardinality(S)
      BY <2>2, <2>d
    <3>2. Nth(S, d, i - 1) \in S /\ Rank(S, d, Nth(S, d, i - 1)) = i - 1
      BY <1>1, <2>d, <3>1, NthFacts
    <3> QED
      BY <2>1, <3>2
  <2>4. \A p \in S : Nth(S, d, Rank(S, d, p)) = p
    BY <1>1, <2>d, NthFacts
  <2>5. ASSUME NEW p \in S, NEW q \in S, Rank(S, d, p) < Rank(S, d, q) PROVE Beyond(d, p, q)
    <3>1. Rank(S, d, p) \in Nat /\ Rank(S, d, q) \in Nat
      BY <2>2
    <3>2. p # q /\ ~(Rank(S, d, q) < Rank(S, d, p))
      BY <2>5, <3>1
    <3>3. ~Beyond(d, q, p)
      BY <2>2, <3>2
    <3>4. p \in Prices /\ q \in Prices
      BY <1>1
    <3> QED
      BY <2>d, <3>2, <3>3, <3>4, Order, SideFacts
  <2>6. \A p, q : Beyond(d, p, q) => IF isBid THEN p > q ELSE p < q
    BY <2>d DEF Beyond
  <2>7. Len(listed) = n /\ DOMAIN listed = 1 .. n
    <3>1. listed \in [1 .. n -> S]
      BY <2>1, <2>3
    <3>2. listed \in Seq(S)
      BY <2>1, <3>1, SeqDef
    <3>3. Len(listed) \in Nat /\ DOMAIN listed = 1 .. Len(listed) /\ DOMAIN listed = 1 .. n
      BY <3>1, <3>2, LenProperties
    <3>4. \A a, b \in Nat : 1 .. a = 1 .. b => a = b
      <4>1. ASSUME NEW a \in Nat, NEW b \in Nat, 1 .. a = 1 .. b, a < b PROVE FALSE
        <5>1. b \in 1 .. b /\ b \notin 1 .. a
          BY <4>1
        <5> QED
          BY <4>1, <5>1
      <4>2. ASSUME NEW a \in Nat, NEW b \in Nat, 1 .. a = 1 .. b PROVE a = b
        <5>1. a < b \/ b < a \/ a = b
          OBVIOUS
        <5> QED
          BY <4>1, <4>2, <5>1
      <4> QED
        BY <4>2
    <3> QED
      BY <2>1, <3>3, <3>4
  <2>8. ASSUME NEW i \in 1 .. n, NEW j \in 1 .. n, i < j PROVE Beyond(d, listed[i], listed[j])
    <3>1. /\ listed[i] \in S /\ Rank(S, d, listed[i]) = i - 1
          /\ listed[j] \in S /\ Rank(S, d, listed[j]) = j - 1
      BY <2>3
    <3>2. Rank(S, d, listed[i]) < Rank(S, d, listed[j])
      BY <2>8, <3>1
    <3> QED
      BY <2>5, <3>1, <3>2
  <2>9. ASSUME NEW p \in S
        PROVE  (\E i \in 1 .. n : listed[i] = p) \/ \A i \in 1 .. n : Beyond(d, listed[i], p)
    <3>1. Rank(S, d, p) \in Nat /\ Rank(S, d, p) < Cardinality(S)
      BY <2>2
    <3>2. CASE Rank(S, d, p) < n
      <4> DEFINE i == Rank(S, d, p) + 1
      <4>1. i \in 1 .. n /\ i - 1 = Rank(S, d, p)
        BY <2>1, <3>1, <3>2
      <4>2. listed[i] = Nth(S, d, i - 1)
        BY <2>1, <4>1
      <4>3. listed[i] = p
        BY <2>4, <4>1, <4>2
      <4> QED
        BY <4>1, <4>3
    <3>3. CASE ~(Rank(S, d, p) < n)
      <4>1. ASSUME NEW i \in 1 .. n PROVE Beyond(d, listed[i], p)
        <5>1. listed[i] \in S /\ Rank(S, d, listed[i]) = i - 1
          BY <2>3
        <5>2. Rank(S, d, listed[i]) < Rank(S, d, p)
          BY <2>1, <3>1, <3>3, <5>1
        <5> QED
          BY <2>5, <5>1, <5>2
      <4> QED
        BY <4>1
    <3> QED
      BY <3>2, <3>3
  <2>10. \A i, j \in 1 .. n : i < j => IF isBid THEN listed[i] > listed[j] ELSE listed[i] < listed[j]
    BY <2>6, <2>8
  <2>11. \A p \in S : (\E i \in 1 .. n : listed[i] = p)
                      \/ \A i \in 1 .. n : IF isBid THEN listed[i] > p ELSE listed[i] < p
    BY <2>6, <2>9
  <2>12. n = IF k < Cardinality(Keys) THEN k ELSE Cardinality(Keys)
    BY <1>1, <2>d
  <2> QED
    BY <1>1, <2>7, <2>10, <2>11, <2>12, <2>d
<1>4. Cardinality(Keys) \in Nat
  BY <1>1, FS_CardinalityType
<1>5. 0 .. Cardinality(Keys) + 1 \subseteq Nat
  BY <1>4
<1> QED
  BY <1>3, <1>5 DEF LevelsInOrder

\* GetLevels lists the best levels of a tree at rest, best first, each once,
\* and as many as asked for or as there are, for any set of prices
\* (rbtree.go:108-138, 365-387).
THEOREM ListsTheLevelsInOrder == Spec => []LevelsInOrder
<1>1. Inv => LevelsInOrder
  BY LevelsOrdered DEF Inv
<1> QED
  BY <1>1, Phases, PTL
=============================================================================
