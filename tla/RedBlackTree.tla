---------------------------- MODULE RedBlackTree ----------------------------
(***************************************************************************)
(* The red-black tree of internal/orderbook/rbtree.go, which holds the     *)
(* price levels of one side of the book.                                   *)
(*                                                                         *)
(* A node is named by its price; one that was deleted is garbage and keeps *)
(* no fields here.  All leaves and the parent of the root are one node,    *)
(* Nil (tree.nil), whose own parent the code overwrites and reads.  Insert *)
(* and Delete hold the mutex until the fix-up loop they start has ended;   *)
(* an iteration of a loop is a step.                                       *)
(***************************************************************************)
EXTENDS Integers, Sequences, FiniteSets

CONSTANTS
    Prices,     \* integers
    Nil,        \* tree.nil
    Null        \* Go's nil, the children of tree.nil

ASSUME PricesAssumption == Prices \subseteq Int /\ Nil \notin Prices /\ Null \notin Prices \cup {Nil}

VARIABLES
    tree,       \* root, and the fields of the nodes: color, child, parent
    fixing,     \* "insert" or "delete" while that loop runs, else "no"
    at          \* the loop variable, z or x

vars == <<tree, fixing, at>>

Nodes == Prices \cup {Nil}
Sides == {"left", "right"}
Other(d) == IF d = "left" THEN "right" ELSE "left"
Leaf == [d \in Sides |-> Nil]
Behind == [d \in Sides |-> Null]

Left(t, n) == t.child[n]["left"]
Right(t, n) == t.child[n]["right"]

SetRoot(t, n) == [t EXCEPT !.root = n]
SetChild(t, n, d, c) == [t EXCEPT !.child[n][d] = c]
SetParent(t, n, p) == [t EXCEPT !.parent[n] = p]
Paint(t, n, color) == [t EXCEPT !.color[n] = color]

\* a node of a color and without children
Fresh(t, n, color) == SetParent(Paint([t EXCEPT !.child[n] = Leaf], n, color), n, Nil)

\* which child of its parent a node is
Side(t, n) == IF n = Left(t, t.parent[n]) THEN "left" ELSE "right"

\* v takes a place below p, or at the root
Hang(t, p, d, v) == IF p = Nil THEN SetRoot(t, v) ELSE SetChild(t, p, d, v)

\* minimum (d = "left") and maximum (d = "right") below a node
Extreme(t, n, d) ==
    LET down[m \in Prices] == IF t.child[m][d] = Nil THEN m ELSE down[t.child[m][d]]
    IN down[n]

\* (faulty variant: Minimum as the right child)
RightChild(t, n) == n
Minimum(t, n) == Extreme(t, n, "left")

\* the side of a node on which a price is looked for
Toward(price, n) == IF price < n THEN "left" ELSE "right"

\* searchNode
Search(t, price) ==
    LET find[n \in Nodes] ==
            IF n = Nil \/ n = price THEN n
            ELSE find[t.child[n][Toward(price, n)]]
    IN find[t.root]

\* leftRotate and rightRotate
Rotate(t, x, d) ==
    LET y == t.child[x][Other(d)]
        b == t.child[y][d]
        t1 == SetChild(t, x, Other(d), b)
        t2 == IF b = Nil THEN t1 ELSE SetParent(t1, b, x)
        t3 == Hang(SetParent(t2, y, t.parent[x]), t.parent[x], Side(t, x), y)
    IN SetParent(SetChild(t3, y, d, x), x, y)

\* the parent of Nil is set, too, and deleteFixup reads it
Transplant(t, u, v) == SetParent(Hang(t, t.parent[u], Side(t, u), v), v, t.parent[u])

-----------------------------------------------------------------------------
Init ==
    /\ tree = [root |-> Nil, color |-> [n \in Nodes |-> "black"],
               child |-> [n \in Nodes |-> IF n = Nil THEN Behind ELSE Leaf],
               parent |-> [n \in Nodes |-> IF n = Nil THEN Null ELSE Nil]]
    /\ fixing = "no"
    /\ at = Nil

\* the node below which insertNode puts a new price
Below(t, price) ==
    LET down[n \in Prices] ==
            LET next == t.child[n][Toward(price, n)]
            IN IF next = Nil THEN n ELSE down[next]
    IN IF t.root = Nil THEN Nil ELSE down[t.root]

\* insertNode
Attach(t, z) ==
    LET y == Below(t, z)
        new == SetParent(Fresh(t, z, "red"), z, y)
    IN Hang(new, y, Toward(z, y), z)

\* an existing level is returned and nothing changes
Insert(price) ==
    /\ fixing = "no"
    /\ Search(tree, price) = Nil
    /\ tree' = Attach(tree, price)
    /\ fixing' = "insert"
    /\ at' = price

\* a round of insertFixup below a red parent: the uncle is red
Repaint(t, z) ==
    LET p == t.parent[z]
        g == t.parent[p]
        y == t.child[g][Other(Side(t, p))]
    IN Paint(Paint(Paint(t, p, "black"), y, "black"), g, "red")

\* the uncle is black
TurnUp(t, z) ==
    LET g == t.parent[t.parent[z]]
        d == Side(t, t.parent[z])
        inner == Side(t, z) # d
        t1 == IF inner THEN Rotate(t, t.parent[z], d) ELSE t
        p == IF inner THEN z ELSE t.parent[z]
    IN Rotate(Paint(Paint(t1, p, "black"), g, "red"), g, Other(d))

Uncle(t, z) ==
    LET p == t.parent[z] IN t.child[t.parent[p]][Other(Side(t, p))]

\* (faulty variant: InsertFixup without the case of a red uncle)
SkipsRedUncle ==
    /\ fixing = "insert"
    /\ tree.color[tree.parent[at]] = "red"
    /\ IF tree.color[Uncle(tree, at)] = "red"
       THEN UNCHANGED <<tree, at>>
       ELSE /\ tree' = TurnUp(tree, at)
            /\ at' = IF Side(tree, at) # Side(tree, tree.parent[at]) THEN tree.parent[at] ELSE at
    /\ UNCHANGED fixing

InsertFixup ==
    /\ fixing = "insert"
    /\ tree.color[tree.parent[at]] = "red"
    /\ IF tree.color[Uncle(tree, at)] = "red"
       THEN tree' = Repaint(tree, at) /\ at' = tree.parent[tree.parent[at]]
       ELSE /\ tree' = TurnUp(tree, at)
            /\ at' = IF Side(tree, at) # Side(tree, tree.parent[at]) THEN tree.parent[at] ELSE at
    /\ UNCHANGED fixing

InsertDone ==
    /\ fixing = "insert"
    /\ tree.color[tree.parent[at]] = "black"
    /\ tree' = Paint(tree, tree.root, "black")
    /\ fixing' = "no"
    /\ at' = Nil

-----------------------------------------------------------------------------
\* deleteNode: the tree without z, the node that moved up into the gap, and
\* the color that was taken out of the tree
Detach(t, z) ==
    LET l == Left(t, z)
        r == Right(t, z)
        y == Minimum(t, r)
        x == Right(t, y)
        freed == IF t.parent[y] = z THEN SetParent(t, x, y)
                 ELSE SetParent(SetChild(Transplant(t, y, x), y, "right", r), r, y)
        moved == SetChild(Transplant(freed, z, y), y, "left", l)
    IN CASE l = Nil -> [tree |-> Transplant(t, z, r), up |-> r, color |-> t.color[z]]
         [] l # Nil /\ r = Nil -> [tree |-> Transplant(t, z, l), up |-> l, color |-> t.color[z]]
         [] OTHER ->
              [tree |-> Paint(SetParent(moved, l, y), y, t.color[z]), up |-> x, color |-> t.color[y]]

\* a price without a level changes nothing
Delete(price) ==
    /\ fixing = "no"
    /\ Search(tree, price) = price
    /\ LET d == Detach(tree, price)
       IN /\ tree' = Fresh(d.tree, price, "black")
          /\ fixing' = IF d.color = "black" THEN "delete" ELSE "no"
          /\ at' = IF d.color = "black" THEN d.up ELSE Nil

\* the sibling, after a red one was rotated away
Turned(t, x) ==
    LET p == t.parent[x]
        d == Side(t, x)
        w == t.child[p][Other(d)]
    IN IF t.color[w] = "red"
       THEN Rotate(Paint(Paint(t, w, "black"), p, "red"), p, d)
       ELSE t

Sibling(t, x) == t.child[t.parent[x]][Other(Side(t, x))]

\* a red nephew ends the loop
Absorb(t, x) ==
    LET p == t.parent[x]
        d == Side(t, x)
        w == t.child[p][Other(d)]
        far == t.child[w][Other(d)]
        near == t.child[w][d]
        t1 == IF t.color[far] = "red" THEN t
              ELSE Rotate(Paint(Paint(t, near, "black"), w, "red"), w, Other(d))
        w1 == t1.child[p][Other(d)]
        t2 == Paint(Paint(t1, w1, t1.color[p]), p, "black")
    IN Rotate(Paint(t2, t1.child[w1][Other(d)], "black"), p, d)

DeleteFixup ==
    /\ fixing = "delete"
    /\ at # tree.root /\ tree.color[at] = "black"
    /\ LET t == Turned(tree, at)
           w == Sibling(t, at)
       IN IF t.color[Left(t, w)] = "black" /\ t.color[Right(t, w)] = "black"
          THEN tree' = Paint(t, w, "red") /\ at' = t.parent[at]
          ELSE tree' = Absorb(t, at) /\ at' = tree'.root
    /\ UNCHANGED fixing

\* (faulty variant: DeleteDone without the last recolouring)
LeavesRed ==
    /\ fixing = "delete"
    /\ at = tree.root \/ tree.color[at] = "red"
    /\ fixing' = "no"
    /\ at' = Nil
    /\ UNCHANGED tree

DeleteDone ==
    /\ fixing = "delete"
    /\ at = tree.root \/ tree.color[at] = "red"
    /\ tree' = Paint(tree, at, "black")
    /\ fixing' = "no"
    /\ at' = Nil

Fixup == InsertFixup \/ InsertDone \/ DeleteFixup \/ DeleteDone

Next ==
    \/ \E price \in Prices : Insert(price) \/ Delete(price)
    \/ Fixup

Spec == Init /\ [][Next]_vars

\* the goroutine in a fix-up loop goes on
FairSpec == Spec /\ WF_vars(Fixup)

-----------------------------------------------------------------------------
(* What the readers get: they take the mutex, so no loop runs.              *)

\* (faulty variant: Following that never climbs)
NeverClimbs(t, n, d) ==
    IF t.child[n][Other(d)] # Nil THEN Extreme(t, t.child[n][Other(d)], d) ELSE t.parent[n]

\* successor (d = "left") and predecessor (d = "right")
Following(t, n, d) ==
    LET up[m \in Prices] ==
            LET p == t.parent[m] IN IF p # Nil /\ m = t.child[p][Other(d)] THEN up[p] ELSE p
    IN IF t.child[n][Other(d)] # Nil THEN Extreme(t, t.child[n][Other(d)], d) ELSE up[n]

GetBest(isBid) == IF tree.root = Nil THEN Nil
                  ELSE Extreme(tree, tree.root, IF isBid THEN "right" ELSE "left")

GetLevels(isBid, maxLevels) ==
    LET d == IF isBid THEN "right" ELSE "left"
        current[k \in 0 .. maxLevels] ==
            IF k = 0 THEN GetBest(isBid)
            ELSE LET n == current[k - 1] IN IF n = Nil THEN Nil ELSE Following(tree, n, d)
        listed == {k \in 1 .. maxLevels : current[k - 1] # Nil}
    IN [k \in listed |-> current[k - 1]]

-----------------------------------------------------------------------------
Subtree(t, n) ==
    LET keys[m \in Nodes] == IF m = Nil THEN {} ELSE {m} \cup keys[Left(t, m)] \cup keys[Right(t, m)]
    IN keys[n]
Keys == Subtree(tree, tree.root)

\* the numbers of black nodes on the paths down from a node
BlackHeights(t, n) ==
    LET heights[m \in Nodes] ==
            IF m = Nil THEN {0}
            ELSE {h + (IF t.color[m] = "black" THEN 1 ELSE 0) :
                    h \in heights[Left(t, m)] \cup heights[Right(t, m)]}
    IN heights[n]

\* Go's nil is nowhere but behind the sentinel
TypeOK ==
    /\ tree \in [root : Nodes, color : [Nodes -> {"red", "black"}],
                child : [Nodes -> [Sides -> Nodes \cup {Null}]], parent : [Nodes -> Nodes \cup {Null}]]
    /\ \A n \in Prices : tree.child[n] \in [Sides -> Nodes] /\ tree.parent[n] \in Nodes
    /\ fixing \in {"no", "insert", "delete"}
    /\ at \in Nodes

\* Links agree: a child knows its parent, the root has none, and the shared
\* sentinel stays black and without children whatever is written to it
\* (rbtree.go:304-349).
Linked ==
    /\ tree.root # Nil => tree.parent[tree.root] = Nil
    /\ \A n \in Keys, d \in Sides :
          LET c == tree.child[n][d] IN c # Nil => c \in Prices /\ tree.parent[c] = n
    /\ tree.color[Nil] = "black"
    /\ tree.child[Nil] = Behind

\* A search finds every level: smaller prices are left of a node, larger ones
\* right of it, also between two rounds of a loop (rbtree.go:140-175).
SearchOrder ==
    \A n \in Keys : /\ \A m \in Subtree(tree, Left(tree, n)) : m < n
                    /\ \A m \in Subtree(tree, Right(tree, n)) : m > n

\* The tree is balanced when the mutex is free: no red node has a red child,
\* and all paths carry the same number of black nodes (rbtree.go:177-302).
RedBlack ==
    fixing = "no" =>
        /\ tree.color[tree.root] = "black"
        /\ \A n \in Keys : tree.color[n] = "red" =>
              tree.color[Left(tree, n)] = "black" /\ tree.color[Right(tree, n)] = "black"
        /\ Cardinality(BlackHeights(tree, tree.root)) = 1

\* deleteFixup never meets the sentinel as a sibling, whose children are Go's
\* nil and whose colors it would read, and insertFixup never has it as
\* grandparent (rbtree.go:177-180, 250-259).
FixupIsSafe ==
    /\ fixing = "delete" /\ at # tree.root /\ tree.color[at] = "black" =>
           /\ tree.parent[at] \in Keys
           /\ at \in {Left(tree, tree.parent[at]), Right(tree, tree.parent[at])}
           /\ Sibling(tree, at) # Nil /\ Sibling(Turned(tree, at), at) # Nil
    /\ fixing = "insert" /\ tree.color[tree.parent[at]] = "red" =>
           tree.parent[tree.parent[at]] \in Keys

\* After and during any run of inserts and deletes this is a red-black tree,
\* and the loops never read behind the sentinel (rbtree.go:140-349).
IsRedBlackTree == TypeOK /\ Linked /\ SearchOrder /\ RedBlack /\ FixupIsSafe

\* GetLevels lists the best levels, best first, and no more than asked for
\* (rbtree.go:108-138).
LevelsInOrder ==
    fixing = "no" =>
        \A isBid \in BOOLEAN, k \in 0 .. Cardinality(Keys) + 1 :
            LET listed == GetLevels(isBid, k)
                Better(p, q) == IF isBid THEN p > q ELSE p < q
            IN /\ Len(listed) = IF k < Cardinality(Keys) THEN k ELSE Cardinality(Keys)
               /\ \A i, j \in DOMAIN listed : i < j => Better(listed[i], listed[j])
               /\ \A p \in Keys : (\E i \in DOMAIN listed : listed[i] = p)
                                  \/ \A i \in DOMAIN listed : Better(listed[i], p)

\* The loops end: Insert and Delete give the mutex back (rbtree.go:177-302).
FixupEnds == fixing # "no" ~> fixing = "no"

\* The tree holds exactly the levels that were inserted and not deleted, and
\* GetBest finds the best of them: a loop moves nodes about but neither loses
\* nor invents one (rbtree.go:40-106).
ImplementsLevels ==
    INSTANCE PriceLevels WITH levels <- Keys, lowest <- GetBest(FALSE), highest <- GetBest(TRUE),
                              NoPrice <- Nil
HoldsTheLevels == ImplementsLevels!Spec
=============================================================================
