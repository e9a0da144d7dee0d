-------------------------------- MODULE RbTree --------------------------------
(***************************************************************************)
(* dl_rbtree.c, pointer by pointer.  The callers own the nodes: 1 .. N     *)
(* with fixed keys.  Nil is the sentinel, Null the C NULL, Bak the copy of *)
(* a node that dl_rbtree_delete keeps on its stack and leaves in the tree  *)
(* as a black hole until the colours are repaired.                         *)
(*                                                                         *)
(* The left and the right half of the code mirror each other: kid["L"] is  *)
(* left, kid["R"] is right, and one operator stands for both halves.  One  *)
(* call is one step, because the tree has one caller at a time.            *)
(*                                                                         *)
(* Two branches of the code leave a broken tree behind (InnerLeft and the  *)
(* new root's parent in DeleteRoot).  "fault" says that one of them was    *)
(* taken; what later calls do then depends on memory that is not the       *)
(* tree's, and the model ends.  (Rotations take a node with a parent for   *)
(* "not the root node", lines 210 and 240, and would lose the root.)       *)
(***************************************************************************)
EXTENDS Integers, FiniteSets, Sequences

CONSTANTS N,        \* number of nodes
          KeyDiv    \* node n has the key n \div KeyDiv

VARIABLES t,        \* root, and kid, parent and red of each node
          members,  \* history: the nodes inserted and not deleted
          fault     \* history: "none", "inner" or "root"

vars == <<t, members, fault>>

Null == -1
Nil == 0
Bak == N + 1
Nodes == 1 .. N
Memory == {Nil, Bak} \cup Nodes
Sides == {"L", "R"}

key(n) == n \div KeyDiv
Opp(d) == IF d = "L" THEN "R" ELSE "L"

\* The side on which x hangs; like the code, "right" when it is not left.
Side(h, x) == IF h.kid["L"][h.parent[x]] = x THEN "L" ELSE "R"

dl_rbtree_sibling(h, x) == h.kid[Opp(Side(h, x))][h.parent[x]]

RECURSIVE dl_rbtree_min(_, _)
dl_rbtree_min(h, x) ==
    IF h.kid["L"][x] = Nil THEN x ELSE dl_rbtree_min(h, h.kid["L"][x])

Paint(h, x, red) == [h EXCEPT !.red[x] = red]

\* The place of x in the tree, below its parent or at the root, is now y's.
Replace(h, x, y) ==
    IF h.parent[x] = Null THEN [h EXCEPT !.root = y]
    ELSE [h EXCEPT !.kid[Side(h, x)][h.parent[x]] = y]

\* dl_rbtree_left_rotate (d = "L") and dl_rbtree_right_rotate: x goes down on
\* side d and its other child comes up.
Rotate(h, x, d) ==
    LET top == h.kid[Opp(d)][x]
        moved == h.kid[d][top]
        up == Replace(h, x, top)
        down == [up EXCEPT !.kid[Opp(d)][x] = moved, !.kid[d][top] = x,
                           !.parent[x] = top, !.parent[top] = h.parent[x]]
    IN  IF moved \in {Nil, Null} THEN down ELSE [down EXCEPT !.parent[moved] = x]

-------------------------------------------------------------------------------
(* dl_rbtree_insert.                                                         *)

\* The right child turns above its parent, which becomes a left child.
Straight(h, x) ==
    LET p == h.parent[x]
        g == h.parent[p]
    IN  Paint(Paint(Rotate(h, g, Opp(Side(h, x))), p, FALSE), g, TRUE)

\* x is the right child of a left child.  The code turns x and not its parent:
\* with no right child below x the sentinel comes up and its left is NULL;
\* otherwise it goes on with the left child of x after the turn.
InnerLeft(h, x) ==
    LET turned == Rotate(h, x, "L")
        below == turned.kid["L"][x]
    IN  IF Nil \in {h.kid["R"][x], below} THEN turned ELSE Straight(turned, below)

\* Mutant: the turn of the inner case is forgotten.
InnerRightNone(h, x) == Straight(h, x)

\* x is the left child of a right child.
InnerRight(h, x) ==
    LET turned == Rotate(h, h.parent[x], "R")
    IN  Straight(turned, turned.kid["R"][x])

\* dl_rbtree_repair
RECURSIVE dl_rbtree_repair(_, _)
dl_rbtree_repair(h, x) ==
    LET p == h.parent[x]
        g == h.parent[p]
        uncle == dl_rbtree_sibling(h, p)
    IN  CASE p = Null -> [tree |-> Paint(h, x, FALSE), fault |-> "none"]
          [] p # Null /\ ~h.red[p] -> [tree |-> h, fault |-> "none"]
          [] p # Null /\ h.red[p] /\ h.red[uncle] ->
                dl_rbtree_repair(
                    Paint(Paint(Paint(h, p, FALSE), uncle, FALSE), g, TRUE), g)
          [] OTHER ->
                IF x = h.kid["R"][h.kid["L"][g]]
                THEN [tree |-> InnerLeft(h, x), fault |-> "inner"]
                ELSE IF x = h.kid["L"][h.kid["R"][g]]
                THEN [tree |-> InnerRight(h, x), fault |-> "none"]
                ELSE [tree |-> Straight(h, x), fault |-> "none"]

\* dl_rbtree_insert_value: where a node with key k goes, below x.
RECURSIVE Place(_, _, _)
Place(h, x, k) ==
    LET d == IF k < key(x) THEN "L" ELSE "R"
    IN  IF h.kid[d][x] = Nil THEN [below |-> x, side |-> d]
        ELSE Place(h, h.kid[d][x], k)

Leaf(h, n, p, red) ==
    [h EXCEPT !.kid["L"][n] = Nil, !.kid["R"][n] = Nil,
              !.parent[n] = p, !.red[n] = red]

Inserted(h, n) ==
    IF h.root = Nil
    THEN [tree |-> [Leaf(h, n, Null, FALSE) EXCEPT !.root = n], fault |-> "none"]
    ELSE LET at == Place(h, h.root, key(n))
         IN  dl_rbtree_repair(
                 [Leaf(h, n, at.below, TRUE) EXCEPT !.kid[at.side][at.below] = n], n)

-------------------------------------------------------------------------------
(* dl_rbtree_delete.                                                         *)

\* "DEBUG stuff": the links of the deleted node are cleared.  Its colour stays
\* in the code but is painted before it is read again.
Wipe(h, x) ==
    [h EXCEPT !.kid["L"][x] = Null, !.kid["R"][x] = Null,
              !.parent[x] = Null, !.red[x] = FALSE]

\* dl_rbtree_del_repair_done: the child takes the place of the copy.
dl_rbtree_del_repair_done(h) ==
    LET child == IF h.kid["L"][Bak] # Nil THEN h.kid["L"][Bak] ELSE h.kid["R"][Bak]
        linked == IF child = Nil THEN h ELSE [h EXCEPT !.parent[child] = h.parent[Bak]]
    IN  Wipe(Replace(linked, Bak, child), Bak)

DoneIf(h, outermost) == IF outermost THEN dl_rbtree_del_repair_done(h) ELSE h

\* Cases 5 and 6: the sibling s of x is black, one of its children is red.
\* Mutant: the sibling's colour is not copied.
CopyColorNot(h, s, p) == h

CopyColor(h, s, p) == Paint(h, s, h.red[p])

Case5(h, x) ==
    LET d == Side(h, x)
        s == dl_rbtree_sibling(h, x)
        near == h.kid[d][s]
    IN  IF ~h.red[s] /\ ~h.red[h.kid[Opp(d)][s]] /\ h.red[near]
        THEN Rotate(Paint(Paint(h, s, TRUE), near, FALSE), s, Opp(d))
        ELSE h

Case6(h, x) ==
    LET p == h.parent[x]
        d == Side(h, x)
        s == dl_rbtree_sibling(h, x)
        painted == Paint(Paint(CopyColor(h, s, p), p, FALSE), h.kid[Opp(d)][s], FALSE)
    IN  Rotate(painted, p, d)

\* Case 2: the sibling is red and comes up.
Case2(h, x) ==
    LET p == h.parent[x]
        s == dl_rbtree_sibling(h, x)
    IN  IF h.red[s]
        THEN Rotate(Paint(Paint(h, p, TRUE), s, FALSE), p, Side(h, x))
        ELSE h

\* dl_rbtree_delete_repair: paths through x lack one black node.
RECURSIVE dl_rbtree_delete_repair(_, _, _)
dl_rbtree_delete_repair(h, x, outermost) ==
    LET g == Case2(h, x)
        p == g.parent[x]
        s == dl_rbtree_sibling(g, x)
        allBlack == ~g.red[s] /\ ~g.red[g.kid["L"][s]] /\ ~g.red[g.kid["R"][s]]
    IN  CASE h.parent[x] = Null -> [h EXCEPT !.root = x]
          [] h.parent[x] # Null /\ allBlack /\ ~g.red[p] ->
                DoneIf(dl_rbtree_delete_repair(Paint(g, s, TRUE), p, FALSE), outermost)
          [] h.parent[x] # Null /\ allBlack /\ g.red[p] ->
                DoneIf(Paint(Paint(g, s, TRUE), p, FALSE), outermost)
          [] OTHER -> DoneIf(Case6(Case5(g, x), x), outermost)

\* node has at most one child and is the root.  The child keeps its parent.
DeleteRoot(h, node, child) ==
    [tree |-> Wipe(Paint([h EXCEPT !.root = child], child, FALSE), node),
     fault |-> IF child = Nil THEN "none" ELSE "root"]

\* Bak takes the place of d, and d, if it is another node, the place of node.
Moved(h, node, d) ==
    LET copied == [h EXCEPT !.kid["L"][Bak] = h.kid["L"][d],
                            !.kid["R"][Bak] = h.kid["R"][d],
                            !.parent[Bak] = h.parent[d], !.red[Bak] = h.red[d],
                            !.kid[Side(h, d)][h.parent[d]] = Bak]
        left == copied.kid["L"][node]
        right == copied.kid["R"][node]
        put == [Replace(copied, node, d) EXCEPT
                    !.kid["L"][d] = left, !.kid["R"][d] = right,
                    !.parent[d] = copied.parent[node], !.red[d] = copied.red[node]]
        up == IF left = Nil THEN put ELSE [put EXCEPT !.parent[left] = d]
    IN  IF d = node THEN copied
        ELSE IF right = Nil THEN up ELSE [up EXCEPT !.parent[right] = d]

Deleted(h, node) ==
    LET inner == Nil \notin {h.kid["L"][node], h.kid["R"][node]}
        d == IF inner THEN dl_rbtree_min(h, h.kid["R"][node]) ELSE node
        child == IF h.kid["L"][d] # Nil THEN h.kid["L"][d] ELSE h.kid["R"][d]
        m == Wipe(Moved(h, node, d), node)
    IN  IF d = h.root THEN DeleteRoot(h, node, child)
        ELSE [fault |-> "none",
              tree |-> IF h.red[d] THEN dl_rbtree_del_repair_done(m)
                       ELSE IF child # Nil
                       THEN dl_rbtree_del_repair_done(Paint(m, child, FALSE))
                       ELSE dl_rbtree_delete_repair(m, Bak, TRUE)]

-------------------------------------------------------------------------------
(* dl_rbtree_next, and the walk that callers make with it.                   *)

RECURSIVE Climb(_, _)
Climb(h, x) ==
    IF x = h.root THEN Null
    ELSE IF h.kid["L"][h.parent[x]] = x THEN h.parent[x] ELSE Climb(h, h.parent[x])

\* Mutant: the successor is looked for above only.
NextAbove(h, x) == Climb(h, x)

dl_rbtree_next(h, x) ==
    IF h.kid["R"][x] # Nil THEN dl_rbtree_min(h, h.kid["R"][x]) ELSE Climb(h, x)

RECURSIVE WalkFrom(_, _)
WalkFrom(h, x) ==
    IF x = Null THEN <<>> ELSE <<x>> \o WalkFrom(h, dl_rbtree_next(h, x))

Walk == IF t.root = Nil THEN <<>> ELSE WalkFrom(t, dl_rbtree_min(t, t.root))

-------------------------------------------------------------------------------
Init ==
    /\ t = [root |-> Nil,
            kid |-> [d \in Sides |-> [x \in Memory |-> Null]],
            parent |-> [x \in Memory |-> Null],
            red |-> [x \in Memory |-> FALSE]]
    /\ members = {}
    /\ fault = "none"

dl_rbtree_insert(n) ==
    /\ fault = "none"
    /\ n \notin members
    /\ LET r == Inserted(t, n)
       IN  t' = r.tree /\ fault' = r.fault
    /\ members' = members \cup {n}

dl_rbtree_delete(n) ==
    /\ fault = "none"
    /\ n \in members
    /\ LET r == Deleted(t, n)
       IN  t' = r.tree /\ fault' = r.fault
    /\ members' = members \ {n}

Next == \E n \in Nodes : dl_rbtree_insert(n) \/ dl_rbtree_delete(n)

Spec == Init /\ [][Next]_vars

-------------------------------------------------------------------------------
(* Properties.                                                               *)

\* Every link leads to the root, a child or NULL, never to the stack copy.
TypeOK ==
    fault # "inner" =>
        /\ t.root \in members \cup {Nil}
        /\ \A x \in Nodes :
              /\ t.parent[x] \in Nodes \cup {Null}
              /\ t.red[x] \in BOOLEAN
              /\ \A d \in Sides : t.kid[d][x] \in Nodes \cup {Nil, Null}

\* Parent and child links agree, and only the root has no parent.
LinksAgree ==
    \A x \in members :
        /\ x # t.root => t.parent[x] \in members /\ t.kid[Side(t, x)][t.parent[x]] = x
        /\ \A d \in Sides : t.kid[d][x] = Nil
                            \/ (t.kid[d][x] \in members /\ t.parent[t.kid[d][x]] = x)

RECURSIVE Blacks(_)
Blacks(x) ==
    IF x = Nil THEN {0}
    ELSE {b + (IF t.red[x] THEN 0 ELSE 1) :
             b \in Blacks(t.kid["L"][x]) \cup Blacks(t.kid["R"][x])}

\* "re-balance tree" (dl_rbtree.c:66) and "the tree is balanced" (455): the
\* links form a tree with a black root, no red child of a red node and as many
\* black nodes on every path.
RedBlack ==
    /\ LinksAgree
    /\ ~t.red[t.root]
    /\ \A x \in members : t.red[x] => \A d \in Sides : ~t.red[t.kid[d][x]]
    /\ Cardinality(Blacks(t.root)) = 1

RedBlackKept == fault = "none" => RedBlack

\* The walk with dl_rbtree_next meets each node once, in the order of keys.
WalkSorted ==
    fault = "none" =>
        /\ Len(Walk) = Cardinality(members)
        /\ {Walk[i] : i \in DOMAIN Walk} = members
        /\ \A i \in 1 .. Len(Walk) - 1 : key(Walk[i]) <= key(Walk[i + 1])
================================================================================
