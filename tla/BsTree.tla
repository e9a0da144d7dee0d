-------------------------------- MODULE BsTree --------------------------------
(***************************************************************************)
(* dl_bstree.c, an AVL tree, pointer by pointer.  The callers own the      *)
(* nodes: 1 .. N with fixed keys, KeyDiv nodes to a key.  Null is NULL.    *)
(* kid["L"] is left, kid["R"] is right; one call is one step.              *)
(*                                                                         *)
(* Heights are unsigned long, so the balance of a node is too, until it is *)
(* stored into an int.  The code compares it both ways.                    *)
(*                                                                         *)
(* Three things break the tree: a duplicate key below the root; a deletion *)
(* that picks the wrong rotation, which may follow NULL; and a deletion    *)
(* that rotates below the root, after which a subtree's top has no parent. *)
(* "fault" says that one of them happened; the model ends there.           *)
(***************************************************************************)
EXTENDS Integers, FiniteSets, Sequences

CONSTANTS N,        \* number of nodes
          KeyDiv,   \* node n has the key n \div KeyDiv
          LongBits  \* width of unsigned long

VARIABLES t,        \* root, and kid, parent and height of each node
          members,  \* history: the nodes inserted and not deleted
          fault     \* history: "none", "duplicate", "rotation", "crash", "parent"

vars == <<t, members, fault>>

Null == 0
Nodes == 1 .. N
Sides == {"L", "R"}

key(n) == n \div KeyDiv
Keys == {key(n) : n \in Nodes}
Opp(d) == IF d = "L" THEN "R" ELSE "L"
Higher(a, b) == IF a > b THEN a ELSE b

dl_bst_height(h, x) == IF x = Null THEN 0 ELSE h.height[x]

\* int balance: the difference as a signed number.
Balance(h, x) ==
    IF x = Null THEN 0
    ELSE dl_bst_height(h, h.kid["L"][x]) - dl_bst_height(h, h.kid["R"][x])

\* dl_bst_get_balance, an unsigned long.
dl_bst_get_balance(h, x) == Balance(h, x) % 2 ^ LongBits

RECURSIVE dl_bstree_min(_, _)
dl_bstree_min(h, x) ==
    IF h.kid["L"][x] = Null THEN x ELSE dl_bstree_min(h, h.kid["L"][x])

SetParent(h, x, p) == IF x = Null THEN h ELSE [h EXCEPT !.parent[x] = p]

\* Mutant: the height is that of the left side.
SetHeightLeft(h, x) == [h EXCEPT !.height[x] = 1 + dl_bst_height(h, h.kid["L"][x])]

SetHeight(h, x) ==
    [h EXCEPT !.height[x] = 1 + Higher(dl_bst_height(h, h.kid["L"][x]),
                                       dl_bst_height(h, h.kid["R"][x]))]

\* The tree after a call on a subtree, the top of the subtree, and the fault.
Result(h, top, f) == [tree |-> h, top |-> top, fault |-> f]

\* dl_bstree_left_rotate (d = "L") and dl_bstree_right_rotate.  The new top gets
\* no parent.  Without a child to come up the code follows NULL: a crash.
Rotate(h, x, d) ==
    LET top == h.kid[Opp(d)][x]
        moved == h.kid[d][top]
        turned == [SetParent(h, moved, x) EXCEPT
                      !.kid[Opp(d)][x] = moved, !.kid[d][top] = x,
                      !.parent[x] = top, !.parent[top] = Null]
    IN  IF top = Null THEN Result(h, x, "crash")
        ELSE Result(SetHeight(SetHeight(turned, x), top), top, "none")

\* First the child on side Opp(d) is turned the other way, then x.
RotateTwice(h, x, d) ==
    LET r == Rotate(h, h.kid[Opp(d)][x], Opp(d))
    IN  IF r.fault # "none" THEN Result(h, x, r.fault)
        ELSE Rotate([r.tree EXCEPT !.kid[Opp(d)][x] = r.top], x, d)

-------------------------------------------------------------------------------
(* dl_bstree_insert.                                                         *)

\* Mutant: a single rotation is always enough.
InnerNever(h, n, child, d) == FALSE

\* The new node is in the inner half of the heavy child.
Inner(h, n, child, d) == IF d = "L" THEN key(n) > key(child) ELSE key(n) < key(child)

\* dl_bstree_insert_repair
dl_bstree_insert_repair(h, x, n) ==
    LET g == SetHeight(h, x)
        b == Balance(g, x)
        d == IF b > 1 THEN "L" ELSE "R"
    IN  IF b \in -1 .. 1 THEN Result(g, x, "none")
        ELSE IF Inner(g, n, g.kid[d][x], d) THEN RotateTwice(g, x, Opp(d))
        ELSE Rotate(g, x, Opp(d))

\* dl_bstree_insert_value.  A duplicate key below x cuts off the child of x
\* before NULL is passed on.
RECURSIVE dl_bstree_insert_value(_, _, _)
dl_bstree_insert_value(h, x, n) ==
    LET d == IF key(n) < key(x) THEN "L" ELSE "R"
        r == IF h.kid[d][x] = Null THEN Result(h, n, "none")
             ELSE dl_bstree_insert_value(h, h.kid[d][x], n)
        put == [r.tree EXCEPT !.kid[d][x] = r.top]
    IN  IF key(n) = key(x) THEN Result(h, Null, "none")
        ELSE IF r.top = Null THEN Result(put, Null, "duplicate")
        ELSE dl_bstree_insert_repair(SetParent(put, r.top, x), x, n)

Fresh(h, n) ==
    [h EXCEPT !.height[n] = 1, !.parent[n] = Null,
              !.kid["L"][n] = Null, !.kid["R"][n] = Null]

-------------------------------------------------------------------------------
(* dl_bstree_delete.                                                         *)

\* "rebalance": the children's balances are compared as unsigned numbers.  The
\* fault is a left child that leans right, or a right child that leans right.
Rebalance(h, x) ==
    LET g == SetHeight(h, x)
        b == Balance(g, x)
        left == g.kid["L"][x]
        right == g.kid["R"][x]
        r == CASE b > 1 /\ dl_bst_get_balance(g, left) >= 0 -> Rotate(g, x, "R")
               [] b < -1 /\ dl_bst_get_balance(g, right) <= 0 -> Rotate(g, x, "L")
               [] b > 1 /\ dl_bst_get_balance(g, left) < 0 -> RotateTwice(g, x, "R")
               [] b < -1 /\ dl_bst_get_balance(g, right) > 0 -> RotateTwice(g, x, "L")
               [] OTHER -> Result(g, x, "none")
        wrong == \/ b > 1 /\ Balance(g, left) < 0
                 \/ b < -1 /\ Balance(g, right) < 0
    IN  IF wrong /\ r.fault = "none" THEN [r EXCEPT !.fault = "rotation"] ELSE r

\* y takes the place of x below the parent of x.
Relink(h, x, y) ==
    LET p == h.parent[x]
    IN  IF p = Null THEN SetParent(h, y, Null)
        ELSE [SetParent(h, y, p) EXCEPT
                 !.kid[IF h.kid["L"][p] = x THEN "L" ELSE "R"][p] = y]

\* x has two children: its successor y and x change places.
Exchange(h, x, y) ==
    LET left == h.kid["L"][x]
        right == h.kid["R"][x]
        below == h.kid["R"][y]
        up == [Relink(h, x, y) EXCEPT !.kid["L"][y] = left, !.parent[left] = y]
        down == SetParent([up EXCEPT !.kid["L"][x] = Null, !.kid["R"][x] = below],
                          below, x)
    IN  IF right = y
        THEN [down EXCEPT !.kid["R"][y] = x, !.parent[x] = y]
        ELSE [down EXCEPT !.kid["R"][y] = right, !.parent[right] = y,
                          !.parent[x] = h.parent[y], !.kid["L"][h.parent[y]] = x]

Successor(h, x) == dl_bstree_min(h, h.kid["R"][x])

RECURSIVE dl_bstree_delete(_, _, _)
\* The subtree of x without the key k, in the subtree on side d.
RECURSIVE DeleteBelow(_, _, _, _)
DeleteBelow(h, x, d, k) ==
    LET r == dl_bstree_delete(h, h.kid[d][x], k)
        s == Rebalance([r.tree EXCEPT !.kid[d][x] = r.top], x)
    IN  IF r.fault = "crash" THEN r
        ELSE IF s.fault = "none" THEN [s EXCEPT !.fault = r.fault]
        ELSE s

dl_bstree_delete(h, x, k) ==
    LET one == IF h.kid["L"][x] # Null THEN h.kid["L"][x] ELSE h.kid["R"][x]
        y == Successor(h, x)
    IN  CASE x = Null -> Result(h, Null, "none")
          [] x # Null /\ k < key(x) -> DeleteBelow(h, x, "L", k)
          [] x # Null /\ k > key(x) -> DeleteBelow(h, x, "R", k)
          [] OTHER ->
               IF Null \in {h.kid["L"][x], h.kid["R"][x]}
               THEN Result(Relink(h, x, one), one, "none")
               ELSE DeleteBelow(Exchange(h, x, y), y, "R", k)

\* What is left in a node that was deleted is set anew when it is inserted.
Wipe(h, x) ==
    [h EXCEPT !.kid["L"][x] = Null, !.kid["R"][x] = Null,
              !.parent[x] = Null, !.height[x] = 0]

-------------------------------------------------------------------------------
(* dl_bstree_next, dl_bstree_find_by_key, and a walk through the tree.       *)

RECURSIVE dl_bstree_find(_, _, _)
dl_bstree_find(h, x, k) ==
    IF x = Null \/ key(x) = k THEN x
    ELSE dl_bstree_find(h, h.kid[IF key(x) > k THEN "L" ELSE "R"][x], k)

dl_bstree_find_by_key(k) == dl_bstree_find(t, t.root, k)

RECURSIVE Climb(_, _)
Climb(h, x) ==
    IF x = h.root THEN Null
    ELSE IF h.kid["L"][h.parent[x]] = x THEN h.parent[x] ELSE Climb(h, h.parent[x])

dl_bstree_next(h, x) ==
    IF h.kid["R"][x] # Null THEN dl_bstree_min(h, h.kid["R"][x]) ELSE Climb(h, x)

RECURSIVE WalkFrom(_, _)
WalkFrom(h, x) ==
    IF x = Null THEN <<>> ELSE <<x>> \o WalkFrom(h, dl_bstree_next(h, x))

Walk == IF t.root = Null THEN <<>> ELSE WalkFrom(t, dl_bstree_min(t, t.root))

-------------------------------------------------------------------------------
Init ==
    /\ t = [root |-> Null,
            kid |-> [d \in Sides |-> [x \in Nodes |-> Null]],
            parent |-> [x \in Nodes |-> Null],
            height |-> [x \in Nodes |-> 0]]
    /\ members = {} /\ fault = "none"

dl_bstree_insert(n) ==
    LET h == Fresh(t, n)
        r == IF t.root = Null THEN Result(h, n, "none")
             ELSE dl_bstree_insert_value(h, t.root, n)
    IN  /\ fault = "none"
        /\ n \notin members
        /\ fault' = r.fault
        /\ IF r.top = Null
           THEN t' = Wipe(r.tree, n) /\ UNCHANGED members
           ELSE /\ t' = [r.tree EXCEPT !.root = r.top]
                /\ members' = members \cup {n}

\* dl_bstree_delete_by_key; dl_bstree_delete_by_node passes the node's key.
dl_bstree_delete_by_key(k) ==
    LET n == dl_bstree_find_by_key(k)
        r == dl_bstree_delete(t, t.root, k)
        h == [Wipe(r.tree, n) EXCEPT !.root = r.top]
        left == members \ {n}
    IN  /\ fault = "none"
        /\ n # Null
        /\ t' = IF r.fault = "crash" THEN r.tree ELSE h
        /\ members' = left
        /\ fault' = IF r.fault # "none" THEN r.fault
                    ELSE IF \E x \in left \ {r.top} : h.parent[x] = Null THEN "parent"
                    ELSE "none"

Next ==
    \/ \E n \in Nodes : dl_bstree_insert(n)
    \/ \E k \in Keys : dl_bstree_delete_by_key(k)

Spec == Init /\ [][Next]_vars

-------------------------------------------------------------------------------
(* Properties.                                                               *)

\* The links between members agree and the heights are right.
TypeOK ==
    fault = "none" =>
        /\ t.root \in members \cup {Null}
        /\ \A x \in members :
              /\ (t.parent[x] = Null) = (x = t.root)
              /\ t.height[x] = 1 + Higher(dl_bst_height(t, t.kid["L"][x]),
                                          dl_bst_height(t, t.kid["R"][x]))
              /\ \A d \in Sides : t.kid[d][x] # Null =>
                    t.kid[d][x] \in members /\ t.parent[t.kid[d][x]] = x

\* "AVT" (dl_bstree.h:7) and the four cases drawn at dl_bstree.c:348: no node
\* leans by more than one, as long as no deletion picked the wrong rotation.
BalancedKept == fault = "none" => \A x \in members : Balance(t, x) \in -1 .. 1

\* The walk with dl_bstree_next meets each node once, in the order of keys.
WalkSorted ==
    fault = "none" =>
        /\ Len(Walk) = Cardinality(members)
        /\ {Walk[i] : i \in DOMAIN Walk} = members
        /\ \A i \in 1 .. Len(Walk) - 1 : key(Walk[i]) < key(Walk[i + 1])

\* dl_bstree_insert answers a "duplicated" key (dl_bstree.c:313) with NULL: the
\* nodes that are in the tree are found as before.
DuplicateRefused ==
    fault \in {"none", "duplicate"} =>
        \A n \in members : dl_bstree_find_by_key(key(n)) = n
================================================================================
