------------------------------ MODULE Containers ------------------------------
(***************************************************************************)
(* The containers whose nodes lie inside the callers' own structures: the  *)
(* red-black tree, the balanced tree and the queue.  They share no code; a *)
(* program uses one of them here.                                          *)
(***************************************************************************)
EXTENDS Integers

CONSTANTS RbNodes, BstNodes, QueueNodes,    \* numbers of nodes
          KeyDiv,   \* node n has the key n \div KeyDiv
          LongBits  \* width of unsigned long

ASSUME ContainersAssumption ==
    /\ {RbNodes, BstNodes, QueueNodes, KeyDiv} \subseteq Nat \ {0}
    /\ LongBits \in Nat /\ 2 * BstNodes < 2 ^ LongBits

VARIABLES kind,                 \* "rbtree", "bstree" or "queue"
          t, members, fault,    \* the tree
          link, ready, order    \* the queue

tree == <<t, members, fault>>
queue == <<link, ready, order>>
vars == <<kind, tree, queue>>

R == INSTANCE RbTree WITH N <- RbNodes
B == INSTANCE BsTree WITH N <- BstNodes
Q == INSTANCE Queue WITH N <- QueueNodes

NoTree == t = <<>> /\ members = {} /\ fault = "none"
NoQueue == link = <<>> /\ ready = {} /\ order = <<>>

Init ==
    \/ kind = "rbtree" /\ R!Init /\ NoQueue
    \/ kind = "bstree" /\ B!Init /\ NoQueue
    \/ kind = "queue" /\ Q!Init /\ NoTree

Next ==
    /\ UNCHANGED kind
    /\ \/ kind = "rbtree" /\ R!Next /\ UNCHANGED queue
       \/ kind = "bstree" /\ B!Next /\ UNCHANGED queue
       \/ kind = "queue" /\ Q!Next /\ UNCHANGED tree

Spec == Init /\ [][Next]_vars

-------------------------------------------------------------------------------
(* Properties.                                                               *)

\* Every link of a tree leads to a member, the sentinel or NULL, and the links of
\* the balanced tree agree with each other and with the heights.
TypeOK ==
    CASE kind = "rbtree" -> R!TypeOK
      [] kind = "bstree" -> B!TypeOK
      [] kind = "queue" -> ready \subseteq Q!Heads

\* dl_rbtree_insert and dl_rbtree_delete keep a red-black tree, but for the two
\* branches that break it.
RedBlackKept == kind = "rbtree" => R!RedBlackKept

\* dl_bstree_insert and dl_bstree_delete keep a balanced tree, but for the
\* faults.
BalancedKept == kind = "bstree" => B!BalancedKept

\* A walk with dl_rbtree_next or dl_bstree_next meets each node once, in the
\* order of keys.
WalkSorted ==
    /\ kind = "rbtree" => R!WalkSorted
    /\ kind = "bstree" => B!WalkSorted

\* dl_queue's macros, dl_queue_sort and dl_queue_middle do what they would do
\* with a list.
QueueKept == kind = "queue" => Q!QueueKept
================================================================================
