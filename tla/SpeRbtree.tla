------------------------------ MODULE SpeRbtree ------------------------------
(***************************************************************************)
(* The red-black tree of src/spe/spe_rbtree.c, which holds the timers.  A  *)
(* tree is a record of the pointers and colours the code keeps; left and   *)
(* right are a parameter where the code is written twice.  Nodes with      *)
(* their keys are inserted by the descent of SpeTaskEnqueueTimer.          *)
(***************************************************************************)
EXTENDS Integers, SequencesExt

CONSTANTS Nodes,
          Key,          \* of each node, a number
          NULL          \* no node

VARIABLES t,        \* the tree
          order     \* the nodes in it, in the order it is to keep

vars == <<t, order>>

Sides == {"left", "right"}
Opp(side) == IF side = "left" THEN "right" ELSE "left"

TypeOK ==
  /\ t \in [root : Nodes \cup {NULL}, black : SUBSET Nodes,
            up : [Nodes -> Nodes \cup {NULL}],
            kid : [Sides -> [Nodes -> Nodes \cup {NULL}]], size : [Nodes -> Nat]]
  /\ order \in Seq(Nodes)

-----------------------------------------------------------------------------
(* Nodes *)

Red(tr, n)       == n \notin tr.black
RedKid(tr, n)    == n # NULL /\ Red(tr, n)
Blacken(tr, S)   == [tr EXCEPT !.black = @ \cup S]
Redden(tr, n)    == [tr EXCEPT !.black = @ \ {n}]

\* rb_set_parent behind a test for NULL.
SetUp(tr, n, p) == IF n = NULL THEN tr ELSE [tr EXCEPT !.up[n] = p]

\* The pointer that points to a node, of its parent or the root.
SideOf(tr, p, n) == IF tr.kid["left"][p] = n THEN "left" ELSE "right"
Hang(tr, p, old, new) ==
  IF p = NULL THEN [tr EXCEPT !.root = new]
  ELSE [tr EXCEPT !.kid[SideOf(tr, p, old)][p] = new]

\* RB_EMPTY_NODE holds of it.
rb_init_node(tr, n) ==
  [tr EXCEPT !.up[n] = n, !.black = @ \ {n}, !.kid["left"][n] = NULL, !.kid["right"][n] = NULL]

Init ==
  /\ t = [root |-> NULL, black |-> {}, up |-> [n \in Nodes |-> n],
          kid |-> [s \in Sides |-> [n \in Nodes |-> NULL]], size |-> [n \in Nodes |-> 0]]
  /\ order = <<>>

-----------------------------------------------------------------------------
(* Balancing *)

\* rotate_left and rotate_right: n goes down on that side.
Rotate(tr, n, side) ==
  LET o == Opp(side)
      r == tr.kid[o][n]
      p == tr.up[n]
      t1 == SetUp([tr EXCEPT !.kid[o][n] = tr.kid[side][r]], tr.kid[side][r], n)
      t2 == SetUp([t1 EXCEPT !.kid[side][r] = n], r, p)
  IN  SetUp(Hang(t2, p, n, r), n, r)

RECURSIVE rb_insert_color(_, _)
rb_insert_color(tr, n) ==
  LET p == tr.up[n] IN
  IF ~ RedKid(tr, p) THEN Blacken(tr, {tr.root})
  ELSE LET g == tr.up[p]
           side == SideOf(tr, g, p)
           uncle == tr.kid[Opp(side)][g]
       IN  IF RedKid(tr, uncle)
           THEN rb_insert_color(Redden(Blacken(tr, {uncle, p}), g), g)
           ELSE LET inner == tr.kid[Opp(side)][p] = n
                    t1 == IF inner THEN Rotate(tr, p, side) ELSE tr
                    top == IF inner THEN n ELSE p
                    low == IF inner THEN p ELSE n
                IN  rb_insert_color(Rotate(Redden(Blacken(t1, {top}), g), g, Opp(side)), low)

\* n, which may be NULL, is one black node short; p is its parent.
RECURSIVE rb_erase_color(_, _, _)
rb_erase_color(tr, n, p) ==
  IF RedKid(tr, n) \/ n = tr.root THEN Blacken(tr, {n} \ {NULL})
  ELSE LET side == SideOf(tr, p, n)
           o == Opp(side)
           t1 == IF Red(tr, tr.kid[o][p])
                 THEN Rotate(Redden(Blacken(tr, {tr.kid[o][p]}), p), p, side) ELSE tr
           other == t1.kid[o][p]
       IN  IF \A s \in Sides : ~ RedKid(t1, t1.kid[s][other])
           THEN rb_erase_color(Redden(t1, other), p, t1.up[p])
           ELSE LET t2 == IF RedKid(t1, t1.kid[o][other]) THEN t1
                          ELSE Rotate(Redden(Blacken(t1, {t1.kid[side][other]}), other), other, o)
                    last == t2.kid[o][p]
                    t3 == IF Red(t2, p) THEN Redden(t2, last) ELSE Blacken(t2, {last})
                    t4 == Rotate(Blacken(t3, {p, t3.kid[o][last]}), p, side)
                IN  Blacken(t4, {t4.root})

-----------------------------------------------------------------------------
(* Walking *)

\* As far as there is a node on that side.
RECURSIVE Far(_, _, _)
Far(tr, n, side) == IF tr.kid[side][n] = NULL THEN n ELSE Far(tr, tr.kid[side][n], side)

rb_first(tr) == IF tr.root = NULL THEN NULL ELSE Far(tr, tr.root, "left")
rb_last(tr)  == IF tr.root = NULL THEN NULL ELSE Far(tr, tr.root, "right")

\* Up while the node is its parent's kid on that side.
RECURSIVE Climb(_, _, _)
Climb(tr, n, side) ==
  LET p == tr.up[n] IN IF p # NULL /\ tr.kid[side][p] = n THEN Climb(tr, p, side) ELSE p

Neighbour(tr, n, side) ==
  IF tr.up[n] = n THEN NULL
  ELSE IF tr.kid[side][n] # NULL THEN Far(tr, tr.kid[side][n], Opp(side))
  ELSE Climb(tr, n, side)
rb_next(tr, n) == Neighbour(tr, n, "right")
rb_prev(tr, n) == Neighbour(tr, n, "left")

-----------------------------------------------------------------------------
(* Insertion, removal, replacement *)

\* The parent for a new node and the side of it: equal keys go to the right.
RECURSIVE Descend(_, _, _)
Descend(tr, at, n) ==
  LET side == IF Key[n] < Key[at] THEN "left" ELSE "right"
  IN  IF tr.kid[side][at] = NULL THEN <<at, side>> ELSE Descend(tr, tr.kid[side][at], n)

rb_link_node(tr, n, p, side) ==
  LET t1 == [rb_init_node(tr, n) EXCEPT !.up[n] = p]
  IN  IF p = NULL THEN [t1 EXCEPT !.root = n] ELSE [t1 EXCEPT !.kid[side][p] = n]

Insert(tr, n) ==
  LET place == IF tr.root = NULL THEN <<NULL, "left">> ELSE Descend(tr, tr.root, n)
  IN  rb_insert_color(rb_link_node(tr, n, place[1], place[2]), n)

\* Of a node with at most one kid.
EraseSimple(tr, n) ==
  LET child == IF tr.kid["left"][n] = NULL THEN tr.kid["right"][n] ELSE tr.kid["left"][n]
      p == tr.up[n]
      t1 == Hang(SetUp(tr, child, p), p, n, child)
  IN  IF Red(tr, n) THEN t1 ELSE rb_erase_color(t1, child, p)

\* Of a node with two: the next node, n, takes its place and its colour.
EraseInner(tr, old) ==
  LET n == Far(tr, tr.kid["right"][old], "left")
      child == tr.kid["right"][n]
      below == tr.up[n] = old
      p  == IF below THEN n ELSE tr.up[n]
      t1 == Hang(tr, tr.up[old], old, n)
      t2 == IF below THEN t1
            ELSE SetUp([SetUp(t1, child, p) EXCEPT !.kid["left"][p] = child,
                                                   !.kid["right"][n] = tr.kid["right"][old]],
                       tr.kid["right"][old], n)
      t3 == [t2 EXCEPT !.up[n] = tr.up[old], !.kid["left"][n] = tr.kid["left"][old]]
      t4 == SetUp(IF Red(tr, old) THEN Redden(t3, n) ELSE Blacken(t3, {n}), tr.kid["left"][old], n)
  IN  IF Red(tr, n) THEN t4 ELSE rb_erase_color(t4, child, p)

\* Faulty variant: a child is left where it has to take the node's place.
rb_eraseNeverInner(tr, n) == EraseSimple(tr, n)

rb_erase(tr, n) ==
  IF NULL \in {tr.kid["left"][n], tr.kid["right"][n]} THEN EraseSimple(tr, n) ELSE EraseInner(tr, n)

rb_replace_node(tr, victim, new) ==
  LET t1 == Hang(tr, tr.up[victim], victim, new)
      t2 == SetUp(SetUp(t1, t1.kid["left"][victim], new), t1.kid["right"][victim], new)
      t3 == [t2 EXCEPT !.up[new] = t2.up[victim],
                       !.kid["left"][new] = t2.kid["left"][victim],
                       !.kid["right"][new] = t2.kid["right"][victim]]
  IN  IF Red(t3, victim) THEN Redden(t3, new) ELSE Blacken(t3, {new})

-----------------------------------------------------------------------------
(* Augmentation: a client keeps the number of nodes below each node; func    *)
(* computes it from the kids.                                              *)

Below(tr, n) == IF n = NULL THEN 0 ELSE tr.size[n]
func(tr, n) ==
  [tr EXCEPT !.size[n] = 1 + Below(tr, tr.kid["left"][n]) + Below(tr, tr.kid["right"][n])]

\* From n to the root, with the other kid of every parent.
RECURSIVE rb_augment_path(_, _)
rb_augment_path(tr, n) ==
  LET t1 == func(tr, n)
      p  == tr.up[n]
      l  == tr.kid["left"][p]
      r  == tr.kid["right"][p]
  IN  IF p = NULL THEN t1
      ELSE rb_augment_path(IF n = l /\ r # NULL THEN func(t1, r)
                           ELSE IF l # NULL THEN func(t1, l) ELSE t1, p)

\* A node that is inserted may have got kids by then.
rb_augment_insert(tr, n) ==
  LET l == tr.kid["left"][n]
      r == tr.kid["right"][n]
  IN  rb_augment_path(tr, IF l # NULL THEN l ELSE IF r # NULL THEN r ELSE n)

\* The deepest node whose kids a removal changes; NULL if there is none.
rb_augment_erase_begin(tr, n) ==
  LET l == tr.kid["left"][n]
      r == tr.kid["right"][n]
      deepest == rb_next(tr, n)
  IN  IF l = NULL /\ r = NULL THEN tr.up[n]
      ELSE IF r = NULL THEN l
      ELSE IF l = NULL THEN r
      ELSE IF tr.kid["right"][deepest] # NULL THEN tr.kid["right"][deepest]
      ELSE IF tr.up[deepest] # n THEN tr.up[deepest] ELSE deepest

rb_augment_erase_end(tr, n) == IF n = NULL THEN tr ELSE rb_augment_path(tr, n)

-----------------------------------------------------------------------------
In(n) == n \in ToSet(order)

\* Behind the nodes with keys not above its own.
SpeTaskEnqueueTimer(n) ==
  /\ ~ In(n)
  /\ t' = rb_augment_insert(Insert(t, n), n)
  /\ order' = SelectSeq(order, LAMBDA x : Key[x] <= Key[n]) \o <<n>>
                \o SelectSeq(order, LAMBDA x : Key[x] > Key[n])

SpeTaskDequeueTimer(n) ==
  /\ In(n)
  /\ LET t1 == rb_augment_erase_end(rb_erase(t, n), rb_augment_erase_begin(t, n))
     IN  t' = [rb_init_node(t1, n) EXCEPT !.size[n] = 0]
  /\ order' = Remove(order, n)

\* For a node with the same key; the code then forgets the victim, and the
\* client copies its number.
Replace(victim, n) ==
  /\ In(victim) /\ ~ In(n) /\ Key[n] = Key[victim]
  /\ t' = [rb_init_node(rb_replace_node(t, victim, n), victim) 
             EXCEPT !.size[n] = t.size[victim], !.size[victim] = 0]
  /\ order' = [i \in DOMAIN order |-> IF order[i] = victim THEN n ELSE order[i]]

Next ==
  \/ \E n \in Nodes : SpeTaskEnqueueTimer(n) \/ SpeTaskDequeueTimer(n)
  \/ \E victim, n \in Nodes : Replace(victim, n)

Spec == Init /\ [][Next]_vars

-----------------------------------------------------------------------------
\* The number of black nodes on every way down, -1 if ways differ.
RECURSIVE BlackHeight(_, _)
BlackHeight(tr, n) ==
  IF n = NULL THEN 0
  ELSE LET l == BlackHeight(tr, tr.kid["left"][n])
           r == BlackHeight(tr, tr.kid["right"][n])
       IN  IF l = -1 \/ l # r THEN -1 ELSE IF Red(tr, n) THEN l ELSE l + 1

\* spe_rbtree.c:25-451 and spe_task.c:84-97.  After any insertions, removals and
\* replacements the tree is balanced (no red node has a red kid, every way down
\* has as many black nodes), parents and kids agree, and walking it either way
\* gives the nodes by key, equal keys in the order they came.  And what the
\* augmentation keeps at each node is true after the rotations.
TreeIsRedBlack ==
  LET n == Len(order) IN
  /\ t.root = NULL <=> n = 0
  /\ n > 0 => t.up[t.root] = NULL /\ ~ Red(t, t.root)
  /\ BlackHeight(t, t.root) # -1
  /\ \A x \in ToSet(order), s \in Sides :
       LET k == t.kid[s][x]
       IN  k # NULL => t.up[k] = x /\ ~ (Red(t, x) /\ Red(t, k))
  /\ n > 0 => rb_first(t) = order[1] /\ rb_last(t) = order[n]
  /\ \A i \in 1..n :
       /\ rb_next(t, order[i]) = IF i = n THEN NULL ELSE order[i + 1]
       /\ rb_prev(t, order[i]) = IF i = 1 THEN NULL ELSE order[i - 1]
  /\ \A x \in Nodes : t.up[x] = x <=> ~ In(x)
  /\ \A x \in ToSet(order) : func(t, x) = t
=============================================================================
