------------------------------- MODULE SpeHlist ------------------------------
(***************************************************************************)
(* The hash chains of src/spe/spe_list.h.  A head has only `first`, a node *)
(* `next` and `pprev`, the address of the pointer that points to it.  With *)
(* a head's first as its next, pprev is the cell that holds that pointer.  *)
(***************************************************************************)
EXTENDS Integers, SequencesExt

CONSTANTS Buckets, Nodes, NULL      \* three kinds of address

VARIABLES c,        \* the pointers, fields next and pprev
          chains    \* what the chains are meant to be

vars == <<c, chains>>

TypeOK ==
  /\ c \in [next : [Buckets \cup Nodes -> Nodes \cup {NULL}],
            pprev : [Nodes -> Buckets \cup Nodes \cup {NULL}]]
  /\ chains \in [Buckets -> Seq(Nodes)]

Init ==
  /\ c = [next |-> [x \in Buckets \cup Nodes |-> NULL], pprev |-> [n \in Nodes |-> NULL]]
  /\ chains = [b \in Buckets |-> <<>>]

-----------------------------------------------------------------------------
(* The functions *)

SetNext(l, x, n)  == [l EXCEPT !.next[x] = n]
SetPprev(l, n, x) == [l EXCEPT !.pprev[n] = x]

INIT_HLIST_NODE(l, n) == SetPprev(SetNext(l, n, NULL), n, NULL)
hlist_unhashed(l, n) == l.pprev[n] = NULL
hlist_empty(l, b)    == l.next[b] = NULL

Unlink(l, n) ==
  LET l1 == SetNext(l, l.pprev[n], l.next[n])
  IN  IF l.next[n] = NULL THEN l1 ELSE SetPprev(l1, l.next[n], l.pprev[n])

hlist_del(l, n) == INIT_HLIST_NODE(Unlink(l, n), n)
hlist_del_init(l, n) ==
  IF hlist_unhashed(l, n) THEN l ELSE INIT_HLIST_NODE(Unlink(l, n), n)

hlist_add_head(l, n, b) ==
  LET first == l.next[b]
      l1 == SetNext(l, n, first)
      l2 == IF first = NULL THEN l1 ELSE SetPprev(l1, first, n)
  IN  SetPprev(SetNext(l2, b, n), n, b)

hlist_add_before(l, n, nxt) ==
  LET l1 == SetNext(SetPprev(l, n, l.pprev[nxt]), n, nxt)
      l2 == SetPprev(l1, nxt, n)
  IN  SetNext(l2, l2.pprev[n], n)

\* The second argument is the node that goes in.
hlist_add_after(l, n, nxt) ==
  LET l1 == SetNext(SetNext(l, nxt, l.next[n]), n, nxt)
      l2 == SetPprev(l1, nxt, n)
  IN  IF l2.next[nxt] = NULL THEN l2 ELSE SetPprev(l2, l2.next[nxt], nxt)

hlist_move_list(l, old, new) ==
  LET l1 == SetNext(l, new, l.next[old])
      l2 == IF l1.next[new] = NULL THEN l1 ELSE SetPprev(l1, l1.next[new], new)
  IN  SetNext(l2, old, NULL)

-----------------------------------------------------------------------------
On(b, n) == \E i \in 1..Len(chains[b]) : chains[b][i] = n
Loose(n) == \A b \in Buckets : ~ On(b, n)
At(b, n) == CHOOSE i \in 1..Len(chains[b]) : chains[b][i] = n
Without(b, n) == IF On(b, n) THEN RemoveAt(chains[b], At(b, n)) ELSE chains[b]

AddHead(b, n) ==
  /\ Loose(n)
  /\ c' = hlist_add_head(c, n, b)
  /\ chains' = [chains EXCEPT ![b] = <<n>> \o @]

AddBeside(b, n, old) ==
  /\ Loose(n) /\ On(b, old)
  /\ \/ c' = hlist_add_before(c, n, old) /\ chains' = [chains EXCEPT ![b] = InsertAt(@, At(b, old), n)]
     \/ c' = hlist_add_after(c, old, n) /\ chains' = [chains EXCEPT ![b] = InsertAt(@, At(b, old) + 1, n)]

\* hlist_del_init may be called for a node that is in no chain.
Del(n) ==
  /\ \/ ~ Loose(n) /\ c' = hlist_del(c, n)
     \/ c' = hlist_del_init(c, n)
  /\ chains' = [b \in Buckets |-> Without(b, n)]

MoveList(b, to) ==
  /\ b # to /\ chains[to] = <<>>
  /\ c' = hlist_move_list(c, b, to)
  /\ chains' = [chains EXCEPT ![to] = chains[b], ![b] = <<>>]

Next ==
  \/ \E n \in Nodes : Del(n)
  \/ \E b \in Buckets, n \in Nodes : AddHead(b, n)
  \/ \E b \in Buckets, n, old \in Nodes : AddBeside(b, n, old)
  \/ \E b, to \in Buckets : MoveList(b, to)

Spec == Init /\ [][Next]_vars

-----------------------------------------------------------------------------
\* spe_list.h:556-640.  A chain is what its pointers say in both directions,
\* and exactly the nodes in no chain are unhashed.
ChainsAreSequences ==
  /\ \A b \in Buckets :
       LET s == <<b>> \o chains[b]
           n == Len(s)
       IN  /\ \A i \in 1..n : c.next[s[i]] = IF i = n THEN NULL ELSE s[i + 1]
           /\ \A i \in 2..n : c.pprev[s[i]] = s[i - 1]
           /\ hlist_empty(c, b) <=> chains[b] = <<>>
  /\ \A n \in Nodes : hlist_unhashed(c, n) <=> Loose(n)
=============================================================================
