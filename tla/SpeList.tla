------------------------------- MODULE SpeList -------------------------------
(***************************************************************************)
(* The circular lists of src/spe/spe_list.h: cells with a next and a prev  *)
(* pointer, a head being a cell that is no entry.  Every function is an    *)
(* operator on the pointers, written in the order of its assignments; an   *)
(* action calls one where its comment in spe_list.h allows it and applies  *)
(* to `rings` what the function is for.  rings[h] is the list of head h    *)
(* with h itself in front.                                                 *)
(***************************************************************************)
EXTENDS Integers, SequencesExt

CONSTANTS Heads, Entries, NULL      \* three kinds of address

VARIABLES m,        \* the pointers, fields next and prev
          rings,    \* what the lists are meant to be
          stale     \* heads that were spliced away and not initialised again

vars == <<m, rings, stale>>

Cells == Heads \cup Entries

TypeOK ==
  /\ m \in [next : [Cells -> Cells \cup {NULL}], prev : [Cells -> Cells \cup {NULL}]]
  /\ rings \in [Heads -> Seq(Cells)]
  /\ stale \subseteq Heads

Init ==
  /\ m = [next |-> [c \in Cells |-> c], prev |-> [c \in Cells |-> c]]
  /\ rings = [h \in Heads |-> <<h>>]
  /\ stale = {}

-----------------------------------------------------------------------------
(* The functions *)

SetNext(l, c, d) == [l EXCEPT !.next[c] = d]
SetPrev(l, c, d) == [l EXCEPT !.prev[c] = d]

INIT_LIST_HEAD(l, c) == SetPrev(SetNext(l, c, c), c, c)

list_add_between(l, new, prv, nxt) ==
  SetNext(SetPrev(SetNext(SetPrev(l, nxt, new), new, nxt), new, prv), prv, new)

list_add(l, new, head)      == list_add_between(l, new, head, l.next[head])
list_add_tail(l, new, head) == list_add_between(l, new, l.prev[head], head)

list_del_between(l, prv, nxt) == SetNext(SetPrev(l, nxt, prv), prv, nxt)

Unlink(l, c) == list_del_between(l, l.prev[c], l.next[c])

list_del(l, c)      == SetPrev(SetNext(Unlink(l, c), c, NULL), c, NULL)
list_del_init(l, c) == INIT_LIST_HEAD(Unlink(l, c), c)

list_replace(l, old, new) ==
  LET l1 == SetNext(l, new, l.next[old])
      l2 == SetPrev(l1, l1.next[new], new)
      l3 == SetPrev(l2, new, l2.prev[old])
  IN  SetNext(l3, l3.prev[new], new)

list_replace_init(l, old, new) == INIT_LIST_HEAD(list_replace(l, old, new), old)

list_move(l, c, head)      == list_add(Unlink(l, c), c, head)
list_move_tail(l, c, head) == list_add_tail(Unlink(l, c), c, head)

list_empty(l, head)         == l.next[head] = head
list_empty_careful(l, head) == l.next[head] = head /\ l.prev[head] = head
list_is_last(l, c, head)    == l.next[c] = head
list_is_singular(l, head)   == ~ list_empty(l, head) /\ l.next[head] = l.prev[head]

list_rotate_left(l, head) ==
  IF list_empty(l, head) THEN l ELSE list_move_tail(l, l.next[head], head)

cut(l, list, head, entry) ==
  LET new_first == l.next[entry]
      l1 == SetNext(l, list, l.next[head])
      l2 == SetPrev(SetPrev(l1, l1.next[list], list), list, entry)
  IN  SetPrev(SetNext(SetNext(l2, entry, list), head, new_first), new_first, head)

list_cut_position(l, list, head, entry) ==
  IF \/ list_empty(l, head)
     \/ list_is_singular(l, head) /\ l.next[head] # entry /\ head # entry
  THEN l
  ELSE IF entry = head THEN INIT_LIST_HEAD(l, list) ELSE cut(l, list, head, entry)

splice(l, list, prv, nxt) ==
  LET first == l.next[list]
      last  == l.prev[list]
  IN  SetPrev(SetNext(SetNext(SetPrev(l, first, prv), prv, first), last, nxt), nxt, last)

\* Faulty variant: the entries are joined at the head of the list.
list_splice_tailAtHead(l, list, head) ==
  IF list_empty(l, list) THEN l ELSE splice(l, list, head, head)

list_splice(l, list, head) ==
  IF list_empty(l, list) THEN l ELSE splice(l, list, head, l.next[head])
list_splice_tail(l, list, head) ==
  IF list_empty(l, list) THEN l ELSE splice(l, list, l.prev[head], head)

\* The two _init forms leave an empty list alone.
list_splice_init(l, list, head) ==
  IF list_empty(l, list) THEN l ELSE INIT_LIST_HEAD(list_splice(l, list, head), list)
list_splice_tail_init(l, list, head) ==
  IF list_empty(l, list) THEN l ELSE INIT_LIST_HEAD(list_splice_tail(l, list, head), list)

-----------------------------------------------------------------------------
(* What they are for, on the rings *)

Live(h)   == h \in Heads \ stale
On(h, c)  == \E i \in 2..Len(rings[h]) : rings[h][i] = c
Loose(e)  == \A h \in Heads : ~ On(h, e)
Place(s, c) == CHOOSE i \in 1..Len(s) : s[i] = c
At(h, c)  == Place(rings[h], c)
Without(s, c)      == RemoveAt(s, Place(s, c))
PutAfter(s, c, e)  == InsertAt(s, Place(s, c) + 1, e)
\* Before the head is at the end.
PutBefore(s, c, e) == IF s[1] = c THEN Append(s, e) ELSE InsertAt(s, Place(s, c), e)

Keep == UNCHANGED stale

\* A loose entry goes in after, or before, the head or any entry.
Add(h, c, e) ==
  /\ Live(h) /\ (c = h \/ On(h, c)) /\ Loose(e)
  /\ \/ m' = list_add(m, e, c) /\ rings' = [rings EXCEPT ![h] = PutAfter(@, c, e)]
     \/ m' = list_add_tail(m, e, c) /\ rings' = [rings EXCEPT ![h] = PutBefore(@, c, e)]
  /\ Keep

Del(h, e) ==
  /\ Live(h) /\ On(h, e)
  /\ m' \in {list_del(m, e), list_del_init(m, e)}
  /\ rings' = [rings EXCEPT ![h] = Without(@, e)]
  /\ Keep

Replace(h, e, new) ==
  /\ Live(h) /\ On(h, e) /\ Loose(new)
  /\ m' \in {list_replace(m, e, new), list_replace_init(m, e, new)}
  /\ rings' = [rings EXCEPT ![h] = [@ EXCEPT ![At(h, e)] = new]]
  /\ Keep

\* The usual call of list_replace_init: the whole list, empty or not, goes to
\* another head.
ReplaceHead(h, new) ==
  /\ Live(h) /\ h # new /\ (new \in stale \/ Len(rings[new]) = 1)
  /\ m' = list_replace_init(m, h, new)
  /\ rings' = [rings EXCEPT ![new] = <<new>> \o Tail(rings[h]), ![h] = <<h>>]
  /\ stale' = stale \ {new}

\* The head moved to may be the entry's own.
Move(h, e, g) ==
  /\ Live(h) /\ Live(g) /\ On(h, e)
  /\ LET left == [rings EXCEPT ![h] = Without(@, e)]
     IN  \/ m' = list_move(m, e, g) /\ rings' = [left EXCEPT ![g] = PutAfter(@, g, e)]
         \/ m' = list_move_tail(m, e, g) /\ rings' = [left EXCEPT ![g] = Append(@, e)]
  /\ Keep

RotateLeft(h) ==
  /\ Live(h)
  /\ m' = list_rotate_left(m, h)
  /\ rings' = [rings EXCEPT ![h] =
       IF Len(@) = 1 THEN @ ELSE Append(<<h>> \o SubSeq(@, 3, Len(@)), @[2])]
  /\ Keep

\* "list should be an empty list or a list you do not care about losing its
\* data" (line 236): empty here, or spliced away.
CutPosition(g, h, c) ==
  /\ Live(h) /\ g # h /\ (c = h \/ On(h, c)) /\ (g \in stale \/ Len(rings[g]) = 1)
  /\ Len(rings[h]) > 1
  /\ m' = list_cut_position(m, g, h, c)
  /\ LET i == At(h, c)
     IN  rings' = [rings EXCEPT ![g] = <<g>> \o SubSeq(rings[h], 2, i),
                                ![h] = <<h>> \o SubSeq(@, i + 1, Len(@))]
  /\ stale' = stale \ {g}

\* Without _init the head that was joined must not be used before it is
\* initialised, unless there was nothing to join.
Splice(g, h) ==
  /\ Live(g) /\ Live(h) /\ g # h
  /\ LET entries == Tail(rings[g])
         front   == <<h>> \o entries \o Tail(rings[h])
         back    == rings[h] \o entries
     IN  \/ /\ \/ m' = list_splice(m, g, h) /\ rings' = [rings EXCEPT ![h] = front, ![g] = <<g>>]
               \/ m' = list_splice_tail(m, g, h) /\ rings' = [rings EXCEPT ![h] = back, ![g] = <<g>>]
            /\ stale' = IF entries = <<>> THEN stale ELSE stale \cup {g}
         \/ /\ m' = list_splice_init(m, g, h)
            /\ rings' = [rings EXCEPT ![h] = front, ![g] = <<g>>] /\ Keep
         \/ /\ m' = list_splice_tail_init(m, g, h)
            /\ rings' = [rings EXCEPT ![h] = back, ![g] = <<g>>] /\ Keep

InitHead(h) ==
  /\ h \in stale /\ stale' = stale \ {h}
  /\ m' = INIT_LIST_HEAD(m, h)
  /\ UNCHANGED rings

Next ==
  \/ \E h \in Heads : RotateLeft(h) \/ InitHead(h)
  \/ \E g, h \in Heads : ReplaceHead(g, h) \/ Splice(g, h)
  \/ \E h \in Heads, e \in Entries : Del(h, e)
  \/ \E h \in Heads, c \in Cells, e \in Entries : Add(h, c, e)
  \/ \E h \in Heads, e, new \in Entries : Replace(h, e, new)
  \/ \E g, h \in Heads, e \in Entries : Move(h, e, g)
  \/ \E g, h \in Heads, c \in Cells : CutPosition(g, h, c)

Spec == Init /\ [][Next]_vars

-----------------------------------------------------------------------------
\* spe_list.h:19-330.  After any calls in any order, next goes round every list
\* in its order and back to the head, prev goes round the other way, and the
\* four questions are answered by the list itself.
ListsAreSequences ==
  \A h \in Heads \ stale :
    LET s == rings[h]
        n == Len(s)
    IN  /\ \A i \in 1..n : LET j == IF i = n THEN 1 ELSE i + 1
                           IN  m.next[s[i]] = s[j] /\ m.prev[s[j]] = s[i]
        /\ list_empty(m, h) <=> n = 1
        /\ list_empty_careful(m, h) <=> n = 1
        /\ list_is_singular(m, h) <=> n = 2
        /\ \A i \in 2..n : list_is_last(m, s[i], h) <=> i = n
=============================================================================
