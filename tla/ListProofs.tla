------------------------------ MODULE ListProofs -----------------------------
(***************************************************************************)
(* The lists and the hash chains of spe_list.h, for any sets of heads,     *)
(* entries, buckets and nodes: whatever is done with them, their pointers  *)
(* are those of the sequences that the calls make.                         *)
(***************************************************************************)
EXTENDS Structures, SequenceTheorems, WellFoundedInduction, TLAPS

-----------------------------------------------------------------------------
(* The pointers of the lists *)

Cells == Heads \cup Entries
Pointers == [next : [Cells -> Cells \cup {NULL}], prev : [Cells -> Cells \cup {NULL}]]

\* k has the pointers of l, but for those of the cells in C.
SameBut(l, k, C) == \A x \in Cells \ C : k.next[x] = l.next[x] /\ k.prev[x] = l.prev[x]

\* What the functions do to the pointers: e comes between x and y; x and y pass
\* by what is between them; e takes the place of the cell between x and y; the
\* cells from a to b come between x and y; and the cells from a to b go round
\* list, those from y on round x.
Added(l, k, e, x, y) ==
  \A z \in Cells :
    /\ k.next[z] = IF z = x THEN e ELSE IF z = e THEN y ELSE l.next[z]
    /\ k.prev[z] = IF z = y THEN e ELSE IF z = e THEN x ELSE l.prev[z]
Passed(l, k, x, y) ==
  \A z \in Cells : /\ k.next[z] = IF z = x THEN y ELSE l.next[z]
                   /\ k.prev[z] = IF z = y THEN x ELSE l.prev[z]
Taken(l, k, e, x, y) ==
  \A z \in Cells :
    /\ k.next[z] = IF z = e THEN y ELSE IF z = x THEN e ELSE l.next[z]
    /\ k.prev[z] = IF z = e THEN x ELSE IF z = y THEN e ELSE l.prev[z]
Joined(l, k, a, b, x, y) ==
  \A z \in Cells :
    /\ k.next[z] = IF z = x THEN a ELSE IF z = b THEN y ELSE l.next[z]
    /\ k.prev[z] = IF z = y THEN b ELSE IF z = a THEN x ELSE l.prev[z]
Parted(l, k, list, a, b, x, y) ==
  \A z \in Cells :
    /\ k.next[z] = IF z = list THEN a ELSE IF z = b THEN list ELSE IF z = x THEN y ELSE l.next[z]
    /\ k.prev[z] = IF z = list THEN b ELSE IF z = a THEN list ELSE IF z = y THEN x ELSE l.prev[z]
Looped(l, k, x) ==
  \A z \in Cells : /\ k.next[z] = IF z = x THEN x ELSE l.next[z]
                   /\ k.prev[z] = IF z = x THEN x ELSE l.prev[z]

\* A cell that points to itself.
LEMMA InitPointers ==
  ASSUME NEW l \in Pointers, NEW x \in Cells
  PROVE  LET k == List!INIT_LIST_HEAD(l, x)
         IN  k \in Pointers /\ Looped(l, k, x)
<1> DEFINE a == List!SetNext(l, x, x)
           b == List!SetPrev(a, x, x)
<1>1. a \in Pointers /\ a.prev = l.prev /\ \A z \in Cells : a.next[z] = IF z = x THEN x ELSE l.next[z]
  BY DEF Pointers, List!SetNext, List!SetPrev
<1> HIDE DEF a
<1>2. b \in Pointers /\ b.next = a.next /\ \A z \in Cells : b.prev[z] = IF z = x THEN x ELSE a.prev[z]
  BY <1>1 DEF Pointers, List!SetNext, List!SetPrev
<1> HIDE DEF b
<1>3. List!INIT_LIST_HEAD(l, x) = b
  BY DEF List!INIT_LIST_HEAD, a, b
<1> QED  BY <1>1, <1>2, <1>3 DEF Looped

\* A new cell between two.
LEMMA AddPointers ==
  ASSUME NEW l \in Pointers, NEW new \in Cells, NEW prv \in Cells, NEW nxt \in Cells,
         new # prv, new # nxt
  PROVE  LET k == List!list_add_between(l, new, prv, nxt)
         IN  k \in Pointers /\ Added(l, k, new, prv, nxt)
<1> DEFINE a == List!SetPrev(l, nxt, new)
           b == List!SetNext(a, new, nxt)
           d == List!SetPrev(b, new, prv)
           k == List!SetNext(d, prv, new)
<1>1. a \in Pointers /\ a.next = l.next /\ \A z \in Cells : a.prev[z] = IF z = nxt THEN new ELSE l.prev[z]
  BY DEF Pointers, List!SetNext, List!SetPrev
<1> HIDE DEF a
<1>2. b \in Pointers /\ b.prev = a.prev /\ \A z \in Cells : b.next[z] = IF z = new THEN nxt ELSE a.next[z]
  BY <1>1 DEF Pointers, List!SetNext, List!SetPrev
<1> HIDE DEF b
<1>3. d \in Pointers /\ d.next = b.next /\ \A z \in Cells : d.prev[z] = IF z = new THEN prv ELSE b.prev[z]
  BY <1>2 DEF Pointers, List!SetNext, List!SetPrev
<1> HIDE DEF d
<1>4. k \in Pointers /\ k.prev = d.prev /\ \A z \in Cells : k.next[z] = IF z = prv THEN new ELSE d.next[z]
  BY <1>3 DEF Pointers, List!SetNext, List!SetPrev
<1> HIDE DEF k
<1>5. List!list_add_between(l, new, prv, nxt) = k
  BY DEF List!list_add_between, a, b, d, k
<1> QED  BY <1>1, <1>2, <1>3, <1>4, <1>5 DEF Added

\* Two cells that pass by what is between them.
LEMMA DelPointers ==
  ASSUME NEW l \in Pointers, NEW prv \in Cells, NEW nxt \in Cells
  PROVE  LET k == List!list_del_between(l, prv, nxt)
         IN  k \in Pointers /\ Passed(l, k, prv, nxt)
<1> DEFINE a == List!SetPrev(l, nxt, prv)
           k == List!SetNext(a, prv, nxt)
<1>1. a \in Pointers /\ a.next = l.next /\ \A z \in Cells : a.prev[z] = IF z = nxt THEN prv ELSE l.prev[z]
  BY DEF Pointers, List!SetNext, List!SetPrev
<1> HIDE DEF a
<1>2. k \in Pointers /\ k.prev = a.prev /\ \A z \in Cells : k.next[z] = IF z = prv THEN nxt ELSE a.next[z]
  BY <1>1 DEF Pointers, List!SetNext, List!SetPrev
<1> HIDE DEF k
<1>3. List!list_del_between(l, prv, nxt) = k
  BY DEF List!list_del_between, a, k
<1> QED  BY <1>1, <1>2, <1>3 DEF Passed

\* A cell in the place of another; a cell that is alone keeps pointing to it.
LEMMA ReplacePointers ==
  ASSUME NEW l \in Pointers, NEW old \in Cells, NEW new \in Cells, new # old,
         l.next[old] \in Cells, l.prev[old] \in Cells,
         l.next[old] # new, l.prev[old] # new, l.next[old] = old <=> l.prev[old] = old
  PROVE  LET k == List!list_replace(l, old, new)
         IN  /\ k \in Pointers
             /\ l.next[old] # old => Taken(l, k, new, l.prev[old], l.next[old])
             /\ l.next[old] = old =>
                  /\ k.next[new] = new /\ k.prev[new] = new
                  /\ SameBut(l, k, {old, new})
<1> DEFINE a == List!SetNext(l, new, l.next[old])
           b == List!SetPrev(a, a.next[new], new)
           d == List!SetPrev(b, new, b.prev[old])
           k == List!SetNext(d, d.prev[new], new)
<1>1. /\ a \in Pointers /\ a.prev = l.prev
      /\ \A z \in Cells : a.next[z] = IF z = new THEN l.next[old] ELSE l.next[z]
  BY DEF Pointers, List!SetNext, List!SetPrev
<1> HIDE DEF a
<1>2. /\ b \in Pointers /\ b.next = a.next
      /\ \A z \in Cells : b.prev[z] = IF z = l.next[old] THEN new ELSE a.prev[z]
  BY <1>1 DEF Pointers, List!SetNext, List!SetPrev
<1> HIDE DEF b
<1>3. b.prev[old] \in Cells /\ b.prev[old] = IF l.next[old] = old THEN new ELSE l.prev[old]
  BY <1>1, <1>2
<1>4. /\ d \in Pointers /\ d.next = b.next
      /\ \A z \in Cells : d.prev[z] = IF z = new THEN b.prev[old] ELSE b.prev[z]
  BY <1>2, <1>3 DEF Pointers, List!SetNext, List!SetPrev
<1> HIDE DEF d
<1>5. d.prev[new] = b.prev[old]
  BY <1>4
<1>6. /\ k \in Pointers /\ k.prev = d.prev
      /\ \A z \in Cells : k.next[z] = IF z = b.prev[old] THEN new ELSE d.next[z]
  BY <1>3, <1>4, <1>5 DEF Pointers, List!SetNext, List!SetPrev
<1> HIDE DEF k
<1>7. List!list_replace(l, old, new) = k
  BY DEF List!list_replace, a, b, d, k
<1>8. CASE l.next[old] # old
  BY <1>1, <1>2, <1>3, <1>4, <1>6, <1>7, <1>8 DEF Taken
<1>9. CASE l.next[old] = old
  BY <1>1, <1>2, <1>3, <1>4, <1>6, <1>7, <1>9 DEF SameBut
<1> QED  BY <1>8, <1>9

\* What is behind entry goes to the head, what is before it to list.
LEMMA CutPointers ==
  ASSUME NEW l \in Pointers, NEW list \in Cells, NEW head \in Cells, NEW entry \in Cells,
         list # head, list # entry, head # entry,
         l.next[head] \in Cells, l.next[entry] \in Cells, l.next[head] # list,
         l.next[head] # head, l.next[entry] # l.next[head], l.next[entry] # list
  PROVE  LET k == List!cut(l, list, head, entry)
         IN  k \in Pointers /\ Parted(l, k, list, l.next[head], entry, head, l.next[entry])
<1> DEFINE first == l.next[head]
           behind == l.next[entry]
           a == List!SetNext(l, list, first)
           b == List!SetPrev(a, a.next[list], list)
           d == List!SetPrev(b, list, entry)
           e == List!SetNext(d, entry, list)
           f == List!SetNext(e, head, behind)
           k == List!SetPrev(f, behind, head)
<1>0. first \in Cells /\ behind \in Cells
  OBVIOUS
<1>1. List!cut(l, list, head, entry) = k
  BY DEF List!cut
<1> HIDE DEF first, behind
<1>2. a \in Pointers /\ a.prev = l.prev /\ \A z \in Cells : a.next[z] = IF z = list THEN first ELSE l.next[z]
  BY <1>0 DEF Pointers, List!SetNext, List!SetPrev
<1> HIDE DEF a
<1>3. b \in Pointers /\ b.next = a.next /\ \A z \in Cells : b.prev[z] = IF z = first THEN list ELSE a.prev[z]
  BY <1>0, <1>2 DEF Pointers, List!SetNext, List!SetPrev
<1> HIDE DEF b
<1>4. d \in Pointers /\ d.next = b.next /\ \A z \in Cells : d.prev[z] = IF z = list THEN entry ELSE b.prev[z]
  BY <1>3 DEF Pointers, List!SetNext, List!SetPrev
<1> HIDE DEF d
<1>5. e \in Pointers /\ e.prev = d.prev /\ \A z \in Cells : e.next[z] = IF z = entry THEN list ELSE d.next[z]
  BY <1>4 DEF Pointers, List!SetNext, List!SetPrev
<1> HIDE DEF e
<1>6. f \in Pointers /\ f.prev = e.prev /\ \A z \in Cells : f.next[z] = IF z = head THEN behind ELSE e.next[z]
  BY <1>0, <1>5 DEF Pointers, List!SetNext, List!SetPrev
<1> HIDE DEF f
<1>7. k \in Pointers /\ k.next = f.next /\ \A z \in Cells : k.prev[z] = IF z = behind THEN head ELSE f.prev[z]
  BY <1>0, <1>6 DEF Pointers, List!SetNext, List!SetPrev
<1> HIDE DEF k
<1>8. Parted(l, k, list, first, entry, head, behind)
  BY <1>2, <1>3, <1>4, <1>5, <1>6, <1>7 DEF first, behind, Parted
<1> QED  BY <1>1, <1>7, <1>8 DEF first, behind

\* The entries of list go between two cells.
LEMMA SplicePointers ==
  ASSUME NEW l \in Pointers, NEW list \in Cells, NEW prv \in Cells, NEW nxt \in Cells,
         l.next[list] \in Cells, l.prev[list] \in Cells,
         l.prev[list] # prv, l.next[list] # nxt
  PROVE  LET k == List!splice(l, list, prv, nxt)
         IN  k \in Pointers /\ Joined(l, k, l.next[list], l.prev[list], prv, nxt)
<1> DEFINE first == l.next[list]
           last == l.prev[list]
           a == List!SetPrev(l, first, prv)
           b == List!SetNext(a, prv, first)
           d == List!SetNext(b, last, nxt)
           k == List!SetPrev(d, nxt, last)
<1>0. first \in Cells /\ last \in Cells
  OBVIOUS
<1>1. List!splice(l, list, prv, nxt) = k
  BY DEF List!splice
<1> HIDE DEF first, last
<1>2. a \in Pointers /\ a.next = l.next /\ \A z \in Cells : a.prev[z] = IF z = first THEN prv ELSE l.prev[z]
  BY <1>0 DEF Pointers, List!SetNext, List!SetPrev
<1> HIDE DEF a
<1>3. b \in Pointers /\ b.prev = a.prev /\ \A z \in Cells : b.next[z] = IF z = prv THEN first ELSE a.next[z]
  BY <1>0, <1>2 DEF Pointers, List!SetNext, List!SetPrev
<1> HIDE DEF b
<1>4. d \in Pointers /\ d.prev = b.prev /\ \A z \in Cells : d.next[z] = IF z = last THEN nxt ELSE b.next[z]
  BY <1>0, <1>3 DEF Pointers, List!SetNext, List!SetPrev
<1> HIDE DEF d
<1>5. k \in Pointers /\ k.next = d.next /\ \A z \in Cells : k.prev[z] = IF z = nxt THEN last ELSE d.prev[z]
  BY <1>0, <1>4 DEF Pointers, List!SetNext, List!SetPrev
<1> HIDE DEF k
<1> QED  BY <1>1, <1>2, <1>3, <1>4, <1>5 DEF first, last, Joined

-----------------------------------------------------------------------------
(* Rings *)

\* The index after i, and before it, in a ring of n.
After(i, n)  == IF i = n THEN 1 ELSE i + 1
Before(i, n) == IF i = 1 THEN n ELSE i - 1

\* next goes round the first n of s, and prev back.
Ring(l, s, n) ==
  \A i \in 1..n : l.next[s[i]] = s[After(i, n)] /\ l.prev[s[After(i, n)]] = s[i]

Distinct(s, n) == \A i \in 1..n : s[i] \in Cells /\ \A j \in 1..n : s[i] = s[j] => i = j

\* What the changes of a sequence of n do to each place.
Inserted(t, s, n, k, e) ==
  \A j \in 1..(n + 1) : t[j] = IF j < k THEN s[j] ELSE IF j = k THEN e ELSE s[j - 1]
Removed(t, s, n, i) == \A j \in 1..(n - 1) : t[j] = IF j < i THEN s[j] ELSE s[j + 1]
Changed(t, s, n, i, e) == \A j \in 1..n : t[j] = IF j = i THEN e ELSE s[j]
\* The elements of r but its first go in after i.
Spliced(t, s, n, i, r, p) ==
  \A j \in 1..(n + p - 1) :
    t[j] = IF j <= i THEN s[j] ELSE IF j <= i + p - 1 THEN r[j - i + 1] ELSE s[j - p + 1]
\* s is cut after i: g and what is before, or the first element and what is behind.
CutBefore(t, s, i, g) == \A j \in 1..i : t[j] = IF j = 1 THEN g ELSE s[j]
CutBehind(u, s, n, i) == \A j \in 1..(n - i + 1) : u[j] = IF j = 1 THEN s[1] ELSE s[i + j - 1]

\* An element goes in after the one at i.
LEMMA AddRing ==
  ASSUME NEW l, NEW k, NEW n \in Nat, NEW i \in 1..n, NEW s, NEW t, NEW e \in Cells,
         Distinct(s, n), \A j \in 1..n : s[j] # e, Ring(l, s, n),
         Inserted(t, s, n, i + 1, e), Added(l, k, e, s[i], s[After(i, n)])
  PROVE  Ring(k, t, n + 1)
<1> USE DEF Inserted, Added
<1>0. \A j \in 1..n : After(j, n) \in 1..n /\ (After(j, n) = After(i, n) => j = i)
  BY DEF After
<1> SUFFICES ASSUME NEW j \in 1..(n + 1)
             PROVE  /\ k.next[t[j]] = t[After(j, n + 1)]
                    /\ k.prev[t[After(j, n + 1)]] = t[j]
  BY DEF Ring
<1>1. /\ After(i, n) \in 1..n /\ s[i] # e /\ s[After(i, n)] # e
      /\ s[i] \in Cells /\ s[After(i, n)] \in Cells
  BY <1>0 DEF Distinct
<1>2. CASE j < i
  <2>1. j \in 1..n /\ After(j, n) = j + 1 /\ After(j, n + 1) = j + 1 /\ j + 1 \in 1..n /\ j + 1 <= i
    BY <1>2 DEF After
  <2>2. t[j] = s[j] /\ t[j + 1] = s[j + 1]
    BY <1>2, <2>1
  <2>3. s[j] # s[i] /\ s[j + 1] # s[After(i, n)]
    BY <1>2, <2>1, <1>0 DEF Distinct
  <2> QED  BY <2>1, <2>2, <2>3 DEF Ring, Distinct
<1>3. CASE j = i
  <2>1. After(j, n + 1) = i + 1 /\ t[j] = s[i] /\ t[i + 1] = e
    BY <1>3 DEF After
  <2> QED  BY <1>1, <1>3, <2>1
<1>4. CASE j = i + 1
  <2>1. t[j] = e
    BY <1>4
  <2>2. t[After(j, n + 1)] = s[After(i, n)]
    <3>1. CASE i = n
      BY <1>4, <3>1 DEF After
    <3>2. CASE i # n
      <4>1. After(j, n + 1) = i + 2 /\ After(i, n) = i + 1 /\ i + 2 \in 1..(n + 1)
        BY <1>4, <3>2 DEF After
      <4> QED  BY <4>1
    <3> QED  BY <3>1, <3>2
  <2> QED  BY <1>1, <2>1, <2>2
<1>5. CASE j > i + 1
  <2>1. j - 1 \in 1..n /\ t[j] = s[j - 1] /\ j - 1 # i
    BY <1>5
  <2>2. t[After(j, n + 1)] = s[After(j - 1, n)]
    <3>1. CASE j = n + 1
      BY <1>5, <3>1 DEF After
    <3>2. CASE j # n + 1
      <4>1. After(j, n + 1) = j + 1 /\ After(j - 1, n) = j /\ j + 1 \in 1..(n + 1)
        BY <1>5, <3>2 DEF After
      <4> QED  BY <1>5, <4>1
    <3> QED  BY <3>1, <3>2
  <2>3. s[j - 1] # s[i] /\ s[After(j - 1, n)] # s[After(i, n)] /\ After(j - 1, n) \in 1..n
    BY <2>1, <1>0 DEF Distinct
  <2> QED  BY <2>1, <2>2, <2>3 DEF Ring, Distinct
<1> QED  BY <1>2, <1>3, <1>4, <1>5

\* The element at i is left out.
LEMMA DelRing ==
  ASSUME NEW l, NEW k, NEW n \in Nat, NEW i \in 2..n, NEW s, NEW t,
         Distinct(s, n), Ring(l, s, n),
         Removed(t, s, n, i), Passed(l, k, s[i - 1], s[After(i, n)])
  PROVE  Ring(k, t, n - 1)
<1> USE DEF Removed, Passed
<1>0. \A j \in 1..n : After(j, n) \in 1..n /\ (After(j, n) = After(i, n) => j = i)
  BY DEF After
<1> SUFFICES ASSUME NEW j \in 1..(n - 1)
             PROVE  /\ k.next[t[j]] = t[After(j, n - 1)]
                    /\ k.prev[t[After(j, n - 1)]] = t[j]
  BY DEF Ring
<1>1. /\ After(i, n) \in 1..n /\ i - 1 \in 1..n /\ i \in 1..n /\ After(i - 1, n) = i
      /\ s[i - 1] \in Cells /\ s[After(i, n)] \in Cells
  BY <1>0 DEF Distinct, After
<1>2. CASE j < i - 1
  <2>1. /\ j \in 1..n /\ After(j, n) = j + 1 /\ After(j, n - 1) = j + 1 /\ j + 1 \in 1..n
        /\ t[j] = s[j] /\ t[j + 1] = s[j + 1]
    BY <1>2 DEF After
  <2>2. s[j] # s[i - 1] /\ s[j + 1] # s[After(i, n)]
    BY <1>1, <1>2, <2>1, <1>0 DEF Distinct
  <2> QED  BY <2>1, <2>2 DEF Ring, Distinct
<1>3. CASE j = i - 1
  <2>1. t[j] = s[i - 1]
    BY <1>3
  <2>2. t[After(j, n - 1)] = s[After(i, n)]
    <3>1. CASE i = n
      BY <1>3, <3>1 DEF After
    <3>2. CASE i # n
      <4>1. After(j, n - 1) = i /\ After(i, n) = i + 1 /\ i \in 1..(n - 1)
        BY <1>3, <3>2 DEF After
      <4> QED  BY <4>1
    <3> QED  BY <3>1, <3>2
  <2> QED  BY <1>1, <2>1, <2>2
<1>4. CASE j > i - 1
  <2>1. j + 1 \in 1..n /\ t[j] = s[j + 1] /\ j + 1 # i /\ j + 1 # i - 1
    BY <1>4
  <2>2. t[After(j, n - 1)] = s[After(j + 1, n)]
    <3>1. CASE j = n - 1
      BY <1>4, <3>1 DEF After
    <3>2. CASE j # n - 1
      <4>1. After(j, n - 1) = j + 1 /\ After(j + 1, n) = j + 2 /\ j + 1 \in 1..(n - 1)
        BY <1>4, <3>2 DEF After
      <4> QED  BY <1>4, <4>1
    <3> QED  BY <3>1, <3>2
  <2>3. s[j + 1] # s[i - 1] /\ s[After(j + 1, n)] # s[After(i, n)] /\ After(j + 1, n) \in 1..n
    BY <1>1, <2>1, <1>0 DEF Distinct
  <2> QED  BY <2>1, <2>2, <2>3 DEF Ring, Distinct
<1> QED  BY <1>2, <1>3, <1>4

\* Another element in the place of the one at i.
LEMMA ReplaceRing ==
  ASSUME NEW l, NEW k, NEW n \in Nat, NEW i \in 1..n, NEW s, NEW t, NEW e \in Cells,
         Distinct(s, n), \A j \in 1..n : s[j] # e, Ring(l, s, n),
         Changed(t, s, n, i, e),
         n = 1 => k.next[e] = e /\ k.prev[e] = e,
         n # 1 => Taken(l, k, e, s[Before(i, n)], s[After(i, n)])
  PROVE  Ring(k, t, n)
<1> USE DEF Changed, Taken
<1> SUFFICES ASSUME NEW j \in 1..n
             PROVE  k.next[t[j]] = t[After(j, n)] /\ k.prev[t[After(j, n)]] = t[j]
  BY DEF Ring
<1>1. CASE n = 1
  BY <1>1 DEF After
<1>2. CASE n # 1
  <2>1. /\ After(i, n) \in 1..n /\ Before(i, n) \in 1..n /\ After(j, n) \in 1..n
        /\ After(i, n) # i /\ Before(i, n) # i /\ After(j, n) # j
        /\ After(Before(i, n), n) = i /\ (j # Before(i, n) => After(j, n) # i)
        /\ (j # i => After(j, n) # After(i, n))
    BY <1>2 DEF After, Before
  <2>2. CASE j = i
    BY <1>2, <2>1, <2>2 DEF Distinct
  <2>3. CASE j = Before(i, n)
    BY <1>2, <2>1, <2>3 DEF Distinct
  <2>4. CASE j # i /\ j # Before(i, n)
    <3>1. t[j] = s[j] /\ t[After(j, n)] = s[After(j, n)]
      BY <2>1, <2>4
    <3>2. s[j] # s[Before(i, n)] /\ s[After(j, n)] # s[After(i, n)]
      BY <2>1, <2>4 DEF Distinct
    <3> QED  BY <1>2, <2>1, <3>1, <3>2 DEF Ring, Distinct
  <2> QED  BY <2>2, <2>3, <2>4
<1> QED  BY <1>1, <1>2

\* The elements of another ring go in after the one at i.
LEMMA SpliceRing ==
  ASSUME NEW l, NEW k, NEW n \in Nat, NEW i \in 1..n, NEW s, NEW p \in Nat, p >= 2, NEW r, NEW t,
         Distinct(s, n), Distinct(r, p), \A j \in 1..n : \A o \in 1..p : s[j] # r[o],
         Ring(l, s, n), Ring(l, r, p),
         Spliced(t, s, n, i, r, p), Joined(l, k, r[2], r[p], s[i], s[After(i, n)])
  PROVE  Ring(k, t, n + p - 1)
<1> USE DEF Spliced, Joined
<1>0. \A j \in 1..n : After(j, n) \in 1..n /\ (After(j, n) = After(i, n) => j = i)
  BY DEF After
<1> DEFINE w == n + p - 1
<1> SUFFICES ASSUME NEW j \in 1..w
             PROVE  k.next[t[j]] = t[After(j, w)] /\ k.prev[t[After(j, w)]] = t[j]
  BY DEF Ring
<1>1. /\ After(i, n) \in 1..n /\ s[i] \in Cells /\ s[After(i, n)] \in Cells
      /\ p \in 1..p /\ 2 \in 1..p /\ r[2] \in Cells /\ r[p] \in Cells
  BY <1>0 DEF Distinct
<1>2. CASE j < i
  <2>1. /\ j \in 1..n /\ After(j, n) = j + 1 /\ After(j, w) = j + 1 /\ j + 1 \in 1..n
        /\ t[j] = s[j] /\ t[j + 1] = s[j + 1]
    BY <1>2 DEF After
  <2>2. s[j] # s[i] /\ s[j + 1] # s[After(i, n)] /\ s[j] # r[p] /\ s[j + 1] # r[2]
    BY <1>1, <1>2, <2>1, <1>0 DEF Distinct
  <2> QED  BY <2>1, <2>2 DEF Ring, Distinct
<1>3. CASE j = i
  <2>1. After(j, w) = i + 1 /\ i + 1 \in 1..w /\ i + 1 <= i + p - 1 /\ (i + 1) - i + 1 = 2
    BY <1>3 DEF After
  <2>2. t[j] = s[i] /\ t[After(j, w)] = r[2]
    BY <1>3, <2>1
  <2>3. r[2] # s[After(i, n)]
    BY <1>1
  <2> QED  BY <1>1, <2>2, <2>3
<1>4. CASE j > i /\ j < i + p - 1
  <2> DEFINE o == j - i + 1
  <2>1. /\ o \in 1..p /\ o # p /\ o + 1 \in 1..p /\ o + 1 # 2 /\ After(o, p) = o + 1
        /\ After(j, w) = j + 1 /\ j + 1 \in 1..w /\ (j + 1) - i + 1 = o + 1
        /\ ~ (j + 1 <= i) /\ j + 1 <= i + p - 1
    BY <1>4 DEF After
  <2>2. t[j] = r[o] /\ t[j + 1] = r[o + 1]
    BY <1>4, <2>1
  <2> HIDE DEF o
  <2>3. r[o] # s[i] /\ r[o] # r[p] /\ r[o + 1] # r[2] /\ r[o + 1] # s[After(i, n)]
    BY <1>1, <2>1 DEF Distinct
  <2> QED  BY <2>1, <2>2, <2>3 DEF Ring, Distinct
<1>5. CASE j = i + p - 1
  <2>1. t[j] = r[p]
    BY <1>5
  <2>2. t[After(j, w)] = s[After(i, n)]
    <3>1. CASE i = n
      BY <1>5, <3>1 DEF After
    <3>2. CASE i # n
      <4>1. /\ After(j, w) = i + p /\ After(i, n) = i + 1 /\ i + p \in 1..w
            /\ (i + p) - p + 1 = i + 1 /\ ~ (i + p <= i) /\ ~ (i + p <= i + p - 1)
        BY <1>5, <3>2 DEF After
      <4> QED  BY <4>1
    <3> QED  BY <3>1, <3>2
  <2>3. r[p] # s[i]
    BY <1>1
  <2> QED  BY <1>1, <2>1, <2>2, <2>3
<1>6. CASE j > i + p - 1
  <2> DEFINE o == j - p + 1
  <2>1. o \in 1..n /\ t[j] = s[o] /\ o # i
    BY <1>6
  <2>2. t[After(j, w)] = s[After(o, n)]
    <3>1. CASE j = w
      BY <1>6, <3>1 DEF After
    <3>2. CASE j # w
      <4>1. /\ After(j, w) = j + 1 /\ After(o, n) = o + 1 /\ j + 1 \in 1..w
            /\ (j + 1) - p + 1 = o + 1 /\ ~ (j + 1 <= i) /\ ~ (j + 1 <= i + p - 1)
        BY <1>6, <3>2 DEF After
      <4> QED  BY <4>1
    <3> QED  BY <3>1, <3>2
  <2> HIDE DEF o
  <2>3. /\ s[o] # s[i] /\ s[o] # r[p] /\ After(o, n) \in 1..n
        /\ s[After(o, n)] # s[After(i, n)] /\ s[After(o, n)] # r[2]
    BY <1>1, <2>1, <1>0 DEF Distinct
  <2> QED  BY <2>1, <2>2, <2>3 DEF Ring, Distinct
<1> QED  BY <1>2, <1>3, <1>4, <1>5, <1>6

\* The first i elements go to another head, the others stay.
LEMMA CutRing ==
  ASSUME NEW l, NEW k, NEW n \in Nat, NEW i \in 2..n, NEW s, NEW t, NEW u, NEW g \in Cells,
         Distinct(s, n), \A j \in 1..n : s[j] # g, Ring(l, s, n),
         CutBefore(t, s, i, g), CutBehind(u, s, n, i),
         Parted(l, k, g, s[2], s[i], s[1], s[After(i, n)])
  PROVE  Ring(k, t, i) /\ Ring(k, u, n - i + 1)
<1> USE DEF CutBefore, CutBehind, Parted
<1>0. \A j \in 1..n : After(j, n) \in 1..n /\ (After(j, n) = After(i, n) => j = i)
  BY DEF After
<1>1. /\ After(i, n) \in 1..n /\ After(i, n) # 2 /\ 1 \in 1..n /\ 2 \in 1..n /\ i \in 1..n
      /\ s[1] \in Cells /\ s[2] \in Cells /\ s[i] \in Cells /\ s[After(i, n)] \in Cells
      /\ s[1] # s[i] /\ s[2] # s[After(i, n)]
  BY DEF After, Distinct
<1>2. ASSUME NEW j \in 1..i
      PROVE  k.next[t[j]] = t[After(j, i)] /\ k.prev[t[After(j, i)]] = t[j]
  <2>1. CASE j = 1
    <3>1. t[j] = g /\ After(j, i) = 2 /\ t[2] = s[2]
      BY <2>1 DEF After
    <3> QED  BY <1>1, <3>1
  <2>2. CASE j = i
    <3>1. t[j] = s[i] /\ After(j, i) = 1 /\ t[1] = g
      BY <2>2 DEF After
    <3> QED  BY <1>1, <3>1
  <2>3. CASE j # 1 /\ j # i
    <3>1. /\ j \in 1..n /\ After(j, i) = j + 1 /\ After(j, n) = j + 1 /\ j + 1 \in 1..n
          /\ t[j] = s[j] /\ t[j + 1] = s[j + 1] /\ j + 1 # After(i, n)
      BY <2>3 DEF After
    <3>2. s[j] # s[i] /\ s[j] # s[1] /\ s[j + 1] # s[2] /\ s[j + 1] # s[After(i, n)]
      BY <1>1, <2>3, <3>1 DEF Distinct
    <3> QED  BY <3>1, <3>2 DEF Ring, Distinct
  <2> QED  BY <2>1, <2>2, <2>3
<1>3. ASSUME NEW j \in 1..(n - i + 1)
      PROVE  /\ k.next[u[j]] = u[After(j, n - i + 1)]
             /\ k.prev[u[After(j, n - i + 1)]] = u[j]
  <2>1. CASE j = 1
    <3>1. u[j] = s[1]
      BY <2>1
    <3>2. u[After(j, n - i + 1)] = s[After(i, n)]
      <4>1. CASE i = n
        BY <2>1, <4>1 DEF After
      <4>2. CASE i # n
        <5>1. After(j, n - i + 1) = 2 /\ After(i, n) = i + 1 /\ 2 \in 1..(n - i + 1)
              /\ i + 2 - 1 = i + 1
          BY <2>1, <4>2 DEF After
        <5> QED  BY <5>1
      <4> QED  BY <4>1, <4>2
    <3> QED  BY <1>1, <3>1, <3>2
  <2>2. CASE j # 1
    <3> DEFINE o == i + j - 1
    <3>1. o \in 1..n /\ u[j] = s[o] /\ o # i /\ o # 1
      BY <2>2
    <3>2. u[After(j, n - i + 1)] = s[After(o, n)] /\ After(o, n) # After(i, n) /\ After(o, n) # 2
      <4>1. CASE j = n - i + 1
        BY <2>2, <4>1 DEF After
      <4>2. CASE j # n - i + 1
        <5>1. /\ After(j, n - i + 1) = j + 1 /\ After(o, n) = o + 1 /\ j + 1 \in 1..(n - i + 1)
              /\ i + (j + 1) - 1 = o + 1 /\ j + 1 # 1
          BY <2>2, <4>2 DEF After
        <5>2. u[j + 1] = s[o + 1]
          BY <5>1
        <5>3. o + 1 # After(i, n) /\ o + 1 # 2
          BY <2>2 DEF After
        <5> QED  BY <5>1, <5>2, <5>3
      <4> QED  BY <4>1, <4>2
    <3> HIDE DEF o
    <3>3. /\ s[o] # s[i] /\ s[o] # s[1] /\ After(o, n) \in 1..n
          /\ s[After(o, n)] # s[2] /\ s[After(o, n)] # s[After(i, n)]
      BY <1>1, <3>1, <3>2, <1>0 DEF Distinct
    <3> QED  BY <3>1, <3>2, <3>3 DEF Ring, Distinct
  <2> QED  BY <2>1, <2>2
<1> QED  BY <1>2, <1>3 DEF Ring

-----------------------------------------------------------------------------
(* Lists as sequences *)

\* An element goes into a sequence, in front of the one at k or at the end.
LEMMA Insertion ==
  ASSUME NEW S, NEW s \in Seq(S), NEW k \in 1..(Len(s) + 1), NEW e \in S
  PROVE  /\ List!InsertAt(s, k, e) \in Seq(S) /\ Len(List!InsertAt(s, k, e)) = Len(s) + 1
         /\ Inserted(List!InsertAt(s, k, e), s, Len(s), k, e)
         /\ Append(s, e) \in Seq(S) /\ Len(Append(s, e)) = Len(s) + 1
         /\ Inserted(Append(s, e), s, Len(s), Len(s) + 1, e)
<1> DEFINE n == Len(s)
           front == SubSeq(s, 1, k - 1)
           back == SubSeq(s, k, n)
           left == front \o <<e>>
           t == left \o back
<1>1. n \in Nat /\ \A j \in 1..n : s[j] \in S
  BY LenProperties, ElementOfSeq
<1>2. front \in Seq(S) /\ Len(front) = k - 1 /\ \A j \in 1..(k - 1) : front[j] = s[j]
  <2>1. \A j \in 1..(k - 1) : s[j] \in S
    BY <1>1
  <2> QED  BY <1>1, <2>1, SubSeqProperties
<1>3. back \in Seq(S) /\ Len(back) = n - k + 1 /\ \A j \in 1..(n - k + 1) : back[j] = s[k + j - 1]
  <2>1. \A j \in k..n : s[j] \in S
    BY <1>1
  <2> QED  BY <1>1, <2>1, SubSeqProperties
<1>4. <<e>> \in Seq(S) /\ Len(<<e>>) = 1 /\ <<e>>[1] = e
  OBVIOUS
<1>5. List!InsertAt(s, k, e) = t
  BY DEF List!InsertAt
<1> HIDE DEF front, back
<1>6. left \in Seq(S) /\ Len(left) = k /\ \A j \in 1..k : left[j] = IF j < k THEN s[j] ELSE e
  BY <1>1, <1>2, <1>4, ConcatProperties
<1> HIDE DEF left
<1>7. /\ t \in Seq(S) /\ Len(t) = k + (n - k + 1)
      /\ \A j \in 1..(k + (n - k + 1)) : t[j] = IF j <= k THEN left[j] ELSE back[j - k]
  <2>1. /\ t \in Seq(S) /\ Len(t) = Len(left) + Len(back)
        /\ \A j \in 1..(Len(left) + Len(back)) :
             t[j] = IF j <= Len(left) THEN left[j] ELSE back[j - Len(left)]
    BY <1>3, <1>6, ConcatProperties
  <2> HIDE DEF t, n
  <2> QED  BY <2>1, <1>3, <1>6
<1> HIDE DEF t
<1>8. Len(t) = n + 1 /\ k + (n - k + 1) = n + 1
  BY <1>1, <1>7
<1>9. ASSUME NEW j \in 1..(n + 1)
      PROVE  t[j] = IF j < k THEN s[j] ELSE IF j = k THEN e ELSE s[j - 1]
  <2>1. CASE j <= k
    BY <1>6, <1>7, <1>8, <2>1
  <2>2. CASE ~ (j <= k)
    <3>1. j - k \in 1..(n - k + 1) /\ k + (j - k) - 1 = j - 1
      BY <1>1, <2>2
    <3>2. back[j - k] = s[k + (j - k) - 1]
      BY <1>3, <3>1
    <3> QED  BY <1>7, <1>8, <2>2, <3>1, <3>2
  <2> QED  BY <2>1, <2>2
<1>10. /\ Append(s, e) \in Seq(S) /\ Len(Append(s, e)) = n + 1 /\ Append(s, e)[n + 1] = e
       /\ \A j \in 1..n : Append(s, e)[j] = s[j]
  BY AppendProperties
<1>11. \A j \in 1..(n + 1) : Append(s, e)[j] = IF j < n + 1 THEN s[j] ELSE IF j = n + 1 THEN e ELSE s[j - 1]
  BY <1>1, <1>10
<1> QED  BY <1>5, <1>7, <1>8, <1>9, <1>10, <1>11 DEF Inserted

\* The element at i is taken out of a sequence.
LEMMA Removal ==
  ASSUME NEW S, NEW s \in Seq(S), NEW i \in 1..Len(s)
  PROVE  /\ List!RemoveAt(s, i) \in Seq(S) /\ Len(List!RemoveAt(s, i)) = Len(s) - 1
         /\ Removed(List!RemoveAt(s, i), s, Len(s), i)
<1> DEFINE n == Len(s)
           front == SubSeq(s, 1, i - 1)
           back == SubSeq(s, i + 1, n)
           t == front \o back
<1>1. n \in Nat /\ \A j \in 1..n : s[j] \in S
  BY LenProperties, ElementOfSeq
<1>2. front \in Seq(S) /\ Len(front) = i - 1 /\ \A j \in 1..(i - 1) : front[j] = s[j]
  <2>1. \A j \in 1..(i - 1) : s[j] \in S
    BY <1>1
  <2> QED  BY <1>1, <2>1, SubSeqProperties
<1>3. back \in Seq(S) /\ Len(back) = n - i /\ \A j \in 1..(n - i) : back[j] = s[i + j]
  <2>1. \A j \in (i + 1)..n : s[j] \in S
    BY <1>1
  <2> QED  BY <1>1, <2>1, SubSeqProperties
<1>4. List!RemoveAt(s, i) = t
  BY DEF List!RemoveAt
<1> HIDE DEF front, back
<1>5. /\ t \in Seq(S) /\ Len(t) = (i - 1) + (n - i)
      /\ \A j \in 1..((i - 1) + (n - i)) : t[j] = IF j <= i - 1 THEN front[j] ELSE back[j - (i - 1)]
  <2>1. /\ t \in Seq(S) /\ Len(t) = Len(front) + Len(back)
        /\ \A j \in 1..(Len(front) + Len(back)) :
             t[j] = IF j <= Len(front) THEN front[j] ELSE back[j - Len(front)]
    BY <1>2, <1>3, ConcatProperties
  <2> HIDE DEF t, n
  <2> QED  BY <2>1, <1>2, <1>3
<1> HIDE DEF t
<1>6. Len(t) = n - 1 /\ (i - 1) + (n - i) = n - 1
  BY <1>1, <1>5
<1>7. ASSUME NEW j \in 1..(n - 1)  PROVE t[j] = IF j < i THEN s[j] ELSE s[j + 1]
  <2>1. CASE j < i
    <3>1. j \in 1..(i - 1) /\ j <= i - 1
      BY <1>1, <2>1
    <3>2. t[j] = front[j]
      BY <1>5, <1>6, <3>1
    <3> QED  BY <1>2, <2>1, <3>1, <3>2
  <2>2. CASE ~ (j < i)
    <3>1. j - (i - 1) \in 1..(n - i) /\ i + (j - (i - 1)) = j + 1
      BY <1>1, <2>2
    <3>2. back[j - (i - 1)] = s[i + (j - (i - 1))]
      BY <1>3, <3>1
    <3> QED  BY <1>5, <1>6, <2>2, <3>1, <3>2
  <2> QED  BY <2>1, <2>2
<1> QED  BY <1>4, <1>5, <1>6, <1>7 DEF Removed

\* The list of h: the head and then entries, each once.
IsList(s, h) ==
  /\ s \in Seq(Cells) /\ Len(s) >= 1 /\ s[1] = h
  /\ \A i \in 2..Len(s) : s[i] \in Entries
  /\ Distinct(s, Len(s))

Of(s) == {s[i] : i \in 1..Len(s)}

\* The pointers l are those of the lists R, which share no cell; the heads in S
\* are not in use.
Lists(l, R, S) ==
  /\ l \in Pointers /\ R \in [Heads -> Seq(Cells)] /\ S \subseteq Heads
  /\ \A h \in Heads :
       /\ IsList(R[h], h)
       /\ h \in S => Len(R[h]) = 1
       /\ h \notin S => Ring(l, R[h], Len(R[h]))
  /\ \A g, h \in Heads : g # h => Of(R[g]) \cap Of(R[h]) = {}

ListInv == Lists(m, rings, stale)

Free(R, e) == \A h \in Heads : e \notin Of(R[h])

\* A list whose cells are left alone.
LEMMA RingKept ==
  ASSUME NEW h, NEW s, IsList(s, h), NEW l, NEW k, NEW C, Ring(l, s, Len(s)), SameBut(l, k, C),
         Of(s) \cap C = {}
  PROVE  Ring(k, s, Len(s))
<1> DEFINE n == Len(s)
<1>1. n \in Nat /\ \A i \in 1..n : s[i] \in Cells
  BY LenProperties DEF IsList, Distinct
<1>2. Ring(l, s, n) /\ \A i \in 1..n : s[i] \notin C
  BY DEF Of
<1> HIDE DEF n
<1>3. \A i \in 1..n : After(i, n) \in 1..n
  BY <1>1 DEF After
<1>4. Ring(k, s, n)
  BY <1>1, <1>2, <1>3 DEF Ring, SameBut
<1> QED  BY <1>4 DEF n

\* One list changes, within the cells of C.
LEMMA OneListChanges ==
  ASSUME NEW l, NEW R, NEW S, Lists(l, R, S), NEW h \in Heads \ S, NEW t, IsList(t, h),
         NEW C, NEW k \in Pointers, SameBut(l, k, C), Of(t) \subseteq C,
         \A g \in Heads \ {h} : Of(R[g]) \cap C = {},
         Ring(k, t, Len(t))
  PROVE  Lists(k, [R EXCEPT ![h] = t], S)
<1> DEFINE T == [R EXCEPT ![h] = t]
<1>1. T \in [Heads -> Seq(Cells)] /\ T[h] = t /\ \A g \in Heads \ {h} : T[g] = R[g]
  BY DEF Lists, IsList
<1> HIDE DEF T
<1>2. \A g \in Heads \ {h} : g \notin S => Ring(k, R[g], Len(R[g]))
  BY RingKept DEF Lists
<1>3. ASSUME NEW g \in Heads
      PROVE  IsList(T[g], g) /\ (g \in S => Len(T[g]) = 1) /\ (g \notin S => Ring(k, T[g], Len(T[g])))
  BY <1>1, <1>2 DEF Lists
<1>4. \A g, j \in Heads : g # j => Of(T[g]) \cap Of(T[j]) = {}
  BY <1>1 DEF Lists
<1>5. S \subseteq Heads
  BY DEF Lists
<1>6. Lists(k, T, S)
  BY <1>1, <1>3, <1>4, <1>5 DEF Lists
<1> QED  BY <1>6 DEF T

\* Two lists change, and with them which heads are in use.
LEMMA TwoListsChange ==
  ASSUME NEW l, NEW R, NEW S, Lists(l, R, S), NEW g \in Heads, NEW h \in Heads, g # h,
         NEW t, NEW u, IsList(t, g), IsList(u, h),
         NEW C, NEW k \in Pointers, SameBut(l, k, C),
         Of(t) \subseteq C, Of(u) \subseteq C, Of(t) \cap Of(u) = {},
         \A j \in Heads \ {g, h} : Of(R[j]) \cap C = {},
         NEW Z \in SUBSET Heads, Z \ {g, h} = S \ {g, h},
         g \in Z => Len(t) = 1, g \notin Z => Ring(k, t, Len(t)),
         h \in Z => Len(u) = 1, h \notin Z => Ring(k, u, Len(u)),
         NEW T, T = [R EXCEPT ![g] = t, ![h] = u]
  PROVE  Lists(k, T, Z)
<1>1. /\ T \in [Heads -> Seq(Cells)] /\ T[g] = t /\ T[h] = u
      /\ \A j \in Heads \ {g, h} : T[j] = R[j]
  BY DEF Lists, IsList
<1>2. \A j \in Heads \ {g, h} : j \notin Z => Ring(k, R[j], Len(R[j]))
  BY RingKept DEF Lists
<1>3. ASSUME NEW j \in Heads
      PROVE  IsList(T[j], j) /\ (j \in Z => Len(T[j]) = 1) /\ (j \notin Z => Ring(k, T[j], Len(T[j])))
  BY <1>1, <1>2 DEF Lists
<1>4. \A i, j \in Heads : i # j => Of(T[i]) \cap Of(T[j]) = {}
  BY <1>1 DEF Lists
<1> QED  BY <1>1, <1>3, <1>4 DEF Lists

\* The pointers of an entry that is in no list may be anything.
LEMMA FreeEntry ==
  ASSUME NEW l, NEW R, NEW S, Lists(l, R, S), NEW e \in Entries, Free(R, e),
         NEW k \in Pointers, SameBut(l, k, {e})
  PROVE  Lists(k, R, S)
<1>1. \A h \in Heads : h \notin S => Ring(k, R[h], Len(R[h]))
  BY RingKept DEF Lists, Free
<1> QED  BY <1>1 DEF Lists

\* What is known of one list.
LEMMA ListFacts ==
  ASSUME NEW s, NEW h, IsList(s, h)
  PROVE  /\ s \in Seq(Cells) /\ Len(s) \in Nat /\ Len(s) >= 1 /\ s[1] = h /\ Distinct(s, Len(s))
         /\ \A i \in 1..Len(s) : s[i] \in Cells /\ s[i] \in Of(s)
         /\ \A i \in 2..Len(s) : s[i] \in Entries
<1> QED  BY LenProperties DEF IsList, Distinct, Of

\* A sequence with e inserted is a list of the same cells and e.
LEMMA InsertedList ==
  ASSUME NEW s, NEW h, IsList(s, h), NEW e \in Entries, e \notin Of(s), NEW i \in 1..Len(s),
         NEW t \in Seq(Cells), Len(t) = Len(s) + 1, Inserted(t, s, Len(s), i + 1, e)
  PROVE  IsList(t, h) /\ Of(t) = Of(s) \cup {e}
<1> DEFINE n == Len(s)
<1>1. /\ n \in Nat /\ n >= 1 /\ s[1] = h /\ i \in 1..n
      /\ \A j \in 1..n : s[j] \in Cells /\ s[j] # e /\ \A o \in 1..n : s[j] = s[o] => j = o
      /\ \A j \in 2..n : s[j] \in Entries
  BY ListFacts DEF Distinct, Of
<1>2. /\ Len(t) = n + 1
      /\ \A j \in 1..(n + 1) : t[j] = IF j < i + 1 THEN s[j] ELSE IF j = i + 1 THEN e ELSE s[j - 1]
  BY DEF Inserted
<1>3. Of(s) = {s[j] : j \in 1..n} /\ Of(t) = {t[j] : j \in 1..(n + 1)}
  BY <1>2 DEF Of
<1> HIDE DEF n
<1>4. t[1] = h /\ e \in Cells
  BY <1>1, <1>2 DEF Cells
<1>5. ASSUME NEW j \in 2..(n + 1)  PROVE t[j] \in Entries
  <2>1. CASE j < i + 1
    <3>1. j \in 2..n /\ t[j] = s[j]
      BY <1>1, <1>2, <2>1
    <3> QED  BY <1>1, <3>1
  <2>2. CASE j = i + 1
    BY <1>1, <1>2, <2>2
  <2>3. CASE j > i + 1
    <3>1. j - 1 \in 2..n /\ t[j] = s[j - 1]
      BY <1>1, <1>2, <2>3
    <3> QED  BY <1>1, <3>1
  <2> QED  BY <1>1, <2>1, <2>2, <2>3
<1>6. ASSUME NEW j \in 1..(n + 1)
      PROVE  t[j] \in Cells /\ \A o \in 1..(n + 1) : t[j] = t[o] => j = o
  <2>1. t[j] \in Cells
    BY <1>1, <1>2, <1>4
  <2>2. ASSUME NEW o \in 1..(n + 1), t[j] = t[o]  PROVE j = o
    <3> DEFINE Old(x) == IF x < i + 1 THEN x ELSE x - 1
    <3>1. /\ j # i + 1 => Old(j) \in 1..n /\ t[j] = s[Old(j)]
          /\ o # i + 1 => Old(o) \in 1..n /\ t[o] = s[Old(o)]
          /\ j = i + 1 => t[j] = e
          /\ o = i + 1 => t[o] = e
      BY <1>1, <1>2
    <3>2. j # i + 1 /\ o # i + 1 => (Old(j) = Old(o) => j = o)
      BY <1>1
    <3> HIDE DEF Old
    <3> QED  BY <1>1, <2>2, <3>1, <3>2
  <2> QED  BY <2>1, <2>2
<1>7. Of(t) = Of(s) \cup {e}
  <2>1. \A j \in 1..(n + 1) : t[j] = e \/ \E o \in 1..n : t[j] = s[o]
    <3> TAKE j \in 1..(n + 1)
    <3>1. CASE j < i + 1
      BY <1>1, <1>2, <3>1
    <3>2. CASE j = i + 1
      BY <1>1, <1>2, <3>2
    <3>3. CASE j > i + 1
      <4>1. j - 1 \in 1..n /\ t[j] = s[j - 1]
        BY <1>1, <1>2, <3>3
      <4> QED  BY <4>1
    <3> QED  BY <1>1, <3>1, <3>2, <3>3
  <2>2. \A o \in 1..n : \E j \in 1..(n + 1) : t[j] = s[o]
    <3> TAKE o \in 1..n
    <3>1. CASE o < i + 1
      <4>1. o \in 1..(n + 1) /\ t[o] = s[o]
        BY <1>1, <1>2, <3>1
      <4> QED  BY <4>1
    <3>2. CASE ~ (o < i + 1)
      <4>1. o + 1 \in 1..(n + 1) /\ t[o + 1] = s[o]
        BY <1>1, <1>2, <3>2
      <4> QED  BY <4>1
    <3> QED  BY <3>1, <3>2
  <2>3. i + 1 \in 1..(n + 1) /\ t[i + 1] = e
    BY <1>1, <1>2
  <2>4. \E j \in 1..(n + 1) : t[j] = e
    BY <2>3
  <2> HIDE DEF Of
  <2> QED  BY <1>3, <2>1, <2>2, <2>4
<1> QED  BY <1>1, <1>2, <1>4, <1>5, <1>6, <1>7 DEF IsList, Distinct

\* Two lists of a family have no cell in common.
LEMMA Apart ==
  ASSUME NEW l, NEW R, NEW S, Lists(l, R, S), NEW h \in Heads
  PROVE  /\ IsList(R[h], h)
         /\ l \in Pointers
         /\ \A g \in Heads \ {h} : Of(R[g]) \cap Of(R[h]) = {}
         /\ h \notin S => Ring(l, R[h], Len(R[h]))
<1> QED  BY DEF Lists

\* A free entry goes into a list.
LEMMA AddList ==
  ASSUME NEW l, NEW R, NEW S, Lists(l, R, S), NEW h \in Heads \ S, NEW e \in Entries, Free(R, e),
         NEW i \in 1..Len(R[h]), NEW t \in Seq(Cells),
         Len(t) = Len(R[h]) + 1, Inserted(t, R[h], Len(R[h]), i + 1, e)
  PROVE  Lists(List!list_add_between(l, e, R[h][i], R[h][After(i, Len(R[h]))]),
               [R EXCEPT ![h] = t], S)
<1> DEFINE s == R[h]
           n == Len(s)
           k == List!list_add_between(l, e, s[i], s[After(i, n)])
           C == Of(s) \cup {e}
<1>1. IsList(s, h) /\ l \in Pointers /\ Ring(l, s, n) /\ e \notin Of(s)
  BY Apart DEF Free
<1>2. /\ n \in Nat /\ n >= 1 /\ Distinct(s, n) /\ i \in 1..n
      /\ \A j \in 1..n : s[j] \in Cells /\ s[j] \in Of(s)
  BY <1>1, ListFacts
<1>3. IsList(t, h) /\ Of(t) = C
  BY <1>1, InsertedList
<1>4. \A g \in Heads \ {h} : Of(R[g]) \cap C = {}
  BY Apart DEF Free
<1>5. Len(t) = n + 1 /\ Inserted(t, s, n, i + 1, e)
  OBVIOUS
<1> HIDE DEF s, n, C
<1>6. After(i, n) \in 1..n /\ e \in Cells /\ \A j \in 1..n : s[j] # e
  BY <1>1, <1>2 DEF After, Cells
<1>7. s[i] \in Cells /\ s[After(i, n)] \in Cells /\ e # s[i] /\ e # s[After(i, n)]
  BY <1>2, <1>6
<1>8. k \in Pointers /\ Added(l, k, e, s[i], s[After(i, n)])
  BY <1>1, <1>6, <1>7, AddPointers
<1> HIDE DEF k
<1>9. Ring(k, t, n + 1)
  BY <1>1, <1>2, <1>5, <1>6, <1>8, AddRing
<1>10. SameBut(l, k, C)
  BY <1>2, <1>6, <1>8 DEF SameBut, C, Added
<1>11. Lists(k, [R EXCEPT ![h] = t], S)
  BY <1>3, <1>4, <1>5, <1>8, <1>9, <1>10, OneListChanges
<1> QED  BY <1>11 DEF k, s, n

\* What the pointers of a cell in a ring are.
LEMMA RingFacts ==
  ASSUME NEW l, NEW s, NEW n \in Nat, Ring(l, s, n), NEW i \in 1..n
  PROVE  /\ l.next[s[i]] = s[After(i, n)] /\ l.prev[s[i]] = s[Before(i, n)]
         /\ After(i, n) \in 1..n /\ Before(i, n) \in 1..n
         /\ l.prev[s[After(i, n)]] = s[i]
<1>1. /\ After(i, n) \in 1..n /\ Before(i, n) \in 1..n /\ After(Before(i, n), n) = i
  BY DEF After, Before
<1> QED  BY <1>1 DEF Ring

\* A sequence with the element at i removed is a list of its other cells.
LEMMA RemovedList ==
  ASSUME NEW s, NEW h, IsList(s, h), NEW i \in 2..Len(s),
         NEW t \in Seq(Cells), Len(t) = Len(s) - 1, Removed(t, s, Len(s), i)
  PROVE  IsList(t, h) /\ Of(t) = Of(s) \ {s[i]}
<1> DEFINE n == Len(s)
<1>1. /\ n \in Nat /\ n >= 1 /\ s[1] = h /\ i \in 2..n
      /\ \A j \in 1..n : s[j] \in Cells /\ \A o \in 1..n : s[j] = s[o] => j = o
      /\ \A j \in 2..n : s[j] \in Entries
  BY ListFacts DEF Distinct
<1>2. /\ Len(t) = n - 1 /\ \A j \in 1..(n - 1) : t[j] = IF j < i THEN s[j] ELSE s[j + 1]
  BY DEF Removed
<1>3. Of(s) = {s[j] : j \in 1..n} /\ Of(t) = {t[j] : j \in 1..(n - 1)}
  BY <1>2 DEF Of
<1> HIDE DEF n
<1> DEFINE Old(x) == IF x < i THEN x ELSE x + 1
<1>4. \A j \in 1..(n - 1) :
        /\ Old(j) \in 1..n /\ Old(j) # i /\ t[j] = s[Old(j)] /\ (j # 1 => Old(j) \in 2..n)
        /\ \A o \in 1..(n - 1) : Old(j) = Old(o) => j = o
  BY <1>1, <1>2
<1>5. \A o \in 1..n : o # i => \E j \in 1..(n - 1) : Old(j) = o
  <2> SUFFICES ASSUME NEW o \in 1..n, o # i  PROVE \E j \in 1..(n - 1) : Old(j) = o
    OBVIOUS
  <2> DEFINE j == IF o < i THEN o ELSE o - 1
  <2>1. j \in 1..(n - 1) /\ Old(j) = o
    BY <1>1
  <2> HIDE DEF j
  <2> QED  BY <2>1
<1>6. t[1] = h /\ n - 1 >= 1
  BY <1>1, <1>2
<1> HIDE DEF Old
<1>7. \A j \in 2..(n - 1) : t[j] \in Entries
  BY <1>1, <1>4
<1>8. \A j \in 1..(n - 1) : t[j] \in Cells /\ \A o \in 1..(n - 1) : t[j] = t[o] => j = o
  BY <1>1, <1>4
<1>9. Of(t) = Of(s) \ {s[i]}
  <2>1. i \in 1..n
    BY <1>1
  <2>2. \A j \in 1..(n - 1) : t[j] # s[i]
    BY <1>1, <1>4, <2>1
  <2>3. \A o \in 1..n : s[o] # s[i] => \E j \in 1..(n - 1) : t[j] = s[o]
    BY <1>4, <1>5
  <2>4. \A j \in 1..(n - 1) : \E o \in 1..n : t[j] = s[o]
    BY <1>4
  <2>5. \A j \in 1..(n - 1) : t[j] \in Of(s) \ {s[i]}
    BY <1>3, <2>2, <2>4
  <2>6. \A o \in 1..n : s[o] # s[i] => s[o] \in Of(t)
    BY <1>3, <2>3
  <2> HIDE DEF Of
  <2> QED  BY <1>3, <2>5, <2>6
<1> QED  BY <1>1, <1>2, <1>6, <1>7, <1>8, <1>9 DEF IsList, Distinct

\* An entry leaves its list.
LEMMA DelList ==
  ASSUME NEW l, NEW R, NEW S, Lists(l, R, S), NEW h \in Heads \ S, NEW i \in 2..Len(R[h]),
         NEW t \in Seq(Cells), Len(t) = Len(R[h]) - 1, Removed(t, R[h], Len(R[h]), i)
  PROVE  /\ Lists(List!Unlink(l, R[h][i]), [R EXCEPT ![h] = t], S)
         /\ IsList(t, h) /\ Of(t) = Of(R[h]) \ {R[h][i]}
         /\ Free([R EXCEPT ![h] = t], R[h][i])
<1> DEFINE s == R[h]
           n == Len(s)
           k == List!Unlink(l, s[i])
           C == Of(s)
           T == [R EXCEPT ![h] = t]
<1>1. IsList(s, h) /\ l \in Pointers /\ Ring(l, s, n)
  BY Apart
<1>2. /\ n \in Nat /\ n >= 1 /\ Distinct(s, n) /\ i \in 1..n
      /\ \A j \in 1..n : s[j] \in Cells /\ s[j] \in C
  BY <1>1, ListFacts
<1>3. IsList(t, h) /\ Of(t) = C \ {s[i]}
  BY <1>1, RemovedList
<1>4. \A g \in Heads \ {h} : Of(R[g]) \cap C = {}
  BY Apart
<1>5. Len(t) = n - 1 /\ Removed(t, s, n, i)
  OBVIOUS
<1>6. R \in [Heads -> Seq(Cells)]
  BY DEF Lists
<1> HIDE DEF s, n, C
<1>7. /\ After(i, n) \in 1..n /\ i - 1 \in 1..n
      /\ l.next[s[i]] = s[After(i, n)] /\ l.prev[s[i]] = s[i - 1]
  <2>1. Before(i, n) = i - 1
    BY <1>2 DEF Before
  <2>2. /\ After(i, n) \in 1..n /\ Before(i, n) \in 1..n
        /\ l.next[s[i]] = s[After(i, n)] /\ l.prev[s[i]] = s[Before(i, n)]
    <3>1. n \in Nat /\ Ring(l, s, n) /\ i \in 1..n
      BY <1>1, <1>2
    <3> QED  BY ONLY <3>1, RingFacts
  <2> QED  BY <2>1, <2>2
<1>8. s[i - 1] \in Cells /\ s[After(i, n)] \in Cells
  BY <1>2, <1>7
<1>9. k = List!list_del_between(l, s[i - 1], s[After(i, n)])
  BY <1>7 DEF List!Unlink
<1> HIDE DEF k
<1>10. k \in Pointers /\ Passed(l, k, s[i - 1], s[After(i, n)])
  BY <1>1, <1>8, <1>9, DelPointers
<1>11. Ring(k, t, n - 1)
  BY <1>1, <1>2, <1>5, <1>10, DelRing
<1>12. SameBut(l, k, C)
  BY <1>2, <1>7, <1>10 DEF SameBut, Passed
<1>13. Lists(k, T, S)
  BY <1>3, <1>4, <1>5, <1>10, <1>11, <1>12, OneListChanges
<1>14. Free(T, s[i])
  BY <1>2, <1>3, <1>4, <1>6 DEF Free
<1> QED  BY <1>3, <1>13, <1>14 DEF k, s, n, C

\* A sequence with its element at i replaced is a list with the new cell instead.
LEMMA ChangedList ==
  ASSUME NEW s, NEW h, IsList(s, h), NEW i \in 2..Len(s), NEW e \in Entries, e \notin Of(s),
         NEW t \in Seq(Cells), Len(t) = Len(s), Changed(t, s, Len(s), i, e)
  PROVE  IsList(t, h) /\ Of(t) = (Of(s) \ {s[i]}) \cup {e}
<1> DEFINE n == Len(s)
<1>1. /\ n \in Nat /\ n >= 1 /\ s[1] = h /\ i \in 2..n
      /\ \A j \in 1..n : s[j] \in Cells /\ s[j] # e /\ \A o \in 1..n : s[j] = s[o] => j = o
      /\ \A j \in 2..n : s[j] \in Entries
  BY ListFacts DEF Distinct, Of
<1>2. Len(t) = n /\ \A j \in 1..n : t[j] = IF j = i THEN e ELSE s[j]
  BY DEF Changed
<1>3. Of(s) = {s[j] : j \in 1..n} /\ Of(t) = {t[j] : j \in 1..n}
  BY <1>2 DEF Of
<1> HIDE DEF n
<1>4. t[1] = h /\ e \in Cells /\ i \in 1..n
  BY <1>1, <1>2 DEF Cells
<1>5. \A j \in 2..n : t[j] \in Entries
  BY <1>1, <1>2
<1>6. \A j \in 1..n : t[j] \in Cells /\ \A o \in 1..n : t[j] = t[o] => j = o
  BY <1>1, <1>2, <1>4
<1>7. Of(t) = (Of(s) \ {s[i]}) \cup {e}
  BY <1>1, <1>2, <1>3, <1>4
<1> QED  BY <1>1, <1>2, <1>4, <1>5, <1>6, <1>7 DEF IsList, Distinct

\* A free entry takes the place of one in a list.
LEMMA ReplaceList ==
  ASSUME NEW l, NEW R, NEW S, Lists(l, R, S), NEW h \in Heads \ S, NEW i \in 2..Len(R[h]),
         NEW e \in Entries, Free(R, e),
         NEW t \in Seq(Cells), Len(t) = Len(R[h]), Changed(t, R[h], Len(R[h]), i, e)
  PROVE  /\ Lists(List!list_replace(l, R[h][i], e), [R EXCEPT ![h] = t], S)
         /\ Free([R EXCEPT ![h] = t], R[h][i])
<1> DEFINE s == R[h]
           n == Len(s)
           k == List!list_replace(l, s[i], e)
           C == Of(s) \cup {e}
           T == [R EXCEPT ![h] = t]
<1>1. IsList(s, h) /\ l \in Pointers /\ Ring(l, s, n) /\ e \notin Of(s)
  BY Apart DEF Free
<1>2. /\ n \in Nat /\ n >= 1 /\ Distinct(s, n) /\ i \in 1..n /\ i \in 2..n
      /\ \A j \in 1..n : s[j] \in Cells /\ s[j] \in Of(s) /\ s[j] # e
  BY <1>1, ListFacts
<1>3. IsList(t, h) /\ Of(t) = (Of(s) \ {s[i]}) \cup {e}
  BY <1>1, ChangedList
<1>4. \A g \in Heads \ {h} : Of(R[g]) \cap C = {}
  BY Apart DEF Free
<1>5. Len(t) = n /\ Changed(t, s, n, i, e) /\ Of(t) \subseteq C /\ Of(s) \subseteq C /\ e \in C
  BY <1>3
<1>6. R \in [Heads -> Seq(Cells)] /\ e \in Cells
  BY DEF Lists, Cells
<1>61. \A g \in Heads \ {h} : s[i] \notin Of(R[g])
  BY <1>2, <1>4
<1>62. s[i] \notin Of(t)
  BY <1>2, <1>3
<1> HIDE DEF s, n, C
<1>7. /\ After(i, n) \in 1..n /\ Before(i, n) \in 1..n
      /\ l.next[s[i]] = s[After(i, n)] /\ l.prev[s[i]] = s[Before(i, n)]
      /\ After(i, n) # i /\ Before(i, n) # i
  <2>1. After(i, n) # i /\ Before(i, n) # i
    BY <1>2 DEF After, Before
  <2> QED  BY <1>1, <1>2, <2>1, RingFacts
<1>8. /\ l.next[s[i]] \in Cells /\ l.prev[s[i]] \in Cells
      /\ l.next[s[i]] # e /\ l.prev[s[i]] # e /\ s[i] \in Cells /\ e # s[i]
      /\ l.next[s[i]] # s[i] /\ l.prev[s[i]] # s[i]
  BY <1>2, <1>7 DEF Distinct
<1>9. k \in Pointers /\ Taken(l, k, e, l.prev[s[i]], l.next[s[i]])
  BY <1>1, <1>6, <1>8, ReplacePointers
<1> HIDE DEF k
<1>10. Taken(l, k, e, s[Before(i, n)], s[After(i, n)]) /\ n # 1
  BY <1>2, <1>7, <1>9
<1>11. Ring(k, t, n)
  BY <1>1, <1>2, <1>5, <1>6, <1>10, ReplaceRing
<1>12. SameBut(l, k, C)
  BY <1>2, <1>5, <1>7, <1>10 DEF SameBut, Taken
<1>13. Lists(k, T, S)
  BY <1>3, <1>4, <1>5, <1>9, <1>11, <1>12, OneListChanges
<1>14. Free(T, s[i])
  BY <1>6, <1>61, <1>62 DEF Free
<1> QED  BY <1>13, <1>14 DEF k, s

\* An entry in no list shares no cell with one.
LEMMA LooseIsFree ==
  ASSUME ListInv, NEW e \in Entries, List!Loose(e)
  PROVE  Free(rings, e)
<1> SUFFICES ASSUME NEW h \in Heads, e \in Of(rings[h])  PROVE FALSE
  BY DEF Free
<1> DEFINE s == rings[h]
<1>1. /\ Len(s) \in Nat /\ s[1] = h
  BY ListFacts, Apart DEF ListInv
<1>2. PICK i \in 1..Len(s) : s[i] = e
  BY DEF Of
<1>3. i # 1
  BY <1>1, <1>2, AddressAssumption DEF AddressAssumption
<1>4. i \in 2..Len(s)
  BY <1>1, <1>3
<1> QED  BY <1>2, <1>4 DEF List!Loose, List!On

\* A cell of a list is at one place.
LEMMA PlaceIs ==
  ASSUME NEW s, NEW h, IsList(s, h), NEW i \in 1..Len(s)
  PROVE  List!Place(s, s[i]) = i
<1>1. List!Place(s, s[i]) \in 1..Len(s) /\ s[List!Place(s, s[i])] = s[i]
  BY DEF List!Place
<1> QED  BY <1>1 DEF IsList, Distinct

\* An entry of a list has a place behind the head.
LEMMA OnHasPlace ==
  ASSUME ListInv, NEW h \in Heads, NEW x, List!On(h, x) \/ x = h
  PROVE  \E i \in 1..Len(rings[h]) :
           rings[h][i] = x /\ List!At(h, x) = i /\ (List!On(h, x) /\ x \in Entries => i # 1)
<1> DEFINE s == rings[h]
<1>1. IsList(s, h) /\ Len(s) \in Nat /\ Len(s) >= 1 /\ s[1] = h
  BY ListFacts, Apart DEF ListInv
<1>2. PICK i \in 1..Len(s) : s[i] = x
  BY <1>1 DEF List!On
<1>3. List!At(h, x) = i
  BY <1>1, <1>2, PlaceIs DEF List!At
<1>4. x \in Entries => i # 1
  BY <1>1, <1>2, AddressAssumption DEF AddressAssumption
<1> QED  BY <1>2, <1>3, <1>4

\* The lists at the start hold their heads only.
LEMMA InitLists == List!Init => ListInv
<1> SUFFICES ASSUME List!Init  PROVE ListInv
  OBVIOUS
<1>1. List!Cells = Cells
  BY DEF List!Cells, Cells
<1>2. /\ m = [next |-> [x \in Cells |-> x], prev |-> [x \in Cells |-> x]]
      /\ rings = [h \in Heads |-> <<h>>] /\ stale = {}
  BY <1>1 DEF List!Init
<1>3. m \in Pointers /\ \A x \in Cells : m.next[x] = x /\ m.prev[x] = x
  BY <1>2 DEF Pointers
<1>4. ASSUME NEW h \in Heads
      PROVE  /\ rings[h] \in Seq(Cells) /\ Len(rings[h]) = 1 /\ rings[h][1] = h
             /\ IsList(rings[h], h) /\ Ring(m, rings[h], 1) /\ Of(rings[h]) = {h}
  <2>1. rings[h] = <<h>> /\ h \in Cells
    BY <1>2 DEF Cells
  <2>2. rings[h] \in Seq(Cells) /\ Len(rings[h]) = 1 /\ rings[h][1] = h
    BY <2>1
  <2>3. \A i \in 1..1 : i = 1 /\ After(i, 1) = 1
    BY DEF After
  <2> QED  BY <1>3, <2>1, <2>2, <2>3 DEF IsList, Distinct, Ring, Of
<1>5. rings \in [Heads -> Seq(Cells)]
  BY <1>2, <1>4
<1> QED  BY <1>2, <1>3, <1>4, <1>5 DEF ListInv, Lists

\* A loose entry goes in behind an entry, or before one.
LEMMA AddStep ==
  ASSUME ListInv, NEW h \in Heads, NEW x \in List!Cells, NEW e \in Entries, List!Add(h, x, e)
  PROVE  ListInv'
<1> DEFINE s == rings[h]
           n == Len(s)
<1>1. /\ h \in Heads \ stale /\ stale' = stale /\ (x = h \/ List!On(h, x)) /\ List!Loose(e)
      /\ \/ m' = List!list_add(m, e, x) /\ rings' = [rings EXCEPT ![h] = List!PutAfter(s, x, e)]
         \/ m' = List!list_add_tail(m, e, x) /\ rings' = [rings EXCEPT ![h] = List!PutBefore(s, x, e)]
  BY DEF List!Add, List!Live, List!Keep
<1>2. Lists(m, rings, stale) /\ Free(rings, e) /\ e \in Cells
  BY <1>1, LooseIsFree DEF ListInv, Cells
<1>3. PICK i \in 1..n : s[i] = x /\ List!Place(s, x) = i
  BY <1>1, OnHasPlace DEF List!At
<1>4. IsList(s, h) /\ Ring(m, s, n) /\ s \in Seq(Cells) /\ n \in Nat /\ n >= 1
      /\ Distinct(s, n)
  BY <1>1, <1>2, Apart, ListFacts
<1>5. /\ m.next[x] = s[After(i, n)] /\ m.prev[x] = s[Before(i, n)]
      /\ Before(i, n) \in 1..n /\ After(Before(i, n), n) = i
  <2>1. After(Before(i, n), n) = i
    BY <1>4 DEF After, Before
  <2>2. m.next[s[i]] = s[After(i, n)] /\ m.prev[s[i]] = s[Before(i, n)] /\ Before(i, n) \in 1..n
    <3>1. n \in Nat /\ i \in 1..n /\ Ring(m, s, n)
      BY <1>3, <1>4
    <3> HIDE DEF s, n
    <3> QED  BY ONLY <3>1, RingFacts
  <2> QED  BY <1>3, <2>1, <2>2
<1>6. CASE m' = List!list_add(m, e, x) /\ rings' = [rings EXCEPT ![h] = List!PutAfter(s, x, e)]
  <2> DEFINE t == List!PutAfter(s, x, e)
  <2>1. t = List!InsertAt(s, i + 1, e) /\ i + 1 \in 1..(Len(s) + 1)
    BY <1>3, <1>4 DEF List!PutAfter
  <2>2. t \in Seq(Cells) /\ Len(t) = Len(s) + 1 /\ Inserted(t, s, Len(s), i + 1, e)
    BY <1>2, <1>4, <2>1, Insertion
  <2>3. m' = List!list_add_between(m, e, s[i], s[After(i, n)])
    BY <1>3, <1>5, <1>6 DEF List!list_add
  <2>4. rings' = [rings EXCEPT ![h] = t]
    BY <1>6
  <2> HIDE DEF t
  <2>5. Lists(m', rings', stale)
    BY <1>1, <1>2, <2>2, <2>3, <2>4, AddList
  <2> QED  BY <1>1, <2>5 DEF ListInv
<1>7. CASE m' = List!list_add_tail(m, e, x) /\ rings' = [rings EXCEPT ![h] = List!PutBefore(s, x, e)]
  <2> DEFINE t == List!PutBefore(s, x, e)
             j == Before(i, n)
  <2>1. t \in Seq(Cells) /\ Len(t) = Len(s) + 1 /\ Inserted(t, s, Len(s), j + 1, e)
    <3>1. CASE i = 1
      <4>1. t = Append(s, e) /\ j + 1 = Len(s) + 1
        BY <1>3, <3>1 DEF List!PutBefore, Before
      <4>2. /\ Append(s, e) \in Seq(Cells) /\ Len(Append(s, e)) = Len(s) + 1
            /\ Inserted(Append(s, e), s, Len(s), Len(s) + 1, e)
        BY <1>2, <1>4, Insertion
      <4> QED  BY <4>1, <4>2
    <3>2. CASE i # 1
      <4>1. s[1] # x
        BY <1>3, <1>4, <3>2 DEF Distinct
      <4>2. t = List!InsertAt(s, i, e) /\ j + 1 = i /\ i \in 1..(Len(s) + 1)
        BY <1>3, <1>4, <3>2, <4>1 DEF List!PutBefore, Before
      <4> QED  BY <1>2, <1>4, <4>2, Insertion
    <3> QED  BY <3>1, <3>2
  <2>2. m' = List!list_add_between(m, e, s[j], s[After(j, n)])
    BY <1>3, <1>5, <1>7 DEF List!list_add_tail
  <2>3. rings' = [rings EXCEPT ![h] = t] /\ j \in 1..Len(s)
    BY <1>5, <1>7
  <2> HIDE DEF t, j
  <2>4. Lists(m', rings', stale)
    BY <1>1, <1>2, <2>1, <2>2, <2>3, AddList
  <2> QED  BY <1>1, <2>4 DEF ListInv
<1> QED  BY <1>1, <1>6, <1>7

\* An entry of a list, and the list without it.
LEMMA WithoutIs ==
  ASSUME ListInv, NEW h \in Heads \ stale, NEW e \in Entries, List!On(h, e)
  PROVE  /\ Lists(List!Unlink(m, e), [rings EXCEPT ![h] = List!Without(@, e)], stale)
         /\ Free([rings EXCEPT ![h] = List!Without(@, e)], e)
<1> DEFINE s == rings[h]
           t == List!Without(s, e)
<1>1. PICK i \in 1..Len(s) : s[i] = e /\ List!Place(s, e) = i /\ i # 1
  BY OnHasPlace DEF List!At
<1>2. s \in Seq(Cells) /\ Len(s) \in Nat /\ Lists(m, rings, stale)
  BY ListFacts, Apart DEF ListInv
<1>3. i \in 2..Len(s)
  BY <1>1, <1>2
<1>4. t \in Seq(Cells) /\ Len(t) = Len(s) - 1 /\ Removed(t, s, Len(s), i)
  BY <1>1, <1>2, Removal DEF List!Without
<1> HIDE DEF t
<1>5. /\ Lists(List!Unlink(m, s[i]), [rings EXCEPT ![h] = t], stale)
      /\ Free([rings EXCEPT ![h] = t], s[i])
  BY <1>2, <1>3, <1>4, DelList
<1> QED  BY <1>1, <1>5 DEF t

\* An entry leaves its list.
LEMMA DelStep ==
  ASSUME ListInv, NEW h \in Heads, NEW e \in Entries, List!Del(h, e)
  PROVE  ListInv'
<1> DEFINE k == List!Unlink(m, e)
<1>1. /\ h \in Heads \ stale /\ List!On(h, e) /\ stale' = stale
      /\ m' = List!list_del(m, e) \/ m' = List!list_del_init(m, e)
      /\ rings' = [rings EXCEPT ![h] = List!Without(@, e)]
  BY DEF List!Del, List!Live, List!Keep
<1>2. Lists(k, rings', stale) /\ Free(rings', e) /\ k \in Pointers
  BY <1>1, WithoutIs DEF Lists
<1> HIDE DEF k
<1>3. m' \in Pointers /\ SameBut(k, m', {e})
  <2>1. CASE m' = List!list_del(m, e)
    <3>1. m' = List!SetPrev(List!SetNext(k, e, NULL), e, NULL)
      BY <2>1 DEF List!list_del, k
    <3> QED  BY <1>2, <3>1 DEF Pointers, SameBut, List!SetNext, List!SetPrev
  <2>2. CASE m' = List!list_del_init(m, e)
    <3>1. m' = List!INIT_LIST_HEAD(k, e) /\ e \in Cells
      BY <2>2 DEF List!list_del_init, k, Cells
    <3>2. m' \in Pointers /\ Looped(k, m', e)
      BY <1>2, <3>1, InitPointers
    <3> QED  BY <3>2 DEF SameBut, Looped
  <2> QED  BY <1>1, <2>1, <2>2
<1>4. Lists(m', rings', stale)
  BY <1>2, <1>3, FreeEntry
<1> QED  BY <1>1, <1>4 DEF ListInv

\* A loose entry takes the place of another.
LEMMA ReplaceStep ==
  ASSUME ListInv, NEW h \in Heads, NEW e \in Entries, NEW new \in Entries, List!Replace(h, e, new)
  PROVE  ListInv'
<1> DEFINE s == rings[h]
           k == List!list_replace(m, e, new)
           i == List!At(h, e)
           t == [s EXCEPT ![i] = new]
<1>1. /\ h \in Heads \ stale /\ List!On(h, e) /\ List!Loose(new) /\ stale' = stale
      /\ m' = k \/ m' = List!list_replace_init(m, e, new)
      /\ rings' = [rings EXCEPT ![h] = t]
  BY DEF List!Replace, List!Live, List!Keep
<1>2. Lists(m, rings, stale) /\ Free(rings, new) /\ new \in Cells
  BY <1>1, LooseIsFree DEF ListInv, Cells
<1>3. s \in Seq(Cells) /\ Len(s) \in Nat
  BY <1>2, ListFacts, Apart
<1>4. s[i] = e /\ i \in 2..Len(s)
  BY <1>1, <1>3, OnHasPlace
<1> HIDE DEF i
<1>5. t \in Seq(Cells) /\ Len(t) = Len(s) /\ Changed(t, s, Len(s), i, new)
  BY <1>2, <1>3, <1>4, ExceptSeq DEF Changed
<1> HIDE DEF t
<1>6. Lists(k, rings', stale) /\ Free(rings', e) /\ k \in Pointers
  <2>1. /\ Lists(List!list_replace(m, s[i], new), [rings EXCEPT ![h] = t], stale)
        /\ Free([rings EXCEPT ![h] = t], s[i])
    BY <1>1, <1>2, <1>4, <1>5, ReplaceList
  <2> QED  BY <1>1, <1>4, <2>1 DEF Lists
<1> HIDE DEF k
<1>7. CASE m' = k
  BY <1>1, <1>6, <1>7 DEF ListInv
<1>8. CASE m' = List!list_replace_init(m, e, new)
  <2>1. m' = List!INIT_LIST_HEAD(k, e) /\ e \in Cells
    BY <1>8 DEF List!list_replace_init, k, Cells
  <2>2. m' \in Pointers /\ Looped(k, m', e)
    BY <1>6, <2>1, InitPointers
  <2>3. SameBut(k, m', {e})
    BY <2>2 DEF SameBut, Looped
  <2>4. Lists(m', rings', stale)
    BY <1>6, <2>2, <2>3, FreeEntry
  <2> QED  BY <1>1, <2>4 DEF ListInv
<1> QED  BY <1>1, <1>7, <1>8

\* A free entry goes in behind the head, or to the end.
LEMMA PutEntry ==
  ASSUME NEW l, NEW R, NEW S, Lists(l, R, S), NEW h \in Heads \ S, NEW e \in Entries, Free(R, e)
  PROVE  /\ Lists(List!list_add(l, e, h), [R EXCEPT ![h] = List!PutAfter(R[h], h, e)], S)
         /\ Lists(List!list_add_tail(l, e, h), [R EXCEPT ![h] = Append(R[h], e)], S)
<1> DEFINE s == R[h]
           n == Len(s)
           t == List!PutAfter(s, h, e)
           u == Append(s, e)
<1>1. /\ IsList(s, h) /\ Ring(l, s, n) /\ s \in Seq(Cells) /\ n \in Nat /\ n >= 1
      /\ s[1] = h /\ e \in Cells
  BY Apart, ListFacts DEF Cells
<1>2. 1 \in 1..n /\ n \in 1..n /\ Before(1, n) = n /\ After(n, n) = 1
  BY <1>1 DEF Before, After
<1>3. l.next[h] = s[After(1, n)] /\ l.prev[h] = s[n]
  <2>1. l.next[s[1]] = s[After(1, n)] /\ l.prev[s[After(n, n)]] = s[n]
    BY <1>1, <1>2 DEF Ring
  <2> QED  BY <1>1, <1>2, <2>1
<1>4. List!Place(s, h) = 1
  <2>1. List!Place(s, s[1]) = 1
    BY <1>1, <1>2, PlaceIs
  <2> QED  BY <1>1, <2>1
<1>5. t \in Seq(Cells) /\ Len(t) = n + 1 /\ Inserted(t, s, n, 1 + 1, e)
  <2>1. t = List!InsertAt(s, 2, e) /\ 2 \in 1..(Len(s) + 1)
    BY <1>1, <1>4 DEF List!PutAfter
  <2> QED  BY <1>1, <2>1, Insertion
<1>6. u \in Seq(Cells) /\ Len(u) = n + 1 /\ Inserted(u, s, n, n + 1, e)
  <2>1. 1 \in 1..(Len(s) + 1)
    BY <1>1
  <2> QED  BY <1>1, <2>1, Insertion
<1> HIDE DEF t, u
<1>7. List!list_add(l, e, h) = List!list_add_between(l, e, s[1], s[After(1, n)])
  BY <1>1, <1>3 DEF List!list_add
<1>8. List!list_add_tail(l, e, h) = List!list_add_between(l, e, s[n], s[After(n, n)])
  BY <1>1, <1>2, <1>3 DEF List!list_add_tail
<1>9. Lists(List!list_add_between(l, e, s[1], s[After(1, n)]), [R EXCEPT ![h] = t], S)
  BY <1>2, <1>5, AddList
<1>10. Lists(List!list_add_between(l, e, s[n], s[After(n, n)]), [R EXCEPT ![h] = u], S)
  BY <1>2, <1>6, AddList
<1> QED  BY <1>7, <1>8, <1>9, <1>10 DEF t, u

\* An entry leaves its list and goes into a list, its own or another.
LEMMA MoveStep ==
  ASSUME ListInv, NEW h \in Heads, NEW g \in Heads, NEW e \in Entries, List!Move(h, e, g)
  PROVE  ListInv'
<1> DEFINE k == List!Unlink(m, e)
           R == [rings EXCEPT ![h] = List!Without(@, e)]
<1>1. /\ h \in Heads \ stale /\ g \in Heads \ stale /\ List!On(h, e) /\ stale' = stale
      /\ \/ m' = List!list_move(m, e, g) /\ rings' = [R EXCEPT ![g] = List!PutAfter(@, g, e)]
         \/ m' = List!list_move_tail(m, e, g) /\ rings' = [R EXCEPT ![g] = Append(@, e)]
  BY DEF List!Move, List!Live, List!Keep
<1>2. Lists(k, R, stale) /\ Free(R, e)
  BY <1>1, WithoutIs
<1>3. List!list_move(m, e, g) = List!list_add(k, e, g)
  BY DEF List!list_move
<1>4. List!list_move_tail(m, e, g) = List!list_add_tail(k, e, g)
  BY DEF List!list_move_tail
<1> HIDE DEF k, R
<1>5. /\ Lists(List!list_add(k, e, g), [R EXCEPT ![g] = List!PutAfter(R[g], g, e)], stale)
      /\ Lists(List!list_add_tail(k, e, g), [R EXCEPT ![g] = Append(R[g], e)], stale)
  BY <1>1, <1>2, PutEntry
<1>6. Lists(m', rings', stale)
  BY <1>1, <1>3, <1>4, <1>5
<1> QED  BY <1>1, <1>6 DEF ListInv

\* An element and a sequence behind it.
LEMMA InFront ==
  ASSUME NEW S, NEW a \in S, NEW b \in Seq(S)
  PROVE  /\ <<a>> \o b \in Seq(S) /\ Len(<<a>> \o b) = Len(b) + 1 /\ (<<a>> \o b)[1] = a
         /\ \A j \in 2..(Len(b) + 1) : (<<a>> \o b)[j] = b[j - 1]
<1> DEFINE f == <<a>>
           t == f \o b
           p == Len(b)
<1>1. f \in Seq(S) /\ Len(f) = 1 /\ f[1] = a
  OBVIOUS
<1>2. p \in Nat
  BY LenProperties
<1> HIDE DEF f
<1>3. /\ t \in Seq(S) /\ Len(t) = Len(f) + p
      /\ \A j \in 1..(Len(f) + p) : t[j] = IF j <= Len(f) THEN f[j] ELSE b[j - Len(f)]
  BY <1>1, ConcatProperties
<1> HIDE DEF t, p
<1>4. t \in Seq(S) /\ Len(t) = p + 1 /\ t[1] = a /\ \A j \in 2..(p + 1) : t[j] = b[j - 1]
  BY <1>1, <1>2, <1>3
<1> QED  BY <1>4 DEF t, f, p

\* The head and what is behind place i.
LEMMA BehindIs ==
  ASSUME NEW s, NEW h, IsList(s, h), NEW i \in 1..Len(s)
  PROVE  /\ <<h>> \o SubSeq(s, i + 1, Len(s)) \in Seq(Cells)
         /\ Len(<<h>> \o SubSeq(s, i + 1, Len(s))) = Len(s) - i + 1
         /\ CutBehind(<<h>> \o SubSeq(s, i + 1, Len(s)), s, Len(s), i)
<1> DEFINE n == Len(s)
           b == SubSeq(s, i + 1, n)
           t == <<h>> \o b
<1>1. s \in Seq(Cells) /\ n \in Nat /\ n >= 1 /\ s[1] = h /\ \A j \in 1..n : s[j] \in Cells
  BY ListFacts
<1>2. h \in Cells
  BY <1>1
<1>3. b \in Seq(Cells) /\ Len(b) = n - i /\ \A j \in 1..(n - i) : b[j] = s[i + j]
  <2>1. \A j \in (i + 1)..n : s[j] \in Cells
    BY <1>1
  <2> QED  BY <1>1, <2>1, SubSeqProperties
<1> HIDE DEF b
<1>4. t \in Seq(Cells) /\ Len(t) = Len(b) + 1 /\ t[1] = h /\ \A j \in 2..(Len(b) + 1) : t[j] = b[j - 1]
  BY <1>2, <1>3, InFront
<1> HIDE DEF t, n
<1>5. Len(t) = n - i + 1
  BY <1>1, <1>3, <1>4
<1>6. ASSUME NEW j \in 1..(n - i + 1)  PROVE t[j] = IF j = 1 THEN s[1] ELSE s[i + j - 1]
  <2>1. CASE j = 1
    BY <1>1, <1>4, <2>1
  <2>2. CASE j # 1
    <3>0. i \in 1..n
      BY DEF n
    <3>1. j \in 2..(Len(b) + 1) /\ j - 1 \in 1..(n - i) /\ i + (j - 1) = i + j - 1
      BY <1>1, <1>3, <2>2, <3>0
    <3>2. t[j] = b[j - 1] /\ b[j - 1] = s[i + (j - 1)]
      BY <1>3, <1>4, <3>1
    <3> QED  BY <2>2, <3>1, <3>2
  <2> QED  BY <2>1, <2>2
<1>7. CutBehind(t, s, n, i)
  BY <1>6 DEF CutBehind
<1> QED  BY <1>4, <1>5, <1>7 DEF t, b, n

\* The first entry becomes the last.
LEMMA RotateStep ==
  ASSUME ListInv, NEW h \in Heads, List!RotateLeft(h)
  PROVE  ListInv'
<1> DEFINE s == rings[h]
           n == Len(s)
           t == <<h>> \o SubSeq(s, 3, n)
<1>1. /\ h \in Heads \ stale /\ stale' = stale /\ m' = List!list_rotate_left(m, h)
      /\ rings' = [rings EXCEPT ![h] = IF n = 1 THEN s ELSE Append(t, s[2])]
  BY DEF List!RotateLeft, List!Live, List!Keep
<1>2. Lists(m, rings, stale) /\ rings \in [Heads -> Seq(Cells)]
  BY DEF ListInv, Lists
<1>3. IsList(s, h) /\ Ring(m, s, n) /\ s \in Seq(Cells) /\ n \in Nat /\ n >= 1
      /\ Distinct(s, n) /\ s[1] = h
  BY <1>1, <1>2, Apart, ListFacts
<1>4. m.next[h] = s[After(1, n)]
  <2>1. 1 \in 1..n
    BY <1>3
  <2>2. m.next[s[1]] = s[After(1, n)]
    BY <1>3, <2>1 DEF Ring
  <2> QED  BY <1>3, <2>2
<1>5. CASE n = 1
  <2>1. m' = m
    BY <1>1, <1>3, <1>4, <1>5 DEF List!list_rotate_left, List!list_empty, After
  <2>2. rings' = rings
    BY <1>1, <1>2, <1>5
  <2> QED  BY <1>1, <1>2, <2>1, <2>2 DEF ListInv
<1>6. CASE n # 1
  <2> DEFINE e == s[2]
             k == List!Unlink(m, e)
             R == [rings EXCEPT ![h] = t]
  <2>1. 2 \in 2..n /\ 2 \in 1..n /\ e \in Entries /\ e # h /\ m.next[h] = e
    <3>0. n \in Nat /\ n >= 2
      <4>1. n \in Nat /\ n >= 1 /\ n # 1
        BY <1>3, <1>6
      <4> HIDE DEF n
      <4> QED  BY ONLY <4>1
    <3>1. 2 \in 2..n /\ 1 \in 1..n /\ 2 \in 1..n /\ After(1, n) = 2
      BY <1>6, <3>0 DEF After
    <3> QED  BY <1>3, <1>4, <3>1 DEF IsList, Distinct
  <2>2. m' = List!list_add_tail(k, e, h)
    BY <1>1, <2>1 DEF List!list_rotate_left, List!list_empty, List!list_move_tail
  <2>3. /\ t \in Seq(Cells) /\ Len(t) = n - 1 /\ Removed(t, s, n, 2)
    <3>1. t \in Seq(Cells) /\ Len(t) = n - 2 + 1 /\ CutBehind(t, s, n, 2)
      <4>1. /\ <<h>> \o SubSeq(s, 2 + 1, Len(s)) \in Seq(Cells)
            /\ Len(<<h>> \o SubSeq(s, 2 + 1, Len(s))) = Len(s) - 2 + 1
            /\ CutBehind(<<h>> \o SubSeq(s, 2 + 1, Len(s)), s, Len(s), 2)
        BY <1>3, <2>1, BehindIs
      <4>2. 2 + 1 = 3
        OBVIOUS
      <4> QED  BY <4>1, <4>2
    <3> HIDE DEF t, s, n
    <3>2. Len(t) = n - 1
      BY <1>3, <3>1
    <3>3. Removed(t, s, n, 2)
      BY <1>3, <3>1 DEF CutBehind, Removed
    <3> QED  BY <3>1, <3>2, <3>3
  <2> HIDE DEF t
  <2>4. /\ Lists(k, R, stale) /\ Free(R, e)
    <3>1. /\ Lists(List!Unlink(m, rings[h][2]), [rings EXCEPT ![h] = t], stale)
          /\ Free([rings EXCEPT ![h] = t], rings[h][2])
      BY <1>1, <1>2, <2>1, <2>3, DelList
    <3> QED  BY <3>1
  <2>5. R[h] = t /\ rings' = [R EXCEPT ![h] = Append(R[h], e)]
    BY <1>1, <1>2, <1>6
  <2> HIDE DEF k, R, e
  <2>6. Lists(List!list_add_tail(k, e, h), [R EXCEPT ![h] = Append(R[h], e)], stale)
    BY <1>1, <2>1, <2>4, PutEntry
  <2> QED  BY <1>1, <2>2, <2>5, <2>6 DEF ListInv
<1> QED  BY <1>5, <1>6

\* A head that is not live is made an empty list.
LEMMA InitHeadStep ==
  ASSUME ListInv, NEW h \in Heads, List!InitHead(h)
  PROVE  ListInv'
<1>1. /\ h \in stale /\ stale' = stale \ {h} /\ m' = List!INIT_LIST_HEAD(m, h) /\ rings' = rings
  BY DEF List!InitHead
<1>2. /\ Lists(m, rings, stale) /\ m \in Pointers /\ stale \subseteq Heads
      /\ rings \in [Heads -> Seq(Cells)] /\ h \in Cells
  BY DEF ListInv, Lists, Cells
<1>3. IsList(rings[h], h) /\ Len(rings[h]) = 1
  BY <1>1, <1>2 DEF Lists
<1>4. rings[h][1] = h /\ Of(rings[h]) = {h}
  BY <1>3, ListFacts DEF Of
<1>5. m' \in Pointers /\ Looped(m, m', h)
  BY <1>1, <1>2, InitPointers
<1>6. SameBut(m, m', {h}) /\ m'.next[h] = h /\ m'.prev[h] = h
  BY <1>2, <1>5 DEF SameBut, Looped
<1>7. Ring(m', rings[h], 1)
  <2>1. \A i \in 1..1 : i = 1 /\ After(i, 1) = 1
    BY DEF After
  <2> QED  BY <1>4, <1>6, <2>1 DEF Ring
<1>8. ASSUME NEW g \in Heads \ {h}, g \notin stale  PROVE Ring(m', rings[g], Len(rings[g]))
  <2>1. IsList(rings[g], g) /\ Ring(m, rings[g], Len(rings[g])) /\ Of(rings[g]) \cap {h} = {}
    BY <1>2, <1>4, <1>8 DEF Lists
  <2> QED  BY <1>6, <2>1, RingKept
<1>9. Lists(m', rings, stale \ {h})
  BY <1>2, <1>3, <1>5, <1>7, <1>8 DEF Lists
<1> QED  BY <1>1, <1>9 DEF ListInv

\* A head alone is a list, and one that points to itself a ring.
LEMMA HeadAlone ==
  ASSUME NEW h \in Heads
  PROVE  /\ IsList(<<h>>, h) /\ Len(<<h>>) = 1 /\ Of(<<h>>) = {h}
         /\ \A l : l.next[h] = h /\ l.prev[h] = h => Ring(l, <<h>>, 1)
<1>1. h \in Cells /\ <<h>> \in Seq(Cells) /\ Len(<<h>>) = 1 /\ <<h>>[1] = h
  BY DEF Cells
<1>2. \A i \in 1..1 : i = 1 /\ After(i, 1) = 1
  BY DEF After
<1>3. IsList(<<h>>, h)
  BY <1>1 DEF IsList, Distinct
<1>4. Of(<<h>>) = {h}
  BY <1>1 DEF Of
<1>5. \A l : l.next[h] = h /\ l.prev[h] = h => Ring(l, <<h>>, 1)
  BY <1>1, <1>2 DEF Ring
<1> QED  BY <1>1, <1>3, <1>4, <1>5

\* The list under another head.
LEMMA NewHead ==
  ASSUME NEW s, NEW h \in Heads, IsList(s, h), NEW g \in Heads, g \notin Of(s)
  PROVE  /\ IsList(<<g>> \o Tail(s), g) /\ Len(<<g>> \o Tail(s)) = Len(s)
         /\ Changed(<<g>> \o Tail(s), s, Len(s), 1, g)
         /\ Of(<<g>> \o Tail(s)) \subseteq (Of(s) \cup {g}) \ {h}
<1> DEFINE n == Len(s)
           b == Tail(s)
           t == <<g>> \o b
<1>1. /\ s \in Seq(Cells) /\ n \in Nat /\ n >= 1 /\ s[1] = h /\ g \in Cells
      /\ \A j \in 1..n : s[j] \in Cells /\ s[j] # g /\ \A o \in 1..n : s[j] = s[o] => j = o
      /\ \A j \in 2..n : s[j] \in Entries
  BY ListFacts DEF Distinct, Of, Cells
<1>2. b \in Seq(Cells) /\ Len(b) = n - 1 /\ \A j \in 1..(n - 1) : b[j] = s[j + 1]
  <2>1. s # <<>>
    BY <1>1
  <2> QED  BY <1>1, <2>1, HeadTailProperties
<1> HIDE DEF b
<1>3. t \in Seq(Cells) /\ Len(t) = Len(b) + 1 /\ t[1] = g /\ \A j \in 2..(Len(b) + 1) : t[j] = b[j - 1]
  BY <1>1, <1>2, InFront
<1>4. Of(s) = {s[j] : j \in 1..n} /\ Of(t) = {t[j] : j \in 1..Len(t)}
  BY DEF Of
<1> HIDE DEF t, n
<1>5. Len(t) = n
  BY <1>1, <1>2, <1>3
<1>6. \A j \in 2..n : t[j] = s[j]
  <2> TAKE j \in 2..n
  <2>1. j \in 2..(Len(b) + 1) /\ j - 1 \in 1..(n - 1) /\ (j - 1) + 1 = j
    BY <1>1, <1>2
  <2> QED  BY <1>2, <1>3, <2>1
<1>7. Changed(t, s, n, 1, g)
  BY <1>1, <1>3, <1>6 DEF Changed
<1>8. \A j \in 1..n : t[j] \in Cells /\ \A o \in 1..n : t[j] = t[o] => j = o
  BY <1>1, <1>7 DEF Changed
<1>9. \A j \in 1..n : t[j] \in (Of(s) \cup {g}) \ {h}
  <2> TAKE j \in 1..n
  <2>1. CASE j = 1
    <3>1. 1 \in 1..n
      BY <1>1
    <3> QED  BY <1>1, <1>3, <2>1, <3>1
  <2>2. CASE j # 1
    <3>1. 1 \in 1..n /\ t[j] = s[j]
      BY <1>1, <1>7, <2>2 DEF Changed
    <3>2. s[j] # h /\ s[j] \in Of(s)
      BY <1>1, <1>4, <2>2, <3>1
    <3> QED  BY <3>1, <3>2
  <2> QED  BY <2>1, <2>2
<1>10. Of(t) \subseteq (Of(s) \cup {g}) \ {h}
  <2> HIDE DEF Of
  <2> QED  BY <1>4, <1>5, <1>9
<1>11. IsList(t, g)
  BY <1>1, <1>3, <1>5, <1>6, <1>8 DEF IsList, Distinct
<1> QED  BY <1>5, <1>7, <1>10, <1>11 DEF t, b, n

\* A new head takes the place of a head, which is stale.
LEMMA ReplaceHeadStep ==
  ASSUME ListInv, NEW h \in Heads, NEW g \in Heads, List!ReplaceHead(h, g)
  PROVE  ListInv'
<1> DEFINE s == rings[h]
           n == Len(s)
           t == <<g>> \o Tail(s)
           k == List!list_replace(m, h, g)
           C == Of(s) \cup {g}
           Z == stale \ {g}
<1>1. /\ h \in Heads \ stale /\ h # g /\ (g \in stale \/ Len(rings[g]) = 1)
      /\ m' = List!list_replace_init(m, h, g)
      /\ rings' = [rings EXCEPT ![g] = t, ![h] = <<h>>]
      /\ stale' = Z
  BY DEF List!ReplaceHead, List!Live
<1>2. /\ Lists(m, rings, stale) /\ m \in Pointers /\ stale \subseteq Heads /\ h \in Cells /\ g \in Cells
  BY DEF ListInv, Lists, Cells
<1>3. Of(rings[g]) = {g}
  <2>1. IsList(rings[g], g) /\ Len(rings[g]) = 1
    BY <1>1, <1>2 DEF Lists
  <2> QED  BY <2>1 DEF IsList, Of
<1>4. /\ IsList(s, h) /\ Ring(m, s, n) /\ n \in Nat /\ n >= 1 /\ s[1] = h
      /\ Distinct(s, n) /\ \A j \in 1..n : s[j] \in Cells /\ s[j] \in Of(s)
  <2>1. IsList(s, h) /\ Ring(m, s, n)
    BY <1>1, <1>2, Apart
  <2> HIDE DEF s
  <2> QED  BY <2>1, ListFacts
<1>5. g \notin Of(s) /\ \A j \in Heads \ {g, h} : Of(rings[j]) \cap C = {}
  <2>1. \A i, j \in Heads : i # j => Of(rings[i]) \cap Of(rings[j]) = {}
    BY <1>2 DEF Lists
  <2>2. Of(s) \cap Of(rings[g]) = {}
    BY <1>1, <2>1
  <2>3. ASSUME NEW j \in Heads \ {g, h}
        PROVE  Of(rings[j]) \cap Of(s) = {} /\ Of(rings[j]) \cap Of(rings[g]) = {}
    BY <2>1
  <2> HIDE DEF s
  <2> QED  BY <1>3, <2>2, <2>3
<1>6. /\ IsList(t, g) /\ Len(t) = n /\ Changed(t, s, n, 1, g) /\ Of(t) \subseteq C \ {h}
  BY <1>4, <1>5, NewHead
<1>61. h \in C
  <2>1. 1 \in 1..n
    BY <1>4
  <2> QED  BY <1>4, <2>1
<1>7. \A j \in 1..n : s[j] \in C /\ s[j] # g
  BY <1>4, <1>5
<1> HIDE DEF t, s, n
<1>8. /\ 1 \in 1..n /\ After(1, n) \in 1..n /\ Before(1, n) = n /\ n \in 1..n
      /\ (n = 1 <=> After(1, n) = 1)
  BY <1>4 DEF After, Before
<1>9. m.next[h] = s[After(1, n)] /\ m.prev[h] = s[n]
  <2>1. After(n, n) = 1
    BY DEF After
  <2>2. m.next[s[1]] = s[After(1, n)] /\ m.prev[s[1]] = s[n]
    BY <1>4, <1>8, <2>1 DEF Ring
  <2> QED  BY <1>4, <2>2
<1>10. /\ m.next[h] \in Cells /\ m.prev[h] \in Cells /\ m.next[h] # g /\ m.prev[h] # g
       /\ (m.next[h] = h <=> n = 1) /\ (m.prev[h] = h <=> n = 1)
  BY <1>4, <1>7, <1>8, <1>9 DEF Distinct
<1>11. /\ k \in Pointers
       /\ m.next[h] # h => Taken(m, k, g, m.prev[h], m.next[h])
       /\ m.next[h] = h => k.next[g] = g /\ k.prev[g] = g /\ SameBut(m, k, {h, g})
  <2>1. g # h /\ (m.next[h] = h <=> m.prev[h] = h)
    BY <1>1, <1>10
  <2> QED  BY ONLY <2>1, <1>2, <1>10, ReplacePointers
<1>12. m' = List!INIT_LIST_HEAD(k, h)
  BY <1>1 DEF List!list_replace_init
<1> HIDE DEF k
<1>13. Ring(k, t, n)
  <2>1. n # 1 => Taken(m, k, g, s[Before(1, n)], s[After(1, n)])
    BY <1>8, <1>9, <1>10, <1>11
  <2>2. n = 1 => k.next[g] = g /\ k.prev[g] = g
    BY <1>10, <1>11
  <2> QED  BY <1>2, <1>4, <1>6, <1>7, <1>8, <2>1, <2>2, ReplaceRing
<1>14. m' \in Pointers /\ Looped(k, m', h)
  BY <1>2, <1>11, <1>12, InitPointers
<1>15. m'.next[h] = h /\ m'.prev[h] = h /\ SameBut(k, m', {h})
  BY <1>2, <1>14 DEF Looped, SameBut
<1>16. SameBut(m, k, C)
  <2>1. CASE n = 1
    BY <1>10, <1>11, <1>61, <2>1 DEF SameBut
  <2>2. CASE n # 1
    <3>1. m.prev[h] \in C /\ m.next[h] \in C
      BY <1>7, <1>8, <1>9
    <3> QED  BY <1>10, <1>11, <2>2, <3>1 DEF Taken, SameBut
  <2> QED  BY <2>1, <2>2
<1>17. SameBut(m, m', C)
  BY <1>15, <1>16, <1>61 DEF SameBut
<1>18. Ring(m', t, Len(t))
  <2>1. Of(t) \cap {h} = {}
    BY <1>6
  <2> QED  BY <1>6, <1>13, <1>15, <2>1, RingKept
<1>19. IsList(<<h>>, h) /\ Len(<<h>>) = 1 /\ Of(<<h>>) = {h} /\ Ring(m', <<h>>, 1)
  BY <1>15, HeadAlone
<1>20. /\ Of(t) \subseteq C /\ Of(<<h>>) \subseteq C /\ Of(t) \cap Of(<<h>>) = {}
       /\ Z \in SUBSET Heads /\ Z \ {g, h} = stale \ {g, h}
       /\ g \notin Z /\ h \notin Z
  <2>1. Of(t) \subseteq C /\ Of(<<h>>) \subseteq C /\ Of(t) \cap Of(<<h>>) = {}
    BY <1>6, <1>19, <1>61
  <2>2. /\ Z \in SUBSET Heads /\ Z \ {g, h} = stale \ {g, h}
        /\ g \notin Z /\ h \notin Z
    BY <1>1, <1>2
  <2> QED  BY <2>1, <2>2
<1> DEFINE u == <<h>>
<1>21. IsList(u, h) /\ Ring(m', u, Len(u)) /\ Of(u) \subseteq C /\ Of(t) \cap Of(u) = {}
       /\ rings' = [rings EXCEPT ![g] = t, ![h] = u]
  BY <1>1, <1>19, <1>20
<1> HIDE DEF C, Z, u
<1>22. Lists(m', rings', Z)
  BY <1>1, <1>2, <1>5, <1>6, <1>14, <1>17, <1>18, <1>20, <1>21, TwoListsChange
<1> QED  BY <1>1, <1>22 DEF ListInv

\* The first places of a list under another head.
LEMMA BeforeIs ==
  ASSUME NEW s, NEW h, IsList(s, h), NEW i \in 1..Len(s), NEW g \in Cells
  PROVE  /\ <<g>> \o SubSeq(s, 2, i) \in Seq(Cells)
         /\ Len(<<g>> \o SubSeq(s, 2, i)) = i
         /\ CutBefore(<<g>> \o SubSeq(s, 2, i), s, i, g)
<1> DEFINE n == Len(s)
           b == SubSeq(s, 2, i)
           t == <<g>> \o b
<1>1. s \in Seq(Cells) /\ n \in Nat /\ n >= 1 /\ \A j \in 1..n : s[j] \in Cells
  BY ListFacts
<1>2. b \in Seq(Cells) /\ Len(b) = i - 1 /\ \A j \in 1..(i - 1) : b[j] = s[2 + j - 1]
  <2>1. \A j \in 2..i : s[j] \in Cells
    BY <1>1
  <2> QED  BY <1>1, <2>1, SubSeqProperties
<1> HIDE DEF b
<1>3. t \in Seq(Cells) /\ Len(t) = Len(b) + 1 /\ t[1] = g /\ \A j \in 2..(Len(b) + 1) : t[j] = b[j - 1]
  BY <1>2, InFront
<1>0. i \in 1..n
  OBVIOUS
<1> HIDE DEF t, n
<1>4. Len(t) = i
  BY <1>0, <1>1, <1>2, <1>3
<1>5. ASSUME NEW j \in 1..i  PROVE t[j] = IF j = 1 THEN g ELSE s[j]
  <2>1. CASE j = 1
    BY <1>3, <2>1
  <2>2. CASE j # 1
    <3>1. j \in 2..(Len(b) + 1) /\ j - 1 \in 1..(i - 1) /\ 2 + (j - 1) - 1 = j
      BY <1>0, <1>1, <1>2, <2>2
    <3>2. t[j] = b[j - 1] /\ b[j - 1] = s[2 + (j - 1) - 1]
      BY <1>2, <1>3, <3>1
    <3> QED  BY <2>2, <3>1, <3>2
  <2> QED  BY <2>1, <2>2
<1>6. CutBefore(t, s, i, g)
  BY <1>5 DEF CutBefore
<1> QED  BY <1>3, <1>4, <1>6 DEF t, b

\* Both parts of a list are lists, with no cell in common.
LEMMA CutLists ==
  ASSUME NEW s, NEW h, IsList(s, h), NEW n, n = Len(s), NEW i \in 1..n, NEW g \in Cells, g \notin Of(s),
         NEW t \in Seq(Cells), Len(t) = i, CutBefore(t, s, i, g),
         NEW u \in Seq(Cells), Len(u) = n - i + 1, CutBehind(u, s, n, i)
  PROVE  /\ IsList(t, g) /\ IsList(u, h) /\ Of(t) \cap Of(u) = {}
         /\ Of(t) \subseteq Of(s) \cup {g} /\ Of(u) \subseteq Of(s) \cup {g}
<1>1. /\ n \in Nat /\ n >= 1 /\ s[1] = h
      /\ \A j \in 1..n : s[j] \in Cells /\ s[j] # g /\ s[j] \in Of(s) /\ \A o \in 1..n : s[j] = s[o] => j = o
      /\ \A j \in 2..n : s[j] \in Entries
  BY ListFacts, SMTT(20) DEF Distinct, Of
<1>2. Of(t) = {t[j] : j \in 1..i} /\ Of(u) = {u[j] : j \in 1..(n - i + 1)}
  BY DEF Of
<1>3. /\ \A j \in 1..i : t[j] = IF j = 1 THEN g ELSE s[j]
      /\ \A j \in 1..(n - i + 1) : u[j] = IF j = 1 THEN s[1] ELSE s[i + j - 1]
  BY DEF CutBefore, CutBehind
<1>4. ASSUME NEW j \in 1..i
      PROVE  /\ t[j] \in Cells /\ (j = 1 => t[j] = g) /\ (j # 1 => t[j] = s[j] /\ t[j] \in Entries)
             /\ \A o \in 1..i : t[j] = t[o] => j = o
             /\ t[j] \in Of(s) \cup {g}
  <2>1. j \in 1..n /\ (j # 1 => j \in 2..n)
    BY <1>1
  <2>2. t[j] = IF j = 1 THEN g ELSE s[j]
    BY <1>3
  <2>3. \A o \in 1..i : t[j] = t[o] => j = o
    <3> TAKE o \in 1..i
    <3>1. o \in 1..n /\ t[o] = IF o = 1 THEN g ELSE s[o]
      BY <1>1, <1>3
    <3> QED  BY <1>1, <2>1, <2>2, <3>1
  <2> QED  BY <1>1, <2>1, <2>2, <2>3
<1> DEFINE Old(x) == IF x = 1 THEN 1 ELSE i + x - 1
<1>5. ASSUME NEW j \in 1..(n - i + 1)
      PROVE  /\ Old(j) \in 1..n /\ u[j] = s[Old(j)] /\ (j # 1 => Old(j) \in 2..n)
             /\ \A o \in 1..i : o # 1 => Old(j) # o
             /\ \A o \in 1..(n - i + 1) : Old(j) = Old(o) => j = o
  <2>1. CASE j = 1
    BY <1>1, <1>3, <2>1
  <2>2. CASE j # 1
    <3>1. i + j - 1 \in 2..n /\ i + j - 1 > i
      BY <1>1, <2>2
    <3> QED  BY <1>1, <1>3, <2>2, <3>1
  <2> QED  BY <2>1, <2>2
<1>6. Old(1) = 1 /\ 1 \in 1..(n - i + 1) /\ 1 \in 1..i
  BY <1>1
<1> HIDE DEF Old
<1>7. ASSUME NEW j \in 1..(n - i + 1)
      PROVE  /\ u[j] \in Cells /\ u[j] \in Of(s) /\ (j # 1 => u[j] \in Entries)
             /\ \A o \in 1..(n - i + 1) : u[j] = u[o] => j = o
             /\ \A o \in 1..i : u[j] # t[o]
  <2>1. u[j] \in Cells /\ u[j] \in Of(s) /\ (j # 1 => u[j] \in Entries)
    BY <1>1, <1>5
  <2>2. \A o \in 1..(n - i + 1) : u[j] = u[o] => j = o
    BY <1>1, <1>5
  <2>3. ASSUME NEW o \in 1..i  PROVE u[j] # t[o]
    <3>1. CASE o = 1
      BY <1>1, <1>4, <1>5, <3>1
    <3>2. CASE o # 1
      <4>1. o \in 1..n /\ t[o] = s[o] /\ Old(j) # o
        BY <1>1, <1>4, <1>5, <3>2
      <4>2. Old(j) \in 1..n /\ u[j] = s[Old(j)]
        BY <1>5
      <4> QED  BY <1>1, <4>1, <4>2
    <3> QED  BY <3>1, <3>2
  <2> QED  BY <2>1, <2>2, <2>3
<1>8. IsList(t, g)
  <2>1. \A j \in 2..i : j \in 1..i /\ j # 1
    BY <1>1
  <2> QED  BY <1>1, <1>4, <1>6, <2>1 DEF IsList, Distinct
<1>9. IsList(u, h)
  <2>1. \A j \in 2..(n - i + 1) : j \in 1..(n - i + 1) /\ j # 1
    BY <1>1
  <2>2. u[1] = h
    BY <1>1, <1>5, <1>6
  <2> QED  BY <1>1, <1>6, <1>7, <2>1, <2>2 DEF IsList, Distinct
<1>10. Of(t) \cap Of(u) = {} /\ Of(t) \subseteq Of(s) \cup {g} /\ Of(u) \subseteq Of(s) \cup {g}
  <2> HIDE DEF Of
  <2> QED  BY <1>2, <1>4, <1>7
<1> QED  BY <1>8, <1>9, <1>10

\* The entries up to one go from a list to another head.
LEMMA CutPositionStep ==
  ASSUME ListInv, NEW g \in Heads, NEW h \in Heads, NEW x \in List!Cells, List!CutPosition(g, h, x)
  PROVE  ListInv'
<1> DEFINE s == rings[h]
           n == Len(s)
           i == List!At(h, x)
           t == <<g>> \o SubSeq(s, 2, i)
           u == <<h>> \o SubSeq(s, i + 1, n)
           C == Of(s) \cup {g}
           Z == stale \ {g}
<1>1. /\ h \in Heads \ stale /\ h # g /\ (g \in stale \/ Len(rings[g]) = 1)
      /\ (x = h \/ List!On(h, x)) /\ n > 1
      /\ m' = List!list_cut_position(m, g, h, x)
      /\ stale' = Z
  BY DEF List!CutPosition, List!Live
<1>2. /\ Lists(m, rings, stale) /\ m \in Pointers /\ stale \subseteq Heads /\ h \in Cells /\ g \in Cells
      /\ rings \in [Heads -> Seq(Cells)]
  BY DEF ListInv, Lists, Cells
<1>3. rings' = [rings EXCEPT ![g] = t, ![h] = u]
  BY <1>1, <1>2 DEF List!CutPosition
<1>4. /\ IsList(s, h) /\ Ring(m, s, n) /\ n \in Nat /\ n >= 1 /\ s[1] = h
      /\ Distinct(s, n) /\ \A j \in 1..n : s[j] \in Cells /\ s[j] \in Of(s)
  <2>1. IsList(s, h) /\ Ring(m, s, n)
    BY <1>1, <1>2, Apart
  <2> HIDE DEF s
  <2> QED  BY <2>1, ListFacts
<1>5. i \in 1..n /\ s[i] = x
  BY <1>1, OnHasPlace
<1>6. Of(rings[g]) = {g}
  <2>1. IsList(rings[g], g) /\ Len(rings[g]) = 1
    BY <1>1, <1>2 DEF Lists
  <2> QED  BY <2>1 DEF IsList, Of
<1>7. g \notin Of(s) /\ \A j \in Heads \ {g, h} : Of(rings[j]) \cap C = {}
  <2>1. \A o, j \in Heads : o # j => Of(rings[o]) \cap Of(rings[j]) = {}
    BY <1>2 DEF Lists
  <2>2. Of(s) \cap Of(rings[g]) = {}
    BY <1>1, <2>1
  <2>3. ASSUME NEW j \in Heads \ {g, h}
        PROVE  Of(rings[j]) \cap Of(s) = {} /\ Of(rings[j]) \cap Of(rings[g]) = {}
    BY <2>1
  <2> HIDE DEF s
  <2> QED  BY <1>6, <2>2, <2>3
<1> HIDE DEF i
<1>8. t \in Seq(Cells) /\ Len(t) = i /\ CutBefore(t, s, i, g)
  BY <1>2, <1>4, <1>5, BeforeIs
<1>9. u \in Seq(Cells) /\ Len(u) = n - i + 1 /\ CutBehind(u, s, n, i)
  BY <1>4, <1>5, BehindIs
<1> HIDE DEF t, u, s, n
<1>10. /\ IsList(t, g) /\ IsList(u, h) /\ Of(t) \cap Of(u) = {} /\ Of(t) \subseteq C /\ Of(u) \subseteq C
  <2>1. n = Len(s)
    BY DEF n
  <2>2. IsList(s, h) /\ i \in 1..n /\ g \in Cells /\ g \notin Of(s)
    BY <1>2, <1>4, <1>5, <1>7
  <2>3. /\ IsList(t, g) /\ IsList(u, h) /\ Of(t) \cap Of(u) = {}
        /\ Of(t) \subseteq Of(s) \cup {g} /\ Of(u) \subseteq Of(s) \cup {g}
    BY ONLY <1>8, <1>9, <2>1, <2>2, CutLists
  <2> QED  BY <2>3
<1>11. /\ 1 \in 1..n /\ 2 \in 1..n /\ After(1, n) = 2 /\ After(i, n) \in 1..n
       /\ (i # 1 => After(i, n) # 2 /\ i \in 2..n) /\ After(n, n) = 1 /\ n \in 1..n
  BY <1>1, <1>4, <1>5 DEF After
<1>12. m.next[h] = s[2] /\ m.prev[h] = s[n] /\ m.next[x] = s[After(i, n)]
  <2>1. m.next[s[1]] = s[2] /\ m.prev[s[1]] = s[n] /\ m.next[s[i]] = s[After(i, n)]
    BY <1>5, <1>11, <1>4 DEF Ring
  <2> QED  BY <1>4, <1>5, <2>1
<1>13. /\ s[2] # h /\ s[2] # g /\ s[2] \in Cells /\ s[2] \in C
       /\ (n # 2 => s[2] # s[n]) /\ (n = 2 => x = h \/ x = s[2])
  BY <1>1, <1>4, <1>5, <1>7, <1>11 DEF Distinct
<1>14. List!list_empty(m, h) = FALSE
  BY <1>12, <1>13 DEF List!list_empty
<1>15. ~ (List!list_is_singular(m, h) /\ m.next[h] # x /\ h # x)
  BY <1>12, <1>13 DEF List!list_is_singular
<1>16. Z \in SUBSET Heads /\ Z \ {g, h} = stale \ {g, h} /\ g \notin Z /\ h \notin Z
  BY <1>1, <1>2
<1>17. CASE i = 1
  <2>1. x = h
    BY <1>4, <1>5, <1>17
  <2>2. m' = List!INIT_LIST_HEAD(m, g)
    BY <1>1, <1>14, <1>15, <2>1 DEF List!list_cut_position
  <2>3. m' \in Pointers /\ Looped(m, m', g)
    BY <1>2, <2>2, InitPointers
  <2>4. m'.next[g] = g /\ m'.prev[g] = g /\ SameBut(m, m', {g}) /\ SameBut(m, m', C)
    BY <1>2, <2>3 DEF Looped, SameBut
  <2>5. Ring(m', s, n)
    <3>1. Of(s) \cap {g} = {}
      BY <1>7
    <3>2. Ring(m, s, Len(s))
      BY <1>4 DEF n
    <3>3. Ring(m', s, Len(s))
      BY <1>4, <2>4, <3>1, <3>2, RingKept
    <3> QED  BY <3>3 DEF n
  <2>6. \A j \in 1..n : u[j] = s[j]
    BY <1>4, <1>9, <1>17 DEF CutBehind
  <2>7. Ring(m', u, n) /\ n = n - i + 1
    BY <1>4, <1>17, <2>5, <2>6 DEF Ring, After
  <2>8. Ring(m', t, i)
    <3>1. t[1] = g /\ \A j \in 1..1 : j = 1 /\ After(j, 1) = 1
      BY <1>8, <1>17 DEF CutBefore, After
    <3> QED  BY <1>17, <2>4, <3>1 DEF Ring
  <2>9. Ring(m', t, Len(t)) /\ Ring(m', u, Len(u))
    BY <1>8, <1>9, <2>7, <2>8
  <2> HIDE DEF C, Z
  <2>11. m' \in Pointers /\ SameBut(m, m', C)
    BY <2>3, <2>4
  <2>10. Lists(m', rings', Z)
    BY <1>1, <1>2, <1>3, <1>7, <1>10, <1>16, <2>9, <2>11, TwoListsChange
  <2> QED  BY <1>1, <2>10 DEF ListInv
<1>18. CASE i # 1
  <2>1. x # h /\ x # g /\ x \in Cells /\ x \in C
    BY <1>4, <1>5, <1>7, <1>11, <1>18 DEF Distinct
  <2>2. m' = List!cut(m, g, h, x)
    BY <1>1, <1>14, <1>15, <2>1 DEF List!list_cut_position
  <2>3. /\ m.next[x] \in Cells /\ m.next[x] # m.next[h] /\ m.next[x] # g /\ m.next[x] \in C
        /\ m.next[h] \in Cells /\ m.next[h] # g /\ m.next[h] # h
    BY <1>4, <1>7, <1>11, <1>12, <1>13, <1>18 DEF Distinct
  <2>4. m' \in Pointers /\ Parted(m, m', g, m.next[h], x, h, m.next[x])
    <3>1. g # h /\ g # x /\ h # x
      BY <1>1, <2>1
    <3> QED  BY <1>2, <2>1, <2>2, <2>3, <3>1, CutPointers
  <2>5. Parted(m, m', g, s[2], s[i], s[1], s[After(i, n)])
    BY <1>4, <1>5, <1>12, <2>4
  <2>6. i \in 2..n /\ \A j \in 1..n : s[j] # g
    BY <1>4, <1>7, <1>11, <1>18
  <2>7. Ring(m', t, i) /\ Ring(m', u, n - i + 1)
    BY <1>2, <1>4, <1>8, <1>9, <2>5, <2>6, CutRing
  <2>8. Ring(m', t, Len(t)) /\ Ring(m', u, Len(u))
    BY <1>8, <1>9, <2>7
  <2>9. h \in C
    BY <1>4, <1>11
  <2>10. SameBut(m, m', C)
    BY <1>12, <1>13, <2>1, <2>3, <2>4, <2>9 DEF Parted, SameBut
  <2> HIDE DEF C, Z
  <2>11. Lists(m', rings', Z)
    BY <1>1, <1>2, <1>3, <1>7, <1>10, <1>16, <2>4, <2>8, <2>10, TwoListsChange
  <2> QED  BY <1>1, <2>11 DEF ListInv
<1> QED  BY <1>17, <1>18

\* The entries of r behind the head of s, or at its end.
LEMMA SplicedIs ==
  ASSUME NEW s, NEW h, IsList(s, h), NEW r, NEW g, IsList(r, g)
  PROVE  /\ LET t == <<h>> \o Tail(r) \o Tail(s)
            IN  t \in Seq(Cells) /\ Len(t) = Len(s) + Len(r) - 1 /\ Spliced(t, s, Len(s), 1, r, Len(r))
         /\ LET t == s \o Tail(r)
            IN  /\ t \in Seq(Cells) /\ Len(t) = Len(s) + Len(r) - 1
                /\ Spliced(t, s, Len(s), Len(s), r, Len(r))
         /\ Tail(r) = <<>> <=> Len(r) = 1
<1> DEFINE n == Len(s)
           p == Len(r)
           a == Tail(s)
           b == Tail(r)
           f == <<h>> \o b
           t == f \o a
           u == s \o b
<1>1. s \in Seq(Cells) /\ n \in Nat /\ n >= 1 /\ s[1] = h /\ h \in Cells /\ \A j \in 1..n : s[j] \in Cells
  <2>1. s \in Seq(Cells) /\ n \in Nat /\ n >= 1 /\ s[1] = h /\ \A j \in 1..n : s[j] \in Cells
    BY ListFacts
  <2>2. 1 \in 1..n
    BY <2>1
  <2> QED  BY <2>1, <2>2
<1>2. r \in Seq(Cells) /\ p \in Nat /\ p >= 1
  BY ListFacts
<1>3. a \in Seq(Cells) /\ Len(a) = n - 1 /\ \A j \in 1..(n - 1) : a[j] = s[j + 1]
  <2>1. s # <<>>
    BY <1>1
  <2> QED  BY <1>1, <2>1, HeadTailProperties
<1>4. b \in Seq(Cells) /\ Len(b) = p - 1 /\ \A j \in 1..(p - 1) : b[j] = r[j + 1]
  <2>1. r # <<>>
    BY <1>2
  <2> QED  BY <1>2, <2>1, HeadTailProperties
<1> HIDE DEF a, b
<1>5. f \in Seq(Cells) /\ Len(f) = Len(b) + 1 /\ f[1] = h /\ \A j \in 2..(Len(b) + 1) : f[j] = b[j - 1]
  BY <1>1, <1>4, InFront
<1> HIDE DEF f, p
<1>6. f \in Seq(Cells) /\ Len(f) = p
  BY <1>2, <1>4, <1>5
<1>7. \A j \in 2..p : f[j] = r[j]
  <2> TAKE j \in 2..p
  <2>1. j \in 2..(Len(b) + 1) /\ j - 1 \in 1..(p - 1) /\ (j - 1) + 1 = j
    BY <1>2, <1>4
  <2> QED  BY <1>4, <1>5, <2>1
<1>8. t \in Seq(Cells) /\ Len(t) = p + (n - 1)
      /\ \A j \in 1..(p + (n - 1)) : t[j] = IF j <= p THEN f[j] ELSE a[j - p]
  <2>1. /\ t \in Seq(Cells) /\ Len(t) = Len(f) + Len(a)
        /\ \A j \in 1..(Len(f) + Len(a)) : t[j] = IF j <= Len(f) THEN f[j] ELSE a[j - Len(f)]
    BY <1>3, <1>6, ConcatProperties
  <2> HIDE DEF t, n
  <2> QED  BY <2>1, <1>3, <1>6
<1>9. u \in Seq(Cells) /\ Len(u) = n + (p - 1)
      /\ \A j \in 1..(n + (p - 1)) : u[j] = IF j <= n THEN s[j] ELSE b[j - n]
  <2>1. /\ u \in Seq(Cells) /\ Len(u) = Len(s) + Len(b)
        /\ \A j \in 1..(Len(s) + Len(b)) : u[j] = IF j <= Len(s) THEN s[j] ELSE b[j - Len(s)]
    BY <1>1, <1>4, ConcatProperties
  <2>2. Len(s) = n
    OBVIOUS
  <2> HIDE DEF u, n
  <2> QED  BY <2>1, <2>2, <1>4
<1>10. b = <<>> <=> p = 1
  <2>1. b = <<>> <=> Len(b) = 0
    BY <1>4, EmptySeq
  <2> QED  BY <1>2, <1>4, <2>1
<1> HIDE DEF t, u, n
<1>11. ASSUME NEW j \in 1..(n + p - 1)
       PROVE  t[j] = IF j <= 1 THEN s[j] ELSE IF j <= 1 + p - 1 THEN r[j - 1 + 1] ELSE s[j - p + 1]
  <2>0. j \in 1..(p + (n - 1))
    BY <1>1, <1>2
  <2>1. CASE j = 1
    BY <1>1, <1>2, <1>5, <1>8, <2>0, <2>1
  <2>2. CASE j # 1 /\ j <= p
    <3>1. j \in 2..p /\ j - 1 + 1 = j /\ ~ (j <= 1) /\ j <= 1 + p - 1
      BY <1>1, <1>2, <2>2
    <3> QED  BY <1>7, <1>8, <2>0, <2>2, <3>1
  <2>3. CASE ~ (j <= p)
    <3>1. j - p \in 1..(n - 1) /\ (j - p) + 1 = j - p + 1 /\ ~ (j <= 1) /\ ~ (j <= 1 + p - 1)
      BY <1>1, <1>2, <2>3
    <3> QED  BY <1>3, <1>8, <2>0, <2>3, <3>1
  <2> QED  BY <2>1, <2>2, <2>3
<1>12. ASSUME NEW j \in 1..(n + p - 1)
       PROVE  u[j] = IF j <= n THEN s[j] ELSE IF j <= n + p - 1 THEN r[j - n + 1] ELSE s[j - p + 1]
  <2>0. j \in 1..(n + (p - 1))
    BY <1>1, <1>2
  <2>1. CASE j <= n
    BY <1>9, <2>0, <2>1
  <2>2. CASE ~ (j <= n)
    <3>1. j - n \in 1..(p - 1) /\ (j - n) + 1 = j - n + 1 /\ j <= n + p - 1
      BY <1>1, <1>2, <2>2
    <3> QED  BY <1>4, <1>9, <2>0, <2>2, <3>1
  <2> QED  BY <2>1, <2>2
<1>13. /\ t \in Seq(Cells) /\ Len(t) = n + p - 1 /\ Spliced(t, s, n, 1, r, p)
  <2>1. Spliced(t, s, n, 1, r, p)
    BY <1>11 DEF Spliced
  <2> QED  BY <1>1, <1>2, <1>8, <2>1
<1>14. /\ u \in Seq(Cells) /\ Len(u) = n + p - 1 /\ Spliced(u, s, n, n, r, p)
  <2>1. Spliced(u, s, n, n, r, p)
    BY <1>12 DEF Spliced
  <2> QED  BY <1>1, <1>2, <1>9, <2>1
<1> QED  BY <1>10, <1>13, <1>14 DEF t, u, f, a, b, n, p

\* Two lists in one, without the head of the second.
LEMMA SplicedList ==
  ASSUME NEW s, NEW h, IsList(s, h), NEW r, NEW g, IsList(r, g), Of(s) \cap Of(r) = {},
         NEW n, n = Len(s), NEW p, p = Len(r), NEW i \in 1..n,
         NEW t \in Seq(Cells), Len(t) = n + p - 1, Spliced(t, s, n, i, r, p)
  PROVE  IsList(t, h) /\ Of(t) \subseteq (Of(s) \cup Of(r)) \ {g}
<1>1. /\ n \in Nat /\ n >= 1 /\ s[1] = h
      /\ \A j \in 1..n : s[j] \in Cells /\ s[j] \in Of(s) /\ \A o \in 1..n : s[j] = s[o] => j = o
      /\ \A j \in 2..n : s[j] \in Entries
  BY ListFacts DEF Distinct
<1>2. /\ p \in Nat /\ p >= 1 /\ r[1] = g
      /\ \A j \in 1..p : r[j] \in Cells /\ r[j] \in Of(r) /\ \A o \in 1..p : r[j] = r[o] => j = o
      /\ \A j \in 2..p : r[j] \in Entries
  BY ListFacts DEF Distinct
<1>3. /\ \A j \in 1..n : \A o \in 1..p : s[j] # r[o]
      /\ \A o \in 2..p : r[o] # g
      /\ g \in Of(r)
  <2>1. 1 \in 1..p /\ \A o \in 2..p : o \in 1..p /\ o # 1
    BY <1>2
  <2>2. \A j \in 1..n : \A o \in 1..p : s[j] # r[o]
    BY <1>1, <1>2
  <2> QED  BY <1>2, <2>1, <2>2
<1> DEFINE w == n + p - 1
           InS(j) == j <= i \/ j > i + p - 1
           FromS(j) == IF j <= i THEN j ELSE j - p + 1
           FromR(j) == j - i + 1
<1>4. ASSUME NEW j \in 1..w
      PROVE  /\ InS(j) => /\ FromS(j) \in 1..n /\ t[j] = s[FromS(j)] /\ (j # 1 => FromS(j) \in 2..n)
             /\ ~ InS(j) => FromR(j) \in 2..p /\ FromR(j) \in 1..p /\ t[j] = r[FromR(j)] /\ j # 1
             /\ \A o \in 1..w : /\ InS(j) /\ InS(o) /\ FromS(j) = FromS(o) => j = o
                                /\ ~ InS(j) /\ ~ InS(o) /\ FromR(j) = FromR(o) => j = o
  <2>0. i \in 1..n /\ n \in Nat /\ p \in Nat /\ n >= 1 /\ p >= 1
    BY <1>1, <1>2
  <2>1. t[j] = IF j <= i THEN s[j] ELSE IF j <= i + p - 1 THEN r[j - i + 1] ELSE s[j - p + 1]
    BY DEF Spliced
  <2>2. InS(j) => FromS(j) \in 1..n /\ t[j] = s[FromS(j)] /\ (j # 1 => FromS(j) \in 2..n)
    BY <2>0, <2>1
  <2>3. ~ InS(j) => FromR(j) \in 2..p /\ FromR(j) \in 1..p /\ t[j] = r[FromR(j)] /\ j # 1
    BY <2>0, <2>1
  <2>4. \A o \in 1..w : /\ InS(j) /\ InS(o) /\ FromS(j) = FromS(o) => j = o
                        /\ ~ InS(j) /\ ~ InS(o) /\ FromR(j) = FromR(o) => j = o
    BY <2>0
  <2> QED  BY <2>2, <2>3, <2>4
<1>5. w \in Nat /\ w >= 1 /\ 1 \in 1..w /\ InS(1) /\ FromS(1) = 1 /\ \A j \in 2..w : j \in 1..w /\ j # 1
  BY <1>1, <1>2
<1>6. Of(t) = {t[j] : j \in 1..w}
  BY DEF Of
<1>7. Len(t) = w
  OBVIOUS
<1> HIDE DEF w, InS, FromS, FromR
<1>8. ASSUME NEW j \in 1..w
      PROVE  /\ t[j] \in Cells /\ (j # 1 => t[j] \in Entries) /\ t[j] \in (Of(s) \cup Of(r)) \ {g}
             /\ \A o \in 1..w : t[j] = t[o] => j = o
  <2>1. CASE InS(j)
    <3>1. FromS(j) \in 1..n /\ t[j] = s[FromS(j)] /\ (j # 1 => FromS(j) \in 2..n)
      BY <1>4, <2>1
    <3>2. t[j] \in Cells /\ (j # 1 => t[j] \in Entries) /\ t[j] \in Of(s)
      BY <1>1, <3>1
    <3>3. t[j] # g
      BY <1>3, <3>2
    <3>4. ASSUME NEW o \in 1..w, t[j] = t[o]  PROVE j = o
      <4>1. CASE InS(o)
        <5>1. FromS(o) \in 1..n /\ t[o] = s[FromS(o)]
          BY <1>4, <4>1
        <5>2. FromS(j) = FromS(o)
          BY <1>1, <3>1, <3>4, <5>1
        <5> QED  BY <1>4, <2>1, <4>1, <5>2
      <4>2. CASE ~ InS(o)
        <5>1. FromR(o) \in 1..p /\ t[o] = r[FromR(o)]
          BY <1>4, <4>2
        <5> QED  BY <1>3, <3>1, <3>4, <5>1
      <4> QED  BY <4>1, <4>2
    <3> QED  BY <3>2, <3>3, <3>4
  <2>2. CASE ~ InS(j)
    <3>1. FromR(j) \in 2..p /\ FromR(j) \in 1..p /\ t[j] = r[FromR(j)]
      BY <1>4, <2>2
    <3>2. t[j] \in Cells /\ t[j] \in Entries /\ t[j] \in Of(r) /\ t[j] # g
      BY <1>2, <1>3, <3>1
    <3>4. ASSUME NEW o \in 1..w, t[j] = t[o]  PROVE j = o
      <4>1. CASE InS(o)
        <5>1. FromS(o) \in 1..n /\ t[o] = s[FromS(o)]
          BY <1>4, <4>1
        <5> QED  BY <1>3, <3>1, <3>4, <5>1
      <4>2. CASE ~ InS(o)
        <5>1. FromR(o) \in 1..p /\ t[o] = r[FromR(o)]
          BY <1>4, <4>2
        <5>2. FromR(j) = FromR(o)
          BY <1>2, <3>1, <3>4, <5>1
        <5> QED  BY <1>4, <2>2, <4>2, <5>2
      <4> QED  BY <4>1, <4>2
    <3> QED  BY <3>2, <3>4
  <2> QED  BY <2>1, <2>2
<1>9. t[1] = h
  BY <1>1, <1>4, <1>5
<1>10. IsList(t, h)
  BY <1>5, <1>7, <1>8, <1>9 DEF IsList, Distinct
<1>11. Of(t) \subseteq (Of(s) \cup Of(r)) \ {g}
  <2> HIDE DEF Of
  <2> QED  BY <1>6, <1>8
<1> QED  BY <1>10, <1>11

\* What a head points to.
LEMMA EndsOfRing ==
  ASSUME NEW l, NEW s, NEW h, IsList(s, h), Ring(l, s, Len(s))
  PROVE  /\ l.next[h] = s[After(1, Len(s))] /\ l.prev[h] = s[Len(s)] /\ s[1] = h
         /\ l.next[h] = h <=> Len(s) = 1
         /\ l.prev[h] = h <=> Len(s) = 1
         /\ l.next[h] = l.prev[h] <=> Len(s) = 1 \/ Len(s) = 2
         /\ After(Len(s), Len(s)) = 1
<1> DEFINE n == Len(s)
<1>1. n \in Nat /\ n >= 1 /\ s[1] = h /\ Distinct(s, n) /\ Ring(l, s, n)
  BY ListFacts
<1> HIDE DEF n
<1>2. /\ 1 \in 1..n /\ n \in 1..n /\ After(n, n) = 1 /\ After(1, n) \in 1..n
      /\ (n = 1 <=> After(1, n) = 1) /\ (After(1, n) = n <=> n = 1 \/ n = 2)
  BY <1>1 DEF After
<1>3. l.next[h] = s[After(1, n)] /\ l.prev[h] = s[n]
  <2>1. l.next[s[1]] = s[After(1, n)] /\ l.prev[s[After(n, n)]] = s[n]
    BY <1>1, <1>2 DEF Ring
  <2> QED  BY <1>1, <1>2, <2>1
<1>4. /\ s[After(1, n)] = s[1] <=> n = 1
      /\ s[n] = s[1] <=> n = 1
      /\ s[After(1, n)] = s[n] <=> n = 1 \/ n = 2
  BY <1>1, <1>2 DEF Distinct
<1> QED  BY <1>1, <1>2, <1>3, <1>4 DEF n

\* The entries of g go into the list of h behind place i.  g is left out of use,
\* or initialised again.
LEMMA SpliceOnce ==
  ASSUME ListInv, NEW g \in Heads \ stale, NEW h \in Heads \ stale, g # h,
         NEW n, n = Len(rings[h]), NEW p, p = Len(rings[g]), NEW i \in 1..n,
         NEW t \in Seq(Cells), Len(t) = n + p - 1, Spliced(t, rings[h], n, i, rings[g], p),
         NEW k, p = 1 => k = m,
         p # 1 => k = List!splice(m, g, rings[h][i], rings[h][After(i, n)]),
         NEW T, T = [rings EXCEPT ![h] = t, ![g] = <<g>>]
  PROVE  /\ p = 1 => Lists(k, T, stale)
         /\ p # 1 => Lists(k, T, stale \cup {g})
         /\ p # 1 => Lists(List!INIT_LIST_HEAD(k, g), T, stale)
<1> DEFINE s == rings[h]
           r == rings[g]
           C == Of(s) \cup Of(r)
           u == <<g>>
<1>1. /\ Lists(m, rings, stale) /\ m \in Pointers /\ stale \in SUBSET Heads /\ h \in Cells /\ g \in Cells
      /\ \A o, j \in Heads : o # j => Of(rings[o]) \cap Of(rings[j]) = {}
  BY DEF ListInv, Lists, Cells
<1>2. IsList(s, h) /\ Ring(m, s, n) /\ IsList(r, g) /\ Ring(m, r, p)
  BY <1>1, Apart
<1>3. /\ Of(s) \cap Of(r) = {}
      /\ \A j \in Heads \ {h, g} : Of(rings[j]) \cap C = {}
  <2>1. Of(s) \cap Of(r) = {}
    BY <1>1
  <2>2. ASSUME NEW j \in Heads \ {g, h}  PROVE Of(rings[j]) \cap Of(s) = {} /\ Of(rings[j]) \cap Of(r) = {}
    BY <1>1
  <2> HIDE DEF s, r
  <2> QED  BY <2>1, <2>2
<1>4. n = Len(s) /\ p = Len(r) /\ Len(t) = n + p - 1 /\ Spliced(t, s, n, i, r, p)
  OBVIOUS
<1>5. (p = 1 => k = m) /\ (p # 1 => k = List!splice(m, g, s[i], s[After(i, n)]))
  OBVIOUS
<1> HIDE DEF s, r
<1>6. /\ n \in Nat /\ n >= 1 /\ s[1] = h /\ Distinct(s, n)
      /\ \A j \in 1..n : s[j] \in Cells /\ s[j] \in Of(s)
  BY <1>2, <1>4, ListFacts
<1>7. /\ p \in Nat /\ p >= 1 /\ r[1] = g /\ Distinct(r, p)
      /\ \A j \in 1..p : r[j] \in Cells /\ r[j] \in Of(r)
  BY <1>2, <1>4, ListFacts
<1>8. IsList(t, h) /\ Of(t) \subseteq C \ {g}
  BY <1>2, <1>3, <1>4, SplicedList
<1>9. \A j \in 1..n : \A o \in 1..p : s[j] # r[o]
  BY <1>3, <1>6, <1>7
<1>10. /\ 1 \in 1..n /\ n \in 1..n /\ After(1, n) \in 1..n /\ After(n, n) = 1 /\ After(i, n) \in 1..n
  <2>1. n \in Nat /\ n >= 1 /\ i \in 1..n
    BY <1>6
  <2> QED  BY ONLY <2>1 DEF After
<1>11. 1 \in 1..p /\ p \in 1..p /\ After(p, p) = 1 /\ (p = 1 => After(1, p) = 1)
       /\ (p # 1 => After(1, p) = 2 /\ 2 \in 1..p /\ p >= 2)
  <2>1. p \in Nat /\ p >= 1
    BY <1>7
  <2> QED  BY ONLY <2>1 DEF After
<1>12. m.next[g] = r[After(1, p)] /\ m.prev[g] = r[p]
  <2>1. m.next[r[1]] = r[After(1, p)] /\ m.prev[r[1]] = r[p]
    BY <1>2, <1>11 DEF Ring
  <2> QED  BY <1>7, <2>1
<1>13. m.next[g] = g <=> p = 1
  BY <1>7, <1>11, <1>12 DEF Distinct
<1>15. IsList(u, g) /\ Len(u) = 1 /\ Of(u) = {g} /\ g \in C
  BY <1>7, <1>11, HeadAlone
<1>16. Of(t) \subseteq C /\ Of(u) \subseteq C /\ Of(t) \cap Of(u) = {}
  BY <1>8, <1>15
<1>17. k \in Pointers /\ Ring(k, t, n + p - 1) /\ SameBut(m, k, C)
  <2>1. CASE p = 1
    <3>1. k = m /\ n + p - 1 = n
      BY <1>5, <1>6, <2>1
    <3>2. ASSUME NEW j \in 1..n  PROVE t[j] = s[j]
      <4>1. t[j] = IF j <= i THEN s[j] ELSE IF j <= i + p - 1 THEN r[j - i + 1] ELSE s[j - p + 1]
        BY <1>4, <3>1 DEF Spliced
      <4> QED  BY <1>6, <2>1, <4>1
    <3>3. \A j \in 1..n : After(j, n) \in 1..n
      BY <1>6 DEF After
    <3>4. Ring(k, t, n)
      <4>1. Ring(m, t, n)
        <5> SUFFICES ASSUME NEW j \in 1..n
                     PROVE  m.next[t[j]] = t[After(j, n)] /\ m.prev[t[After(j, n)]] = t[j]
          BY DEF Ring
        <5>1. t[j] = s[j] /\ t[After(j, n)] = s[After(j, n)]
          BY <3>2, <3>3
        <5> QED  BY <1>2, <5>1 DEF Ring
      <4> QED  BY <3>1, <4>1
    <3>5. SameBut(m, k, C)
      BY <3>1 DEF SameBut
    <3> QED  BY <1>1, <3>1, <3>4, <3>5
  <2>2. CASE p # 1
    <3>1. /\ m.next[g] \in Cells /\ m.prev[g] \in Cells /\ s[i] \in Cells /\ s[After(i, n)] \in Cells
          /\ m.prev[g] # s[i] /\ m.next[g] # s[After(i, n)]
          /\ m.next[g] = r[2] /\ m.prev[g] = r[p]
      BY <1>6, <1>7, <1>9, <1>10, <1>11, <1>12, <2>2
    <3>2. k = List!splice(m, g, s[i], s[After(i, n)])
      BY <1>5, <2>2
    <3>3. k \in Pointers /\ Joined(m, k, m.next[g], m.prev[g], s[i], s[After(i, n)])
      BY <1>1, <3>1, <3>2, SplicePointers
    <3>4. Joined(m, k, r[2], r[p], s[i], s[After(i, n)])
      BY <3>1, <3>3
    <3>5. Ring(k, t, n + p - 1)
      BY <1>2, <1>4, <1>6, <1>7, <1>9, <1>11, <2>2, <3>4, SpliceRing
    <3>6. s[i] \in C /\ s[After(i, n)] \in C /\ r[2] \in C /\ r[p] \in C
      BY <1>6, <1>7, <1>10, <1>11, <2>2
    <3>7. SameBut(m, k, C)
      BY <3>4, <3>6 DEF SameBut, Joined
    <3> QED  BY <3>3, <3>5, <3>7
  <2> QED  BY <2>1, <2>2
<1>18. Ring(k, t, Len(t))
  BY <1>4, <1>17
<1>19. T = [rings EXCEPT ![h] = t, ![g] = u]
  OBVIOUS
<1> HIDE DEF C, u
<1>22. /\ h \in Heads /\ g \in Heads /\ h # g /\ Lists(m, rings, stale) /\ IsList(t, h) /\ IsList(u, g)
       /\ Of(t) \subseteq C /\ Of(u) \subseteq C /\ Of(t) \cap Of(u) = {} /\ Len(u) = 1
       /\ \A j \in Heads \ {h, g} : Of(rings[j]) \cap C = {}
  BY <1>1, <1>3, <1>8, <1>15, <1>16
<1>20. CASE p = 1
  <2>2. Ring(k, u, Len(u))
    <3>1. k.next[g] = g /\ k.prev[g] = g
      BY <1>5, <1>7, <1>11, <1>12, <1>20
    <3> QED  BY <1>15, <3>1, HeadAlone DEF u
  <2>1. /\ stale \in SUBSET Heads /\ h \notin stale /\ g \notin stale
        /\ stale \ {h, g} = stale \ {h, g}
    BY <1>1
  <2>3. Lists(k, T, stale)
    BY ONLY <1>17, <1>18, <1>19, <1>22, <2>1, <2>2, TwoListsChange
  <2> QED  BY <1>20, <2>3
<1>21. CASE p # 1
  <2> DEFINE Z == stale \cup {g}
             q == List!INIT_LIST_HEAD(k, g)
  <2>1. Z \in SUBSET Heads /\ g \in Z /\ h \notin Z /\ Z \ {h, g} = stale \ {h, g}
    BY <1>1
  <2> HIDE DEF Z, q
  <2>2. Lists(k, T, Z)
    <3>1. /\ h \in Z => Len(t) = 1
          /\ h \notin Z => Ring(k, t, Len(t))
          /\ g \in Z => Len(u) = 1
          /\ g \notin Z => Ring(k, u, Len(u))
      BY <1>18, <1>22, <2>1
    <3> QED  BY ONLY <1>17, <1>19, <1>22, <2>1, <3>1, TwoListsChange
  <2>3. q \in Pointers /\ Looped(k, q, g)
    BY <1>1, <1>17, InitPointers DEF q
  <2>4. q.next[g] = g /\ q.prev[g] = g /\ SameBut(k, q, {g})
    BY <1>1, <2>3 DEF Looped, SameBut
  <2>5. SameBut(m, q, C)
    BY <1>15, <1>17, <2>4 DEF SameBut
  <2>6. Ring(q, t, Len(t))
    <3>1. Of(t) \cap {g} = {}
      BY <1>8
    <3> QED  BY <1>8, <1>18, <2>4, <3>1, RingKept
  <2>7. Ring(q, u, Len(u))
    BY <1>15, <2>4, HeadAlone DEF u
  <2>8. Lists(q, T, stale)
    <3>1. /\ stale \in SUBSET Heads /\ h \notin stale /\ g \notin stale
          /\ stale \ {h, g} = stale \ {h, g}
      BY <1>1
    <3> QED  BY ONLY <1>19, <1>22, <2>3, <2>5, <2>6, <2>7, <3>1, TwoListsChange
  <2> QED  BY <1>21, <2>2, <2>8 DEF Z, q
<1> QED  BY <1>20, <1>21

\* The entries of a list go into another one; its own head is stale or reset.
LEMMA SpliceStep ==
  ASSUME ListInv, NEW g \in Heads, NEW h \in Heads, List!Splice(g, h)
  PROVE  ListInv'
<1> DEFINE s == rings[h]
           r == rings[g]
           n == Len(s)
           p == Len(r)
           front == <<h>> \o Tail(r) \o Tail(s)
           back == s \o Tail(r)
           kf == IF p = 1 THEN m ELSE List!splice(m, g, s[1], s[After(1, n)])
           kb == IF p = 1 THEN m ELSE List!splice(m, g, s[n], s[After(n, n)])
           F == [rings EXCEPT ![h] = front, ![g] = <<g>>]
           B == [rings EXCEPT ![h] = back, ![g] = <<g>>]
           Y == IF p = 1 THEN stale ELSE stale \cup {g}
<1>1. /\ g \in Heads \ stale /\ h \in Heads \ stale /\ g # h
      /\ \/ /\ \/ m' = List!list_splice(m, g, h) /\ rings' = F
               \/ m' = List!list_splice_tail(m, g, h) /\ rings' = B
            /\ stale' = IF Tail(r) = <<>> THEN stale ELSE stale \cup {g}
         \/ m' = List!list_splice_init(m, g, h) /\ rings' = F /\ stale' = stale
         \/ m' = List!list_splice_tail_init(m, g, h) /\ rings' = B /\ stale' = stale
  BY DEF List!Splice, List!Live, List!Keep
<1>2. Lists(m, rings, stale)
  BY DEF ListInv
<1>3. IsList(s, h) /\ IsList(r, g) /\ n \in Nat /\ n >= 1
  BY <1>1, <1>2, Apart, ListFacts
<1>4. /\ front \in Seq(Cells) /\ Len(front) = n + p - 1 /\ Spliced(front, s, n, 1, r, p)
      /\ back \in Seq(Cells) /\ Len(back) = n + p - 1 /\ Spliced(back, s, n, n, r, p)
      /\ Tail(r) = <<>> <=> p = 1
  BY <1>3, SplicedIs
<1>5. 1 \in 1..n /\ n \in 1..n
  BY <1>3
<1> HIDE DEF front, back
<1>6. /\ Lists(kf, F, Y)
      /\ p # 1 => Lists(List!INIT_LIST_HEAD(kf, g), F, stale)
  <2>1. /\ n = Len(rings[h]) /\ p = Len(rings[g]) /\ s = rings[h] /\ r = rings[g]
        /\ p = 1 => kf = m
        /\ p # 1 => kf = List!splice(m, g, rings[h][1], rings[h][After(1, n)])
        /\ F = [rings EXCEPT ![h] = front, ![g] = <<g>>]
        /\ p = 1 => Y = stale
        /\ p # 1 => Y = stale \cup {g}
    OBVIOUS
  <2>2. g \in Heads \ stale /\ h \in Heads \ stale /\ g # h
    BY <1>1
  <2> HIDE DEF n, p, s, r, kf, F, Y
  <2>3. /\ front \in Seq(Cells) /\ Len(front) = n + p - 1
        /\ Spliced(front, rings[h], n, 1, rings[g], p) /\ 1 \in 1..n
    BY <1>4, <1>5, <2>1
  <2>4. /\ p = 1 => Lists(kf, F, stale)
        /\ p # 1 => Lists(kf, F, stale \cup {g})
        /\ p # 1 => Lists(List!INIT_LIST_HEAD(kf, g), F, stale)
    BY <2>1, <2>2, <2>3, SpliceOnce
  <2> QED  BY <2>1, <2>4
<1>7. /\ Lists(kb, B, Y)
      /\ p # 1 => Lists(List!INIT_LIST_HEAD(kb, g), B, stale)
  <2>1. /\ n = Len(rings[h]) /\ p = Len(rings[g]) /\ s = rings[h] /\ r = rings[g]
        /\ p = 1 => kb = m
        /\ p # 1 => kb = List!splice(m, g, rings[h][n], rings[h][After(n, n)])
        /\ B = [rings EXCEPT ![h] = back, ![g] = <<g>>]
        /\ p = 1 => Y = stale
        /\ p # 1 => Y = stale \cup {g}
    OBVIOUS
  <2>2. g \in Heads \ stale /\ h \in Heads \ stale /\ g # h
    BY <1>1
  <2> HIDE DEF n, p, s, r, kb, B, Y
  <2>3. /\ back \in Seq(Cells) /\ Len(back) = n + p - 1
        /\ Spliced(back, rings[h], n, n, rings[g], p) /\ n \in 1..n
    BY <1>4, <1>5, <2>1
  <2>4. /\ p = 1 => Lists(kb, B, stale)
        /\ p # 1 => Lists(kb, B, stale \cup {g})
        /\ p # 1 => Lists(List!INIT_LIST_HEAD(kb, g), B, stale)
    BY <2>1, <2>2, <2>3, SpliceOnce
  <2> QED  BY <2>1, <2>4
<1>13. /\ m.next[g] = g <=> p = 1
       /\ m.next[h] = s[After(1, n)] /\ m.prev[h] = s[n] /\ s[1] = h /\ After(n, n) = 1
  <2>1. Ring(m, s, n) /\ Ring(m, r, p)
    BY <1>1, <1>2, Apart
  <2> HIDE DEF s, r
  <2> QED  BY <1>3, <2>1, EndsOfRing
<1>8. List!list_splice(m, g, h) = kf /\ List!list_splice_tail(m, g, h) = kb
  BY <1>13 DEF List!list_splice, List!list_splice_tail, List!list_empty
<1>9. /\ List!list_splice_init(m, g, h) = IF p = 1 THEN m ELSE List!INIT_LIST_HEAD(kf, g)
      /\ List!list_splice_tail_init(m, g, h) = IF p = 1 THEN m ELSE List!INIT_LIST_HEAD(kb, g)
  BY <1>8, <1>13 DEF List!list_splice_init, List!list_splice_tail_init, List!list_empty
<1>10. p = 1 => kf = m /\ kb = m /\ Y = stale
  OBVIOUS
<1>11. Y = IF Tail(r) = <<>> THEN stale ELSE stale \cup {g}
  BY <1>4
<1> HIDE DEF kf, kb, F, B, Y, p, r, s, n
<1>12. Lists(m', rings', stale')
  <2>1. CASE m' = List!list_splice(m, g, h) /\ rings' = F /\ stale' = Y
    BY <1>6, <1>8, <2>1
  <2>2. CASE m' = List!list_splice_tail(m, g, h) /\ rings' = B /\ stale' = Y
    BY <1>7, <1>8, <2>2
  <2>3. CASE m' = List!list_splice_init(m, g, h) /\ rings' = F /\ stale' = stale
    BY <1>6, <1>9, <1>10, <2>3
  <2>4. CASE m' = List!list_splice_tail_init(m, g, h) /\ rings' = B /\ stale' = stale
    BY <1>7, <1>9, <1>10, <2>4
  <2>5. \/ m' = List!list_splice(m, g, h) /\ rings' = F /\ stale' = Y
        \/ m' = List!list_splice_tail(m, g, h) /\ rings' = B /\ stale' = Y
        \/ m' = List!list_splice_init(m, g, h) /\ rings' = F /\ stale' = stale
        \/ m' = List!list_splice_tail_init(m, g, h) /\ rings' = B /\ stale' = stale
    BY <1>1, <1>11, Zenon
  <2> QED  BY <2>1, <2>2, <2>3, <2>4, <2>5, Zenon
<1> QED  BY <1>12, SMTT(30) DEF ListInv

\* Every step on the lists keeps the invariant.
LEMMA ListStep == ListInv /\ [List!Next]_(List!vars) => ListInv'
<1> SUFFICES ASSUME ListInv, [List!Next]_(List!vars)  PROVE ListInv'
  OBVIOUS
<1> USE DEF List!Next
<1>1. CASE \E h \in Heads : List!RotateLeft(h) \/ List!InitHead(h)
  BY <1>1, RotateStep, InitHeadStep
<1>2. CASE \E g, h \in Heads : List!ReplaceHead(g, h) \/ List!Splice(g, h)
  BY <1>2, ReplaceHeadStep, SpliceStep
<1>3. CASE \E h \in Heads, e \in Entries : List!Del(h, e)
  BY <1>3, DelStep
<1>4. CASE \E h \in Heads, x \in List!Cells, e \in Entries : List!Add(h, x, e)
  BY <1>4, AddStep
<1>5. CASE \E h \in Heads, e, new \in Entries : List!Replace(h, e, new)
  BY <1>5, ReplaceStep
<1>6. CASE \E g, h \in Heads, e \in Entries : List!Move(g, e, h)
  BY <1>6, MoveStep
<1>7. CASE \E g, h \in Heads, x \in List!Cells : List!CutPosition(g, h, x)
  BY <1>7, CutPositionStep
<1>8. CASE UNCHANGED List!vars
  BY <1>8 DEF List!vars, ListInv
<1> QED  BY <1>1, <1>2, <1>3, <1>4, <1>5, <1>6, <1>7, <1>8

\* The pointers of every list are those of the sequence its calls make.
THEOREM ListsInvariance == List!Spec => []ListInv
<1> QED  BY InitLists, ListStep, PTL DEF List!Spec

\* spe_list.h:19-330.
LEMMA ListsFollow == ListInv => List!ListsAreSequences
<1> SUFFICES ASSUME ListInv, NEW h \in Heads \ stale
             PROVE  LET s == rings[h]
                        n == Len(s)
                    IN  /\ \A i \in 1..n : LET j == IF i = n THEN 1 ELSE i + 1
                                           IN  m.next[s[i]] = s[j] /\ m.prev[s[j]] = s[i]
                        /\ List!list_empty(m, h) <=> n = 1
                        /\ List!list_empty_careful(m, h) <=> n = 1
                        /\ List!list_is_singular(m, h) <=> n = 2
                        /\ \A i \in 2..n : List!list_is_last(m, s[i], h) <=> i = n
  BY DEF List!ListsAreSequences
<1> DEFINE s == rings[h]
           n == Len(s)
<1>1. IsList(s, h) /\ Ring(m, s, n)
  BY Apart DEF ListInv
<1>2. n \in Nat /\ n >= 1 /\ s[1] = h /\ Distinct(s, n)
  BY <1>1, ListFacts
<1> HIDE DEF s, n
<1>3. \A i \in 1..n : /\ After(i, n) = (IF i = n THEN 1 ELSE i + 1) /\ After(i, n) \in 1..n
                      /\ m.next[s[i]] = s[After(i, n)] /\ m.prev[s[After(i, n)]] = s[i]
  BY <1>1, <1>2 DEF Ring, After
<1>6. /\ m.next[h] = h <=> n = 1
      /\ m.prev[h] = h <=> n = 1
      /\ m.next[h] = m.prev[h] <=> n = 1 \/ n = 2
  BY <1>1, EndsOfRing DEF n
<1>7. ASSUME NEW i \in 2..n  PROVE List!list_is_last(m, s[i], h) <=> i = n
  <2>1. i \in 1..n /\ 1 \in 1..n /\ (After(i, n) = 1 <=> i = n)
    BY <1>2 DEF After
  <2>2. m.next[s[i]] = s[1] <=> i = n
    BY <1>2, <1>3, <2>1 DEF Distinct
  <2> QED  BY <1>2, <2>2 DEF List!list_is_last
<1>8. /\ \A i \in 1..n : LET j == IF i = n THEN 1 ELSE i + 1
                         IN  m.next[s[i]] = s[j] /\ m.prev[s[j]] = s[i]
      /\ List!list_empty(m, h) <=> n = 1
      /\ List!list_empty_careful(m, h) <=> n = 1
      /\ List!list_is_singular(m, h) <=> n = 2
  BY <1>2, <1>3, <1>6 DEF List!list_empty, List!list_empty_careful, List!list_is_singular
<1> QED  BY <1>7, <1>8 DEF s, n

-----------------------------------------------------------------------------
(* The pointers of the chains *)

Spots == Buckets \cup Nodes
ChainPointers == [next : [Spots -> Nodes \cup {NULL}], pprev : [Nodes -> Spots \cup {NULL}]]

\* What the functions do: e comes between x and y; e leaves from between them.
\* There is no node NULL.
Hooked(l, k, e, x, y) ==
  /\ \A z \in Spots : k.next[z] = IF z = x THEN e ELSE IF z = e THEN y ELSE l.next[z]
  /\ \A z \in Nodes : k.pprev[z] = IF z = e THEN x ELSE IF z = y THEN e ELSE l.pprev[z]
Unhooked(l, k, e, x, y) ==
  /\ \A z \in Spots : k.next[z] = IF z = e THEN NULL ELSE IF z = x THEN y ELSE l.next[z]
  /\ \A z \in Nodes : k.pprev[z] = IF z = e THEN NULL ELSE IF z = y THEN x ELSE l.pprev[z]

\* A node goes in behind the head, before a node and after one; a node leaves.
LEMMA HeadPointers ==
  ASSUME NEW l \in ChainPointers, NEW b \in Buckets, NEW e \in Nodes, l.next[b] # e
  PROVE  LET k == Hlist!hlist_add_head(l, e, b)
         IN  k \in ChainPointers /\ Hooked(l, k, e, b, l.next[b])
<1> DEFINE y == l.next[b]
           a1 == Hlist!SetNext(l, e, y)
           a2 == IF y = NULL THEN a1 ELSE Hlist!SetPprev(a1, y, e)
           a3 == Hlist!SetNext(a2, b, e)
           k == Hlist!SetPprev(a3, e, b)
<1>1. b \in Spots /\ e \in Spots /\ b # e /\ y \in Nodes \cup {NULL} /\ y # e
  BY AddressAssumption DEF AddressAssumption, ChainPointers, Spots
<1>2. NULL \notin Spots
  BY AddressAssumption DEF AddressAssumption, Spots
<1>3. k = Hlist!hlist_add_head(l, e, b)
  BY DEF Hlist!hlist_add_head
<1> HIDE DEF y
<1>4. a1 \in ChainPointers /\ a1.pprev = l.pprev
      /\ \A z \in Spots : a1.next[z] = IF z = e THEN y ELSE l.next[z]
  BY <1>1 DEF ChainPointers, Spots, Hlist!SetNext, Hlist!SetPprev
<1> HIDE DEF a1
<1>5. a2 \in ChainPointers /\ a2.next = a1.next
      /\ \A z \in Nodes : a2.pprev[z] = IF z = y THEN e ELSE a1.pprev[z]
  <2>1. CASE y = NULL
    <3>1. \A z \in Nodes : z # y
      BY <1>2, <2>1 DEF Spots
    <3> QED  BY <1>4, <2>1, <3>1
  <2>2. CASE y # NULL
    BY <1>1, <1>4, <2>2 DEF ChainPointers, Spots, Hlist!SetNext, Hlist!SetPprev
  <2> QED  BY <2>1, <2>2
<1> HIDE DEF a2
<1>6. a3 \in ChainPointers /\ a3.pprev = a2.pprev
      /\ \A z \in Spots : a3.next[z] = IF z = b THEN e ELSE a2.next[z]
  BY <1>1, <1>5 DEF ChainPointers, Spots, Hlist!SetNext, Hlist!SetPprev
<1> HIDE DEF a3
<1>7. k \in ChainPointers /\ k.next = a3.next
      /\ \A z \in Nodes : k.pprev[z] = IF z = e THEN b ELSE a3.pprev[z]
  BY <1>1, <1>6 DEF ChainPointers, Spots, Hlist!SetNext, Hlist!SetPprev
<1> HIDE DEF k
<1>8. Hooked(l, k, e, b, y)
  BY <1>1, <1>4, <1>5, <1>6, <1>7 DEF Hooked
<1> QED  BY <1>3, <1>7, <1>8 DEF y

\* A node goes in before another.
LEMMA BeforePointers ==
  ASSUME NEW l \in ChainPointers, NEW e \in Nodes, NEW nxt \in Nodes, NEW x \in Spots,
         l.pprev[nxt] = x, e # nxt, e # x
  PROVE  LET k == Hlist!hlist_add_before(l, e, nxt)
         IN  k \in ChainPointers /\ Hooked(l, k, e, x, nxt)
<1> DEFINE a0 == Hlist!SetPprev(l, e, x)
           a1 == Hlist!SetNext(a0, e, nxt)
           a2 == Hlist!SetPprev(a1, nxt, e)
           k == Hlist!SetNext(a2, x, e)
<1>1. e \in Spots
  BY DEF Spots
<1>2. a0 \in ChainPointers /\ a0.next = l.next
      /\ \A z \in Nodes : a0.pprev[z] = IF z = e THEN x ELSE l.pprev[z]
  BY DEF ChainPointers, Spots, Hlist!SetNext, Hlist!SetPprev
<1> HIDE DEF a0
<1>3. a1 \in ChainPointers /\ a1.pprev = a0.pprev
      /\ \A z \in Spots : a1.next[z] = IF z = e THEN nxt ELSE a0.next[z]
  BY <1>1, <1>2 DEF ChainPointers, Spots, Hlist!SetNext, Hlist!SetPprev
<1> HIDE DEF a1
<1>4. a2 \in ChainPointers /\ a2.next = a1.next
      /\ \A z \in Nodes : a2.pprev[z] = IF z = nxt THEN e ELSE a1.pprev[z]
  BY <1>1, <1>3 DEF ChainPointers, Spots, Hlist!SetNext, Hlist!SetPprev
<1> HIDE DEF a2
<1>5. k \in ChainPointers /\ k.pprev = a2.pprev
      /\ \A z \in Spots : k.next[z] = IF z = x THEN e ELSE a2.next[z]
  BY <1>4 DEF ChainPointers, Spots, Hlist!SetNext, Hlist!SetPprev
<1>6. a2.pprev[e] = x
  BY <1>2, <1>3, <1>4
<1>7. k = Hlist!hlist_add_before(l, e, nxt)
  BY <1>6 DEF Hlist!hlist_add_before, a0, a1, a2
<1> HIDE DEF k
<1>8. Hooked(l, k, e, x, nxt)
  BY <1>2, <1>3, <1>4, <1>5 DEF Hooked
<1> QED  BY <1>5, <1>7, <1>8

\* A node goes in after another.
LEMMA AfterPointers ==
  ASSUME NEW l \in ChainPointers, NEW n \in Nodes, NEW e \in Nodes, NEW y \in Nodes \cup {NULL},
         l.next[n] = y, e # n, e # y, y # n
  PROVE  LET k == Hlist!hlist_add_after(l, n, e)
         IN  k \in ChainPointers /\ Hooked(l, k, e, n, y)
<1> DEFINE a0 == Hlist!SetNext(l, e, y)
           a1 == Hlist!SetNext(a0, n, e)
           a2 == Hlist!SetPprev(a1, e, n)
           k == IF y = NULL THEN a2 ELSE Hlist!SetPprev(a2, y, e)
<1>1. e \in Spots /\ n \in Spots
  BY DEF Spots
<1>2. a0 \in ChainPointers /\ a0.pprev = l.pprev
      /\ \A z \in Spots : a0.next[z] = IF z = e THEN y ELSE l.next[z]
  BY <1>1 DEF ChainPointers, Spots, Hlist!SetNext, Hlist!SetPprev
<1> HIDE DEF a0
<1>3. a1 \in ChainPointers /\ a1.pprev = a0.pprev
      /\ \A z \in Spots : a1.next[z] = IF z = n THEN e ELSE a0.next[z]
  BY <1>1, <1>2 DEF ChainPointers, Spots, Hlist!SetNext, Hlist!SetPprev
<1> HIDE DEF a1
<1>4. a2 \in ChainPointers /\ a2.next = a1.next
      /\ \A z \in Nodes : a2.pprev[z] = IF z = e THEN n ELSE a1.pprev[z]
  BY <1>1, <1>3 DEF ChainPointers, Spots, Hlist!SetNext, Hlist!SetPprev
<1> HIDE DEF a2
<1>5. k \in ChainPointers /\ k.next = a2.next
      /\ \A z \in Nodes : k.pprev[z] = IF z = y THEN e ELSE a2.pprev[z]
  <2>1. CASE y = NULL
    <3>1. \A z \in Nodes : z # y
      BY <2>1, AddressAssumption DEF AddressAssumption
    <3> QED  BY <1>4, <2>1, <3>1
  <2>2. CASE y # NULL
    BY <1>1, <1>4, <2>2 DEF ChainPointers, Spots, Hlist!SetNext, Hlist!SetPprev
  <2> QED  BY <2>1, <2>2
<1>6. a2.next[e] = y
  BY <1>1, <1>2, <1>3, <1>4
<1>7. k = Hlist!hlist_add_after(l, n, e)
  BY <1>6 DEF Hlist!hlist_add_after, a0, a1, a2
<1> HIDE DEF k
<1>8. Hooked(l, k, e, n, y)
  BY <1>1, <1>2, <1>3, <1>4, <1>5 DEF Hooked
<1> QED  BY <1>5, <1>7, <1>8

\* A node leaves; hlist_del_init does the same as hlist_del.
LEMMA UnhookPointers ==
  ASSUME NEW l \in ChainPointers, NEW e \in Nodes, NEW x \in Spots, NEW y \in Nodes \cup {NULL},
         l.pprev[e] = x, l.next[e] = y, e # x, e # y
  PROVE  /\ LET k == Hlist!hlist_del(l, e)
            IN  k \in ChainPointers /\ Unhooked(l, k, e, x, y)
         /\ Hlist!hlist_del_init(l, e) = Hlist!hlist_del(l, e)
<1> DEFINE a1 == Hlist!SetNext(l, x, y)
           a2 == IF y = NULL THEN a1 ELSE Hlist!SetPprev(a1, y, x)
           a3 == Hlist!SetNext(a2, e, NULL)
           k == Hlist!SetPprev(a3, e, NULL)
<1>1. e \in Spots /\ x # NULL /\ NULL \in Nodes \cup {NULL} /\ NULL \in Spots \cup {NULL} /\ y \in Nodes \cup {NULL}
  BY AddressAssumption DEF AddressAssumption, Spots
<1>2. a1 \in ChainPointers /\ a1.pprev = l.pprev
      /\ \A z \in Spots : a1.next[z] = IF z = x THEN y ELSE l.next[z]
  BY DEF ChainPointers, Spots, Hlist!SetNext, Hlist!SetPprev
<1>3. Hlist!Unlink(l, e) = a2
  BY DEF Hlist!Unlink
<1> HIDE DEF a1
<1>4. a2 \in ChainPointers /\ a2.next = a1.next
      /\ \A z \in Nodes : a2.pprev[z] = IF z = y THEN x ELSE a1.pprev[z]
  <2>1. CASE y = NULL
    <3>1. \A z \in Nodes : z # y
      BY <2>1, AddressAssumption DEF AddressAssumption
    <3> QED  BY <1>2, <2>1, <3>1
  <2>2. CASE y # NULL
    BY <1>1, <1>2, <2>2 DEF ChainPointers, Spots, Hlist!SetNext, Hlist!SetPprev
  <2> QED  BY <2>1, <2>2
<1> HIDE DEF a2
<1>5. a3 \in ChainPointers /\ a3.pprev = a2.pprev
      /\ \A z \in Spots : a3.next[z] = IF z = e THEN NULL ELSE a2.next[z]
  BY <1>1, <1>4 DEF ChainPointers, Spots, Hlist!SetNext, Hlist!SetPprev
<1>6. Hlist!hlist_del(l, e) = k
  BY <1>3 DEF Hlist!hlist_del, Hlist!INIT_HLIST_NODE
<1> HIDE DEF a3
<1>7. k \in ChainPointers /\ k.next = a3.next
      /\ \A z \in Nodes : k.pprev[z] = IF z = e THEN NULL ELSE a3.pprev[z]
  BY <1>1, <1>5 DEF ChainPointers, Spots, Hlist!SetNext, Hlist!SetPprev
<1> HIDE DEF k
<1>8. Unhooked(l, k, e, x, y)
  BY <1>2, <1>4, <1>5, <1>7 DEF Unhooked
<1>9. Hlist!hlist_del_init(l, e) = Hlist!hlist_del(l, e)
  BY <1>1 DEF Hlist!hlist_del_init, Hlist!hlist_del, Hlist!hlist_unhashed
<1> QED  BY <1>6, <1>7, <1>8, <1>9

-----------------------------------------------------------------------------
(* Chains *)

\* Place 0 of a chain is its head.
Spot(b, s, i) == IF i = 0 THEN b ELSE s[i]

\* From the head on, next goes through the first n of s, and pprev back.
Chain(l, b, s, n) ==
  /\ \A i \in 0..n : l.next[Spot(b, s, i)] = IF i = n THEN NULL ELSE s[i + 1]
  /\ \A i \in 1..n : l.pprev[s[i]] = Spot(b, s, i - 1)

OneEach(s, n) == \A i \in 1..n : s[i] \in Nodes /\ \A j \in 1..n : s[i] = s[j] => i = j

Follower(s, n, i) == IF i = n THEN NULL ELSE s[i + 1]

\* The cells of a chain, its head among them, are different.
LEMMA SpotsDiffer ==
  ASSUME NEW n \in Nat, NEW s, OneEach(s, n), NEW b \in Buckets
  PROVE  \A i \in 0..n : /\ Spot(b, s, i) \in Spots
                         /\ \A j \in 0..n : Spot(b, s, i) = Spot(b, s, j) => i = j
                         /\ \A j \in 1..n : Spot(b, s, i) = s[j] => i = j
                         /\ Spot(b, s, i) # NULL
<1>1. b \notin Nodes /\ NULL \notin Nodes /\ NULL # b
  BY AddressAssumption DEF AddressAssumption
<1> TAKE i \in 0..n
<1>2. i # 0 => i \in 1..n
  OBVIOUS
<1>3. Spot(b, s, i) \in Spots /\ Spot(b, s, i) # NULL
  BY <1>1, <1>2 DEF OneEach, Spot, Spots
<1>4. \A j \in 0..n : Spot(b, s, i) = Spot(b, s, j) => i = j
  <2> TAKE j \in 0..n
  <2>1. j # 0 => j \in 1..n
    OBVIOUS
  <2> QED  BY <1>1, <1>2, <2>1 DEF OneEach, Spot
<1>5. \A j \in 1..n : Spot(b, s, i) = s[j] => i = j
  BY <1>1, <1>2 DEF OneEach, Spot
<1> QED  BY <1>3, <1>4, <1>5

\* A node goes in at place k.
LEMMA HookChain ==
  ASSUME NEW l, NEW q, NEW n \in Nat, NEW k \in 1..(n + 1), NEW b \in Buckets, NEW s, NEW t,
         NEW e \in Nodes, OneEach(s, n), \A j \in 1..n : s[j] # e, Chain(l, b, s, n),
         Inserted(t, s, n, k, e), Hooked(l, q, e, Spot(b, s, k - 1), Follower(s, n, k - 1))
  PROVE  Chain(q, b, t, n + 1)
<1> DEFINE x == Spot(b, s, k - 1)
           y == Follower(s, n, k - 1)
<1>0. b \notin Nodes /\ NULL \notin Nodes /\ b # e
  BY AddressAssumption DEF AddressAssumption
<1>1. \A i \in 0..n : /\ Spot(b, s, i) \in Spots /\ Spot(b, s, i) # e
                      /\ (Spot(b, s, i) = x => i = k - 1)
  <2>1. k - 1 \in 0..n
    OBVIOUS
  <2>2. \A i \in 0..n : Spot(b, s, i) # e
    BY <1>0 DEF Spot
  <2> QED  BY <2>1, <2>2, SpotsDiffer
<1>2. \A i \in 1..n : s[i] \in Nodes /\ (s[i] = y => i = k)
  <2>1. y = IF k = n + 1 THEN NULL ELSE s[k]
    BY DEF Follower
  <2>2. k # n + 1 => k \in 1..n
    OBVIOUS
  <2> QED  BY <1>0, <2>1, <2>2 DEF OneEach
<1>3. /\ \A i \in 1..(n + 1) : t[i] = IF i < k THEN s[i] ELSE IF i = k THEN e ELSE s[i - 1]
      /\ \A i \in 0..n : l.next[Spot(b, s, i)] = IF i = n THEN NULL ELSE s[i + 1]
      /\ \A i \in 1..n : l.pprev[s[i]] = Spot(b, s, i - 1)
  BY DEF Inserted, Chain
<1>4. /\ \A z \in Spots : q.next[z] = IF z = x THEN e ELSE IF z = e THEN y ELSE l.next[z]
      /\ \A z \in Nodes : q.pprev[z] = IF z = e THEN x ELSE IF z = y THEN e ELSE l.pprev[z]
  BY DEF Hooked
<1>5. ASSUME NEW i \in 0..(n + 1)
      PROVE  q.next[Spot(b, t, i)] = IF i = n + 1 THEN NULL ELSE t[i + 1]
  <2>1. CASE i < k - 1
    <3>1. i \in 0..n /\ i # n /\ i # n + 1 /\ i + 1 \in 1..(n + 1) /\ i + 1 < k /\ i # k - 1
      BY <2>1
    <3>2. Spot(b, t, i) = Spot(b, s, i) /\ t[i + 1] = s[i + 1]
      BY <1>3, <2>1, <3>1 DEF Spot
    <3> QED  BY <1>1, <1>3, <1>4, <3>1, <3>2
  <2>2. CASE i = k - 1
    <3>1. i \in 0..n /\ i # n + 1 /\ i + 1 = k /\ k \in 1..(n + 1)
      BY <2>2
    <3>2. Spot(b, t, i) = x /\ t[i + 1] = e
      BY <1>3, <2>2, <3>1 DEF Spot
    <3> QED  BY <1>1, <1>4, <2>2, <3>1, <3>2
  <2>3. CASE i = k
    <3>1. Spot(b, t, i) = e /\ e \in Spots
      BY <1>3, <2>3 DEF Spot, Spots
    <3>2. q.next[e] = y
      <4>1. k - 1 \in 0..n
        OBVIOUS
      <4> QED  BY <1>1, <1>4, <3>1, <4>1
    <3>3. y = IF i = n + 1 THEN NULL ELSE t[i + 1]
      <4>1. CASE k = n + 1
        BY <2>3, <4>1 DEF Follower
      <4>2. CASE k # n + 1
        <5>1. i + 1 \in 1..(n + 1) /\ ~ (i + 1 < k) /\ i + 1 # k /\ i + 1 - 1 = k /\ k - 1 # n /\ k - 1 + 1 = k
          BY <2>3, <4>2
        <5> QED  BY <1>3, <2>3, <4>2, <5>1 DEF Follower
      <4> QED  BY <4>1, <4>2
    <3> QED  BY <3>1, <3>2, <3>3
  <2>4. CASE i > k
    <3>1. i - 1 \in 0..n /\ i - 1 # k - 1 /\ i \in 1..(n + 1) /\ i # 0 /\ i - 1 # 0 /\ (i - 1 = n <=> i = n + 1)
      BY <2>4
    <3>2. Spot(b, t, i) = Spot(b, s, i - 1)
      BY <1>3, <2>4, <3>1 DEF Spot
    <3>3. q.next[Spot(b, t, i)] = IF i - 1 = n THEN NULL ELSE s[i - 1 + 1]
      BY <1>1, <1>3, <1>4, <3>1, <3>2
    <3>4. i # n + 1 => t[i + 1] = s[i] /\ i - 1 + 1 = i
      BY <1>3, <2>4
    <3> QED  BY <3>1, <3>3, <3>4
  <2> QED  BY <2>1, <2>2, <2>3, <2>4
<1>6. ASSUME NEW i \in 1..(n + 1)
      PROVE  q.pprev[t[i]] = Spot(b, t, i - 1)
  <2>1. CASE i < k
    <3>1. i \in 1..n /\ i # k /\ t[i] = s[i]
      BY <1>3, <2>1
    <3>2. Spot(b, t, i - 1) = Spot(b, s, i - 1)
      BY <1>3, <2>1 DEF Spot
    <3> QED  BY <1>2, <1>3, <1>4, <3>1, <3>2
  <2>2. CASE i = k
    <3>1. t[i] = e
      BY <1>3, <2>2
    <3>2. Spot(b, t, i - 1) = x
      BY <1>3, <2>2 DEF Spot
    <3> QED  BY <1>4, <3>1, <3>2
  <2>3. CASE i = k + 1
    <3>1. k \in 1..n /\ t[i] = s[k] /\ Spot(b, t, i - 1) = e
      BY <1>3, <2>3 DEF Spot
    <3>2. y = s[k]
      BY <3>1 DEF Follower
    <3> QED  BY <1>2, <1>4, <3>1, <3>2
  <2>4. CASE i > k + 1
    <3>1. i - 1 \in 1..n /\ i - 1 # k /\ t[i] = s[i - 1]
      BY <1>3, <2>4
    <3>2. Spot(b, t, i - 1) = Spot(b, s, i - 1 - 1)
      <4>1. i - 1 \in 1..(n + 1) /\ ~ (i - 1 < k) /\ i - 1 # k /\ i - 1 # 0 /\ i - 1 - 1 # 0
        BY <2>4
      <4> QED  BY <1>3, <4>1 DEF Spot
    <3> QED  BY <1>2, <1>3, <1>4, <3>1, <3>2
  <2> QED  BY <2>1, <2>2, <2>3, <2>4
<1> QED  BY <1>5, <1>6 DEF Chain

\* The node at place k leaves.
LEMMA UnhookChain ==
  ASSUME NEW l, NEW q, NEW n \in Nat, NEW k \in 1..n, NEW b \in Buckets, NEW s, NEW t,
         OneEach(s, n), Chain(l, b, s, n),
         Removed(t, s, n, k), Unhooked(l, q, s[k], Spot(b, s, k - 1), Follower(s, n, k))
  PROVE  Chain(q, b, t, n - 1)
<1> DEFINE x == Spot(b, s, k - 1)
           y == Follower(s, n, k)
           e == s[k]
<1>0. b \notin Nodes /\ NULL \notin Nodes
  BY AddressAssumption DEF AddressAssumption
<1>1. \A i \in 0..n : /\ Spot(b, s, i) \in Spots /\ (Spot(b, s, i) = e => i = k)
                      /\ (Spot(b, s, i) = x => i = k - 1)
  <2>1. k - 1 \in 0..n
    OBVIOUS
  <2> QED  BY <2>1, SpotsDiffer
<1>2. \A i \in 1..n : s[i] \in Nodes /\ (s[i] = y => i = k + 1) /\ (s[i] = e => i = k)
  <2>1. y = IF k = n THEN NULL ELSE s[k + 1]
    BY DEF Follower
  <2>2. k # n => k + 1 \in 1..n
    OBVIOUS
  <2> QED  BY <1>0, <2>1, <2>2 DEF OneEach
<1>3. /\ \A i \in 1..(n - 1) : t[i] = IF i < k THEN s[i] ELSE s[i + 1]
      /\ \A i \in 0..n : l.next[Spot(b, s, i)] = IF i = n THEN NULL ELSE s[i + 1]
      /\ \A i \in 1..n : l.pprev[s[i]] = Spot(b, s, i - 1)
  BY DEF Removed, Chain
<1>4. /\ \A z \in Spots : q.next[z] = IF z = e THEN NULL ELSE IF z = x THEN y ELSE l.next[z]
      /\ \A z \in Nodes : q.pprev[z] = IF z = e THEN NULL ELSE IF z = y THEN x ELSE l.pprev[z]
  BY DEF Unhooked
<1>5. ASSUME NEW i \in 0..(n - 1)
      PROVE  q.next[Spot(b, t, i)] = IF i = n - 1 THEN NULL ELSE t[i + 1]
  <2>1. CASE i < k - 1
    <3>1. i \in 0..n /\ i # n /\ i # n - 1 /\ i + 1 \in 1..(n - 1) /\ i + 1 < k /\ i # k - 1 /\ i # k
      BY <2>1
    <3>2. Spot(b, t, i) = Spot(b, s, i) /\ t[i + 1] = s[i + 1]
      BY <1>3, <2>1, <3>1 DEF Spot
    <3> QED  BY <1>1, <1>3, <1>4, <3>1, <3>2
  <2>2. CASE i = k - 1
    <3>1. i \in 0..n /\ i # k /\ i + 1 = k
      BY <2>2
    <3>2. Spot(b, t, i) = x
      BY <1>3, <2>2, <3>1 DEF Spot
    <3>3. q.next[x] = y
      BY <1>1, <1>4, <2>2, <3>1
    <3>4. y = IF i = n - 1 THEN NULL ELSE t[i + 1]
      <4>1. CASE k = n
        BY <2>2, <4>1 DEF Follower
      <4>2. CASE k # n
        <5>1. i + 1 \in 1..(n - 1) /\ ~ (i + 1 < k) /\ i # n - 1
          BY <2>2, <4>2
        <5> QED  BY <1>3, <2>2, <3>1, <4>2, <5>1 DEF Follower
      <4> QED  BY <4>1, <4>2
    <3> QED  BY <3>2, <3>3, <3>4
  <2>3. CASE i > k - 1
    <3>1. i + 1 \in 0..n /\ i + 1 # k - 1 /\ i + 1 # k /\ i \in 1..(n - 1) /\ i # 0 /\ i + 1 # 0
      BY <2>3
    <3>2. Spot(b, t, i) = Spot(b, s, i + 1)
      BY <1>3, <2>3, <3>1 DEF Spot
    <3>3. q.next[Spot(b, t, i)] = IF i + 1 = n THEN NULL ELSE s[i + 1 + 1]
      BY <1>1, <1>3, <1>4, <3>1, <3>2
    <3>4. /\ i + 1 = n <=> i = n - 1
          /\ i # n - 1 => t[i + 1] = s[i + 1 + 1]
      <4>1. i # n - 1 => i + 1 \in 1..(n - 1) /\ ~ (i + 1 < k)
        BY <2>3
      <4> QED  BY <1>3, <4>1
    <3> QED  BY <3>3, <3>4
  <2> QED  BY <2>1, <2>2, <2>3
<1>6. ASSUME NEW i \in 1..(n - 1)
      PROVE  q.pprev[t[i]] = Spot(b, t, i - 1)
  <2>1. CASE i < k
    <3>1. i \in 1..n /\ i # k /\ i # k + 1 /\ t[i] = s[i]
      BY <1>3, <2>1
    <3>2. Spot(b, t, i - 1) = Spot(b, s, i - 1)
      BY <1>3, <2>1 DEF Spot
    <3> QED  BY <1>2, <1>3, <1>4, <3>1, <3>2
  <2>2. CASE i = k
    <3>1. k + 1 \in 1..n /\ k + 1 # k /\ t[i] = s[k + 1]
      BY <1>3, <2>2
    <3>2. y = s[k + 1]
      BY <3>1 DEF Follower
    <3>3. Spot(b, t, i - 1) = x
      BY <1>3, <2>2 DEF Spot
    <3> QED  BY <1>2, <1>4, <3>1, <3>2, <3>3
  <2>3. CASE i > k
    <3>1. i + 1 \in 1..n /\ i + 1 # k /\ i + 1 # k + 1 /\ t[i] = s[i + 1]
      BY <1>3, <2>3
    <3>2. Spot(b, t, i - 1) = Spot(b, s, i + 1 - 1)
      <4>1. i - 1 \in 1..(n - 1) /\ ~ (i - 1 < k) /\ i - 1 # 0 /\ i - 1 + 1 = i /\ i + 1 - 1 = i /\ i # 0
        BY <2>3
      <4> QED  BY <1>3, <4>1 DEF Spot
    <3> QED  BY <1>2, <1>3, <1>4, <3>1, <3>2
  <2> QED  BY <2>1, <2>2, <2>3
<1> QED  BY <1>5, <1>6 DEF Chain

IsChain(s) == s \in Seq(Nodes) /\ OneEach(s, Len(s))

\* The pointers l are those of the chains R, which share no node; the other
\* nodes are unhashed.
Chains(l, R) ==
  /\ l \in ChainPointers /\ R \in [Buckets -> Seq(Nodes)]
  /\ \A b \in Buckets : IsChain(R[b]) /\ Chain(l, b, R[b], Len(R[b]))
  /\ \A a, b \in Buckets : a # b => Of(R[a]) \cap Of(R[b]) = {}
  /\ \A n \in Nodes : (\A b \in Buckets : n \notin Of(R[b])) => l.pprev[n] = NULL

ChainInv == Chains(c, chains)

\* What a chain is made of.
LEMMA ChainFacts ==
  ASSUME NEW s, IsChain(s)
  PROVE  /\ s \in Seq(Nodes) /\ Len(s) \in Nat /\ OneEach(s, Len(s))
         /\ \A i \in 1..Len(s) : s[i] \in Nodes /\ s[i] \in Of(s)
         /\ Of(s) \subseteq Nodes
<1> QED  BY LenProperties DEF IsChain, OneEach, Of

\* The cells outside D are left alone.
Spared(l, k, D) ==
  /\ \A z \in Spots \ D : k.next[z] = l.next[z]
  /\ \A z \in Nodes \ D : k.pprev[z] = l.pprev[z]

\* A chain with no cell in D is still one if only D changes.
LEMMA ChainKept ==
  ASSUME NEW l, NEW k, NEW b \in Buckets, NEW s, IsChain(s), Chain(l, b, s, Len(s)),
         NEW D, Spared(l, k, D), b \notin D, Of(s) \cap D = {}
  PROVE  Chain(k, b, s, Len(s))
<1> DEFINE n == Len(s)
<1>1. n \in Nat /\ OneEach(s, n) /\ Chain(l, b, s, n) /\ \A i \in 1..n : s[i] \notin D
  BY ChainFacts
<1> HIDE DEF n
<1>2. \A i \in 0..n : Spot(b, s, i) \in Spots /\ Spot(b, s, i) \notin D
  BY <1>1, SpotsDiffer DEF Spot
<1>3. \A i \in 1..n : s[i] \in Nodes /\ s[i] \notin D
  BY <1>1 DEF OneEach
<1>4. Chain(k, b, s, n)
  BY <1>1, <1>2, <1>3 DEF Chain, Spared
<1> QED  BY <1>4 DEF n

\* One chain changes, within the cells of D.
LEMMA OneChainChanges ==
  ASSUME NEW l, NEW R, Chains(l, R), NEW b \in Buckets, NEW t, IsChain(t),
         NEW D, NEW k \in ChainPointers, Spared(l, k, D), D \subseteq {b} \cup Nodes,
         Of(R[b]) \subseteq D, Of(t) \subseteq D,
         \A a \in Buckets \ {b} : Of(R[a]) \cap D = {},
         Chain(k, b, t, Len(t)),
         \A n \in Nodes : n \in D /\ n \notin Of(t) => k.pprev[n] = NULL
  PROVE  Chains(k, [R EXCEPT ![b] = t])
<1> DEFINE T == [R EXCEPT ![b] = t]
<1>1. /\ R \in [Buckets -> Seq(Nodes)]
      /\ \A a \in Buckets : IsChain(R[a]) /\ Chain(l, a, R[a], Len(R[a]))
      /\ \A a, d \in Buckets : a # d => Of(R[a]) \cap Of(R[d]) = {}
      /\ \A n \in Nodes : (\A a \in Buckets : n \notin Of(R[a])) => l.pprev[n] = NULL
  BY DEF Chains
<1>2. T \in [Buckets -> Seq(Nodes)] /\ T[b] = t /\ \A a \in Buckets \ {b} : T[a] = R[a]
  BY <1>1 DEF IsChain
<1> HIDE DEF T
<1>3. ASSUME NEW a \in Buckets  PROVE IsChain(T[a]) /\ Chain(k, a, T[a], Len(T[a]))
  <2>1. CASE a = b
    BY <1>2, <2>1
  <2>2. CASE a # b
    <3>1. a \notin D /\ Of(R[a]) \cap D = {}
      BY <2>2, AddressAssumption DEF AddressAssumption
    <3> QED  BY <1>1, <1>2, <2>2, <3>1, ChainKept
  <2> QED  BY <2>1, <2>2
<1>4. \A a, d \in Buckets : a # d => Of(T[a]) \cap Of(T[d]) = {}
  <2> SUFFICES ASSUME NEW a \in Buckets, NEW d \in Buckets, a # d
               PROVE  Of(T[a]) \cap Of(T[d]) = {}
    OBVIOUS
  <2>1. Of(R[a]) \cap Of(R[d]) = {}
    BY <1>1
  <2>2. CASE a = b
    <3>1. T[a] = t /\ T[d] = R[d] /\ Of(R[d]) \cap D = {}
      BY <1>2, <2>2
    <3> QED  BY <3>1
  <2>3. CASE d = b
    <3>1. T[d] = t /\ T[a] = R[a] /\ Of(R[a]) \cap D = {}
      BY <1>2, <2>3
    <3> QED  BY <3>1
  <2>4. CASE a # b /\ d # b
    BY <1>2, <2>1, <2>4
  <2> QED  BY <2>2, <2>3, <2>4
<1>5. ASSUME NEW n \in Nodes, \A a \in Buckets : n \notin Of(T[a])  PROVE k.pprev[n] = NULL
  <2>1. n \notin Of(t) /\ \A a \in Buckets \ {b} : n \notin Of(R[a])
    BY <1>2, <1>5
  <2>2. CASE n \in D
    BY <2>1, <2>2
  <2>3. CASE n \notin D
    <3>1. \A a \in Buckets : n \notin Of(R[a])
      BY <2>1, <2>3
    <3> QED  BY <1>1, <2>3, <3>1 DEF Spared
  <2> QED  BY <2>2, <2>3
<1>6. Chains(k, T)
  BY <1>2, <1>3, <1>4, <1>5 DEF Chains
<1> QED  BY <1>6 DEF T

\* A chain with a new node has its nodes and the new one.
LEMMA HookedNodes ==
  ASSUME NEW s, IsChain(s), NEW n, n = Len(s), NEW e \in Nodes, e \notin Of(s), NEW i \in 1..(n + 1),
         NEW t \in Seq(Nodes), Len(t) = n + 1, Inserted(t, s, n, i, e)
  PROVE  IsChain(t) /\ \A z : z \in Of(t) <=> z \in Of(s) \/ z = e
<1>1. /\ n \in Nat
      /\ \A j \in 1..n : s[j] \in Nodes /\ s[j] # e /\ \A o \in 1..n : s[j] = s[o] => j = o
  BY ChainFacts DEF OneEach
<1>2. \A j \in 1..(n + 1) : t[j] = IF j < i THEN s[j] ELSE IF j = i THEN e ELSE s[j - 1]
  BY DEF Inserted
<1>3. Of(s) = {s[j] : j \in 1..n} /\ Of(t) = {t[j] : j \in 1..(n + 1)}
  BY DEF Of
<1> DEFINE Old(x) == IF x < i THEN x ELSE x - 1
<1>4. /\ \A j \in 1..(n + 1) : /\ j # i => Old(j) \in 1..n /\ t[j] = s[Old(j)]
                               /\ j = i => t[j] = e
                               /\ \A o \in 1..(n + 1) : j # i /\ o # i /\ Old(j) = Old(o) => j = o
      /\ i \in 1..(n + 1)
  BY <1>1, <1>2
<1>5. \A o \in 1..n : \E j \in 1..(n + 1) : j # i /\ Old(j) = o
  <2> TAKE o \in 1..n
  <2> DEFINE j == IF o < i THEN o ELSE o + 1
  <2>1. j \in 1..(n + 1) /\ j # i /\ Old(j) = o
    BY <1>1
  <2> HIDE DEF j
  <2> QED  BY <2>1
<1> HIDE DEF Old
<1>6. \A j \in 1..(n + 1) : t[j] \in Nodes /\ \A o \in 1..(n + 1) : t[j] = t[o] => j = o
  BY <1>1, <1>4
<1>7. Of(t) = Of(s) \cup {e}
  <2>1. \A j \in 1..(n + 1) : t[j] = e \/ \E o \in 1..n : t[j] = s[o]
    BY <1>4
  <2>2. \A o \in 1..n : \E j \in 1..(n + 1) : t[j] = s[o]
    BY <1>4, <1>5
  <2>3. \E j \in 1..(n + 1) : t[j] = e
    BY <1>4
  <2> HIDE DEF Of
  <2> QED  BY <1>3, <2>1, <2>2, <2>3
<1> QED  BY <1>6, <1>7 DEF IsChain, OneEach

\* A chain that a node has left has the others.
LEMMA UnhookedNodes ==
  ASSUME NEW s, IsChain(s), NEW n, n = Len(s), NEW i \in 1..n,
         NEW t \in Seq(Nodes), Len(t) = n - 1, Removed(t, s, n, i)
  PROVE  IsChain(t) /\ Of(t) = Of(s) \ {s[i]}
<1>1. /\ n \in Nat
      /\ \A j \in 1..n : s[j] \in Nodes /\ \A o \in 1..n : s[j] = s[o] => j = o
  BY ChainFacts DEF OneEach
<1>2. \A j \in 1..(n - 1) : t[j] = IF j < i THEN s[j] ELSE s[j + 1]
  BY DEF Removed
<1>3. Of(s) = {s[j] : j \in 1..n} /\ Of(t) = {t[j] : j \in 1..(n - 1)}
  BY DEF Of
<1> DEFINE Old(x) == IF x < i THEN x ELSE x + 1
<1>4. \A j \in 1..(n - 1) : /\ Old(j) \in 1..n /\ Old(j) # i /\ t[j] = s[Old(j)]
                            /\ \A o \in 1..(n - 1) : Old(j) = Old(o) => j = o
  BY <1>1, <1>2
<1>5. \A o \in 1..n : o # i => \E j \in 1..(n - 1) : Old(j) = o
  <2> SUFFICES ASSUME NEW o \in 1..n, o # i  PROVE \E j \in 1..(n - 1) : Old(j) = o
    OBVIOUS
  <2> DEFINE j == IF o < i THEN o ELSE o - 1
  <2>1. j \in 1..(n - 1) /\ Old(j) = o
    BY <1>1
  <2> HIDE DEF j
  <2> QED  BY <2>1
<1> HIDE DEF Old
<1>6. \A j \in 1..(n - 1) : t[j] \in Nodes /\ \A o \in 1..(n - 1) : t[j] = t[o] => j = o
  BY <1>1, <1>4
<1>7. Of(t) = Of(s) \ {s[i]}
  <2>1. \A j \in 1..(n - 1) : t[j] # s[i] /\ \E o \in 1..n : t[j] = s[o]
    BY <1>1, <1>4
  <2>2. \A o \in 1..n : s[o] # s[i] => \E j \in 1..(n - 1) : t[j] = s[o]
    BY <1>4, <1>5
  <2>3. \A j \in 1..(n - 1) : t[j] \in Of(s) \ {s[i]}
    BY <1>3, <2>1
  <2>4. \A o \in 1..n : s[o] # s[i] => s[o] \in Of(t)
    BY <1>3, <2>2
  <2> HIDE DEF Of
  <2> QED  BY <1>3, <2>3, <2>4
<1> QED  BY <1>6, <1>7 DEF IsChain, OneEach

\* A node in no chain goes into one.
LEMMA HookList ==
  ASSUME NEW l, NEW R, Chains(l, R), NEW b \in Buckets, NEW e \in Nodes,
         \A a \in Buckets : e \notin Of(R[a]),
         NEW n, n = Len(R[b]), NEW i \in 1..(n + 1),
         NEW t \in Seq(Nodes), Len(t) = n + 1, Inserted(t, R[b], n, i, e),
         NEW k \in ChainPointers,
         Hooked(l, k, e, Spot(b, R[b], i - 1), Follower(R[b], n, i - 1))
  PROVE  Chains(k, [R EXCEPT ![b] = t])
<1> DEFINE s == R[b]
           D == {b} \cup Of(s) \cup {e}
           x == Spot(b, s, i - 1)
           y == Follower(s, n, i - 1)
<1>1. IsChain(s) /\ Chain(l, b, s, n) /\ e \notin Of(s) /\ Hooked(l, k, e, x, y)
      /\ Inserted(t, s, n, i, e) /\ n = Len(s)
  BY DEF Chains
<1>2. \A a \in Buckets \ {b} : Of(R[a]) \cap D = {}
  <2> TAKE a \in Buckets \ {b}
  <2>1. Of(R[a]) \cap Of(s) = {} /\ e \notin Of(R[a])
    BY DEF Chains
  <2>2. b \notin Of(R[a])
    <3>1. Of(R[a]) \subseteq Nodes
      BY ChainFacts DEF Chains
    <3> QED  BY <3>1, AddressAssumption DEF AddressAssumption
  <2> HIDE DEF s
  <2> QED  BY <2>1, <2>2
<1> HIDE DEF s
<1>3. n \in Nat /\ OneEach(s, n) /\ Of(s) \subseteq Nodes /\ \A j \in 1..n : s[j] \in Of(s)
  BY <1>1, ChainFacts
<1>4. IsChain(t) /\ Of(t) = Of(s) \cup {e}
  <2>1. /\ IsChain(s) /\ n = Len(s) /\ e \notin Of(s) /\ Inserted(t, s, n, i, e)
        /\ t \in Seq(Nodes) /\ Len(t) = n + 1 /\ i \in 1..(n + 1) /\ e \in Nodes
    BY <1>1
  <2>2. IsChain(t)
    BY ONLY <2>1, HookedNodes
  <2>3. \A z : z \in Of(t) <=> z \in Of(s) \/ z = e
    BY ONLY <2>1, HookedNodes
  <2> QED  BY <2>2, <2>3
<1>5. Chain(k, b, t, n + 1)
  <2>1. \A j \in 1..n : s[j] # e
    BY <1>1, <1>3
  <2> QED  BY <1>1, <1>3, <2>1, HookChain
<1>6. x \in D /\ (y \in D \/ y = NULL)
  <2>1. CASE i = 1
    <3>1. x = b
      BY <2>1 DEF Spot
    <3>2. n # 0 => 1 \in 1..n
      BY <1>3
    <3> QED  BY <1>3, <2>1, <3>1, <3>2 DEF Follower
  <2>2. CASE i # 1
    <3>1. i - 1 \in 1..n /\ i - 1 # 0 /\ (i - 1 # n => i \in 1..n /\ i - 1 + 1 = i)
      BY <1>3, <2>2
    <3> QED  BY <1>3, <3>1 DEF Spot, Follower
  <2> QED  BY <2>1, <2>2
<1>7. Spared(l, k, D)
  <2>1. \A z \in Nodes \ D : z # y
    BY <1>6, AddressAssumption DEF AddressAssumption
  <2>2. \A z \in Spots \ D : z # x /\ z # e
    BY <1>6
  <2>3. \A z \in Nodes \ D : z # e
    OBVIOUS
  <2> HIDE DEF D, x, y
  <2> QED  BY <1>1, <2>1, <2>2, <2>3 DEF Hooked, Spared
<1>8. /\ Of(s) \subseteq D /\ Of(t) \subseteq D /\ D \subseteq {b} \cup Nodes
      /\ \A z \in Nodes : z \in D /\ z \notin Of(t) => k.pprev[z] = NULL
  <2>1. b \notin Nodes
    BY AddressAssumption DEF AddressAssumption
  <2> QED  BY <1>3, <1>4, <2>1
<1>9. Chain(k, b, t, Len(t))
  BY <1>5
<1> HIDE DEF D
<1> QED  BY <1>2, <1>4, <1>7, <1>8, <1>9, OneChainChanges DEF s

\* A node leaves its chain.
LEMMA UnhookList ==
  ASSUME NEW l, NEW R, Chains(l, R), NEW b \in Buckets,
         NEW n, n = Len(R[b]), NEW i \in 1..n,
         NEW t \in Seq(Nodes), Len(t) = n - 1, Removed(t, R[b], n, i),
         NEW k \in ChainPointers,
         Unhooked(l, k, R[b][i], Spot(b, R[b], i - 1), Follower(R[b], n, i))
  PROVE  Chains(k, [R EXCEPT ![b] = t])
<1> DEFINE s == R[b]
           D == {b} \cup Of(s)
           x == Spot(b, s, i - 1)
           y == Follower(s, n, i)
           e == s[i]
<1>1. IsChain(s) /\ Chain(l, b, s, n) /\ Unhooked(l, k, e, x, y)
      /\ Removed(t, s, n, i) /\ n = Len(s)
  BY DEF Chains
<1>2. \A a \in Buckets \ {b} : Of(R[a]) \cap D = {}
  <2> TAKE a \in Buckets \ {b}
  <2>1. Of(R[a]) \cap Of(s) = {}
    BY DEF Chains
  <2>2. b \notin Of(R[a])
    <3>1. Of(R[a]) \subseteq Nodes
      BY ChainFacts DEF Chains
    <3> QED  BY <3>1, AddressAssumption DEF AddressAssumption
  <2> HIDE DEF s
  <2> QED  BY <2>1, <2>2
<1> HIDE DEF s
<1>3. n \in Nat /\ OneEach(s, n) /\ Of(s) \subseteq Nodes /\ \A j \in 1..n : s[j] \in Of(s)
  BY <1>1, ChainFacts
<1>4. IsChain(t) /\ Of(t) = Of(s) \ {e}
  BY <1>1, UnhookedNodes
<1>5. Chain(k, b, t, n - 1)
  BY <1>1, <1>3, UnhookChain
<1>6. x \in D /\ (y \in D \/ y = NULL) /\ e \in D /\ e \in Nodes
  <2>1. CASE i = 1
    <3>1. x = b
      BY <2>1 DEF Spot
    <3>2. i # n => i + 1 \in 1..n
      BY <1>3
    <3> QED  BY <1>3, <3>1, <3>2 DEF Follower
  <2>2. CASE i # 1
    <3>1. i - 1 \in 1..n /\ i - 1 # 0 /\ (i # n => i + 1 \in 1..n)
      BY <1>3, <2>2
    <3> QED  BY <1>3, <3>1 DEF Spot, Follower
  <2> QED  BY <2>1, <2>2
<1>7. Spared(l, k, D)
  <2>1. \A z \in Nodes \ D : z # y /\ z # e
    BY <1>6, AddressAssumption DEF AddressAssumption
  <2>2. \A z \in Spots \ D : z # x /\ z # e
    BY <1>6
  <2> HIDE DEF D, x, y, e
  <2> QED  BY <1>1, <2>1, <2>2 DEF Unhooked, Spared
<1>8. /\ Of(s) \subseteq D /\ Of(t) \subseteq D /\ D \subseteq {b} \cup Nodes
  BY <1>3, <1>4
<1>10. \A z \in Nodes : z \in D /\ z \notin Of(t) => k.pprev[z] = NULL
  <2>1. b \notin Nodes
    BY AddressAssumption DEF AddressAssumption
  <2>2. k.pprev[e] = NULL
    BY <1>1, <1>6 DEF Unhooked
  <2> QED  BY <1>4, <2>1, <2>2
<1>9. Chain(k, b, t, Len(t))
  BY <1>5
<1> HIDE DEF D
<1> QED  BY <1>2, <1>4, <1>7, <1>8, <1>9, <1>10, OneChainChanges DEF s

\* The head's chain goes to an empty head.
LEMMA MovePointers ==
  ASSUME NEW l \in ChainPointers, NEW b \in Buckets, NEW d \in Buckets, b # d
  PROVE  LET k == Hlist!hlist_move_list(l, b, d)
         IN  /\ k \in ChainPointers
             /\ \A z \in Spots : k.next[z] = IF z = b THEN NULL ELSE IF z = d THEN l.next[b] ELSE l.next[z]
             /\ \A z \in Nodes : k.pprev[z] = IF z = l.next[b] THEN d ELSE l.pprev[z]
<1> DEFINE y == l.next[b]
           a1 == Hlist!SetNext(l, d, y)
           a2 == IF y = NULL THEN a1 ELSE Hlist!SetPprev(a1, y, d)
           k == Hlist!SetNext(a2, b, NULL)
<1>1. b \in Spots /\ d \in Spots /\ y \in Nodes \cup {NULL}
  BY DEF ChainPointers, Spots
<1> HIDE DEF y
<1>2. a1 \in ChainPointers /\ a1.pprev = l.pprev
      /\ \A z \in Spots : a1.next[z] = IF z = d THEN y ELSE l.next[z]
  BY <1>1 DEF ChainPointers, Spots, Hlist!SetNext, Hlist!SetPprev
<1>3. a1.next[d] = y
  BY <1>1, <1>2
<1>4. k = Hlist!hlist_move_list(l, b, d)
  BY <1>3 DEF Hlist!hlist_move_list, y
<1> HIDE DEF a1
<1>5. a2 \in ChainPointers /\ a2.next = a1.next
      /\ \A z \in Nodes : a2.pprev[z] = IF z = y THEN d ELSE a1.pprev[z]
  <2>1. CASE y = NULL
    <3>1. \A z \in Nodes : z # y
      BY <2>1, AddressAssumption DEF AddressAssumption
    <3> QED  BY <1>2, <2>1, <3>1
  <2>2. CASE y # NULL
    BY <1>1, <1>2, <2>2 DEF ChainPointers, Spots, Hlist!SetNext, Hlist!SetPprev
  <2> QED  BY <2>1, <2>2
<1> HIDE DEF a2
<1>6. k \in ChainPointers /\ k.pprev = a2.pprev
      /\ \A z \in Spots : k.next[z] = IF z = b THEN NULL ELSE a2.next[z]
  BY <1>1, <1>5 DEF ChainPointers, Spots, Hlist!SetNext, Hlist!SetPprev
<1> HIDE DEF k
<1>7. \A z \in Spots : k.next[z] = IF z = b THEN NULL ELSE IF z = d THEN y ELSE l.next[z]
  BY <1>2, <1>5, <1>6
<1>8. \A z \in Nodes : k.pprev[z] = IF z = y THEN d ELSE l.pprev[z]
  BY <1>2, <1>5, <1>6
<1> QED  BY <1>4, <1>6, <1>7, <1>8 DEF y

\* The nodes of a chain as a set.
LEMMA OnIsOf ==
  ASSUME NEW b \in Buckets, NEW e
  PROVE  Hlist!On(b, e) <=> e \in Of(chains[b])
<1> QED  BY DEF Hlist!On, Of

\* A node of a chain has a place in it.
LEMMA ChainPlace ==
  ASSUME ChainInv, NEW b \in Buckets, NEW e, Hlist!On(b, e)
  PROVE  Hlist!At(b, e) \in 1..Len(chains[b]) /\ chains[b][Hlist!At(b, e)] = e
<1> QED  BY DEF Hlist!On, Hlist!At

\* The pointers of the node at place i.
LEMMA SpotFacts ==
  ASSUME NEW l \in ChainPointers, NEW b \in Buckets, NEW s, IsChain(s), NEW n, n = Len(s),
         Chain(l, b, s, n), NEW i \in 1..n
  PROVE  /\ l.pprev[s[i]] = Spot(b, s, i - 1) /\ l.next[s[i]] = Follower(s, n, i)
         /\ Spot(b, s, i - 1) \in Spots /\ Spot(b, s, i - 1) # s[i]
         /\ Follower(s, n, i) \in Nodes \cup {NULL} /\ Follower(s, n, i) # s[i]
         /\ Spot(b, s, i) = s[i] /\ Follower(s, n, i - 1) = s[i]
<1>1. n \in Nat /\ OneEach(s, n)
  BY ChainFacts
<1>2. i \in 0..n /\ i - 1 \in 0..n /\ i # 0 /\ i - 1 # n /\ i - 1 + 1 = i /\ i - 1 # i
  BY <1>1
<1>3. Spot(b, s, i) = s[i] /\ Follower(s, n, i - 1) = s[i]
  BY <1>2 DEF Spot, Follower
<1>4. l.pprev[s[i]] = Spot(b, s, i - 1) /\ l.next[s[i]] = Follower(s, n, i)
  BY <1>2, <1>3 DEF Chain, Follower
<1>5. Spot(b, s, i - 1) \in Spots /\ Spot(b, s, i - 1) # s[i]
  BY <1>1, <1>2, SpotsDiffer
<1>6. Follower(s, n, i) \in Nodes \cup {NULL} /\ Follower(s, n, i) # s[i]
  <2>1. i # n => i + 1 \in 1..n /\ i + 1 # i
    BY <1>1
  <2>2. s[i] \in Nodes /\ s[i] # NULL
    BY <1>1, AddressAssumption DEF AddressAssumption, OneEach
  <2> QED  BY <1>1, <2>1, <2>2 DEF Follower, OneEach
<1> QED  BY <1>3, <1>4, <1>5, <1>6

\* At first all chains are empty and all nodes unhashed.
LEMMA InitChains == Hlist!Init => ChainInv
<1> SUFFICES ASSUME Hlist!Init  PROVE ChainInv
  OBVIOUS
<1>1. /\ c = [next |-> [x \in Spots |-> NULL], pprev |-> [n \in Nodes |-> NULL]]
      /\ chains = [b \in Buckets |-> <<>>]
  BY DEF Hlist!Init, Spots
<1>2. c \in ChainPointers /\ (\A z \in Spots : c.next[z] = NULL) /\ (\A z \in Nodes : c.pprev[z] = NULL)
  BY <1>1 DEF ChainPointers
<1>3. ASSUME NEW b \in Buckets
      PROVE  chains[b] \in Seq(Nodes) /\ IsChain(chains[b]) /\ Chain(c, b, chains[b], Len(chains[b])) /\ Of(chains[b]) = {}
  <2>1. chains[b] = <<>> /\ Len(chains[b]) = 0 /\ b \in Spots
    BY <1>1 DEF Spots
  <2>2. Chain(c, b, chains[b], 0)
    BY <1>2, <2>1 DEF Chain, Spot
  <2> QED  BY <2>1, <2>2 DEF IsChain, OneEach, Of
<1>4. chains \in [Buckets -> Seq(Nodes)]
  BY <1>1, <1>3
<1> QED  BY <1>2, <1>3, <1>4 DEF ChainInv, Chains

\* A node in no chain goes in behind a head.
LEMMA AddHeadStep ==
  ASSUME ChainInv, NEW b \in Buckets, NEW e \in Nodes, Hlist!AddHead(b, e)
  PROVE  ChainInv'
<1> DEFINE s == chains[b]
           n == Len(s)
           t == <<e>> \o s
<1>1. /\ \A a \in Buckets : e \notin Of(chains[a])
      /\ c' = Hlist!hlist_add_head(c, e, b) /\ chains' = [chains EXCEPT ![b] = t]
  BY OnIsOf DEF Hlist!AddHead, Hlist!Loose
<1>2. Chains(c, chains) /\ c \in ChainPointers /\ IsChain(s) /\ Chain(c, b, s, n)
  BY DEF ChainInv, Chains
<1>3. s \in Seq(Nodes) /\ n \in Nat /\ \A j \in 1..n : s[j] \in Nodes /\ s[j] # e
  <2>1. e \notin Of(s)
    BY <1>1
  <2> HIDE DEF s
  <2> QED  BY <1>2, <2>1, ChainFacts
<1>4. t \in Seq(Nodes) /\ Len(t) = n + 1 /\ Inserted(t, s, n, 1, e)
  <2>1. t \in Seq(Nodes) /\ Len(t) = n + 1 /\ t[1] = e /\ \A j \in 2..(n + 1) : t[j] = s[j - 1]
    BY <1>3, InFront
  <2> HIDE DEF t, n
  <2>2. Inserted(t, s, n, 1, e)
    BY <1>3, <2>1 DEF Inserted
  <2> QED  BY <2>1, <2>2
<1> HIDE DEF t
<1>5. c.next[b] = Follower(s, n, 0) /\ Spot(b, s, 0) = b
  <2>1. c.next[Spot(b, s, 0)] = IF 0 = n THEN NULL ELSE s[0 + 1]
    BY <1>2, <1>3 DEF Chain
  <2> QED  BY <2>1 DEF Spot, Follower
<1>6. c.next[b] # e
  <2>1. NULL # e
    BY AddressAssumption DEF AddressAssumption
  <2>2. n # 0 => 0 + 1 \in 1..n
    BY <1>3
  <2> QED  BY <1>3, <1>5, <2>1, <2>2 DEF Follower
<1>7. c' \in ChainPointers /\ Hooked(c, c', e, Spot(b, s, 1 - 1), Follower(s, n, 1 - 1))
  <2>1. c' \in ChainPointers /\ Hooked(c, c', e, b, c.next[b])
    BY <1>1, <1>2, <1>6, HeadPointers
  <2>2. 1 - 1 = 0
    OBVIOUS
  <2> QED  BY <1>5, <2>1, <2>2
<1>8. 1 \in 1..(n + 1) /\ n = Len(chains[b])
  BY <1>3
<1> HIDE DEF n
<1>9. Chains(c', [chains EXCEPT ![b] = t])
  BY <1>1, <1>2, <1>4, <1>7, <1>8, HookList
<1> QED  BY <1>1, <1>9 DEF ChainInv

\* A node in no chain goes in before a node or after it.
LEMMA AddBesideStep ==
  ASSUME ChainInv, NEW b \in Buckets, NEW e \in Nodes, NEW old \in Nodes, Hlist!AddBeside(b, e, old)
  PROVE  ChainInv'
<1> DEFINE s == chains[b]
           n == Len(s)
           i == Hlist!At(b, old)
<1>1. /\ \A a \in Buckets : e \notin Of(chains[a])
      /\ Hlist!On(b, old)
      /\ \/ c' = Hlist!hlist_add_before(c, e, old) /\ chains' = [chains EXCEPT ![b] = Hlist!InsertAt(s, i, e)]
         \/ c' = Hlist!hlist_add_after(c, old, e) /\ chains' = [chains EXCEPT ![b] = Hlist!InsertAt(s, i + 1, e)]
  BY OnIsOf DEF Hlist!AddBeside, Hlist!Loose
<1>2. Chains(c, chains) /\ c \in ChainPointers /\ IsChain(s) /\ Chain(c, b, s, n)
  BY DEF ChainInv, Chains
<1>3. s \in Seq(Nodes) /\ n \in Nat /\ \A j \in 1..n : s[j] \in Nodes /\ s[j] # e
  <2>1. e \notin Of(s)
    BY <1>1
  <2> HIDE DEF s
  <2> QED  BY <1>2, <2>1, ChainFacts
<1>4. i \in 1..n /\ s[i] = old
  BY <1>1, ChainPlace
<1>5. \A k \in 1..(n + 1) :
        LET t == Hlist!InsertAt(s, k, e)
        IN  t \in Seq(Nodes) /\ Len(t) = n + 1 /\ Inserted(t, s, n, k, e)
  <2> TAKE k \in 1..(n + 1)
  <2>1. Hlist!InsertAt(s, k, e) = List!InsertAt(s, k, e)
    BY DEF Hlist!InsertAt, List!InsertAt
  <2>2. /\ List!InsertAt(s, k, e) \in Seq(Nodes) /\ Len(List!InsertAt(s, k, e)) = Len(s) + 1
        /\ Inserted(List!InsertAt(s, k, e), s, Len(s), k, e)
    BY <1>3, Insertion
  <2> QED  BY <2>1, <2>2
<1>6. n = Len(s) /\ n = Len(chains[b]) /\ s = chains[b]
  OBVIOUS
<1> HIDE DEF i, s, n
<1>7. /\ c.pprev[old] = Spot(b, s, i - 1) /\ c.next[old] = Follower(s, n, i)
      /\ Spot(b, s, i - 1) \in Spots /\ Follower(s, n, i) \in Nodes \cup {NULL} /\ Follower(s, n, i) # old
      /\ Spot(b, s, i) = old /\ Follower(s, n, i - 1) = old
  BY <1>2, <1>4, <1>6, SpotFacts
<1>8. e # old /\ e # Spot(b, s, i - 1) /\ e # Follower(s, n, i)
  <2>1. e # old
    BY <1>3, <1>4
  <2>2. e # b /\ e # NULL
    BY AddressAssumption DEF AddressAssumption
  <2>3. (i - 1 # 0 => i - 1 \in 1..n) /\ (i # n => i + 1 \in 1..n)
    BY <1>3, <1>4
  <2> QED  BY <1>3, <2>1, <2>2, <2>3 DEF Spot, Follower
<1>9. CASE c' = Hlist!hlist_add_before(c, e, old) /\ chains' = [chains EXCEPT ![b] = Hlist!InsertAt(s, i, e)]
  <2> DEFINE t == Hlist!InsertAt(s, i, e)
  <2>1. c' \in ChainPointers /\ Hooked(c, c', e, Spot(b, s, i - 1), Follower(s, n, i - 1))
    BY <1>2, <1>7, <1>8, <1>9, BeforePointers
  <2>2. i \in 1..(n + 1)
    BY <1>3, <1>4
  <2>3. t \in Seq(Nodes) /\ Len(t) = n + 1 /\ Inserted(t, s, n, i, e)
    BY <1>5, <2>2
  <2>5. chains' = [chains EXCEPT ![b] = t]
    BY <1>9
  <2> HIDE DEF t
  <2>4. Chains(c', [chains EXCEPT ![b] = t])
    BY <1>1, <1>2, <1>6, <2>1, <2>2, <2>3, HookList
  <2> QED  BY <2>4, <2>5 DEF ChainInv
<1>10. CASE c' = Hlist!hlist_add_after(c, old, e) /\ chains' = [chains EXCEPT ![b] = Hlist!InsertAt(s, i + 1, e)]
  <2> DEFINE t == Hlist!InsertAt(s, i + 1, e)
             k == i + 1
  <2>1. c' \in ChainPointers /\ Hooked(c, c', e, Spot(b, s, i), Follower(s, n, i))
    BY <1>2, <1>7, <1>8, <1>10, AfterPointers
  <2>2. k \in 1..(n + 1) /\ k - 1 = i
    BY <1>3, <1>4
  <2>3. t \in Seq(Nodes) /\ Len(t) = n + 1 /\ Inserted(t, s, n, k, e)
    BY <1>5, <2>2
  <2>5. chains' = [chains EXCEPT ![b] = t]
    BY <1>10
  <2> HIDE DEF t, k
  <2>6. c' \in ChainPointers /\ Hooked(c, c', e, Spot(b, s, k - 1), Follower(s, n, k - 1))
    BY <2>1, <2>2
  <2>4. Chains(c', [chains EXCEPT ![b] = t])
    BY <1>1, <1>2, <1>6, <2>2, <2>3, <2>6, HookList
  <2> QED  BY <2>4, <2>5 DEF ChainInv
<1> QED  BY <1>1, <1>6, <1>9, <1>10

\* A node leaves its chain, or hlist_del_init finds that it is in none.
LEMMA DelChainStep ==
  ASSUME ChainInv, NEW e \in Nodes, Hlist!Del(e)
  PROVE  ChainInv'
<1>1. /\ \/ ~ Hlist!Loose(e) /\ c' = Hlist!hlist_del(c, e)
         \/ c' = Hlist!hlist_del_init(c, e)
      /\ chains' = [b \in Buckets |-> Hlist!Without(b, e)]
  BY DEF Hlist!Del
<1>2. Chains(c, chains) /\ c \in ChainPointers /\ chains \in [Buckets -> Seq(Nodes)]
  BY DEF ChainInv, Chains
<1>3. CASE Hlist!Loose(e)
  <2>1. \A b \in Buckets : ~ Hlist!On(b, e) /\ e \notin Of(chains[b])
    BY <1>3, OnIsOf DEF Hlist!Loose
  <2>2. c.pprev[e] = NULL
    BY <1>2, <2>1 DEF Chains
  <2>3. c' = c
    BY <1>1, <1>3, <2>2 DEF Hlist!hlist_del_init, Hlist!hlist_unhashed
  <2>4. \A b \in Buckets : chains'[b] = chains[b]
    BY <1>1, <2>1 DEF Hlist!Without
  <2>5. chains' = chains
    BY <1>1, <1>2, <2>4
  <2> QED  BY <1>2, <2>3, <2>5 DEF ChainInv
<1>4. ASSUME NEW b \in Buckets, Hlist!On(b, e)  PROVE ChainInv'
  <2> DEFINE s == chains[b]
             n == Len(s)
             i == Hlist!At(b, e)
             t == Hlist!RemoveAt(s, i)
  <2>1. IsChain(s) /\ Chain(c, b, s, n) /\ s \in Seq(Nodes)
    BY <1>2 DEF Chains, IsChain
  <2>2. i \in 1..n /\ s[i] = e
    BY <1>4, ChainPlace
  <2>3. t \in Seq(Nodes) /\ Len(t) = n - 1 /\ Removed(t, s, n, i)
    <3>1. t = List!RemoveAt(s, i)
      BY DEF Hlist!RemoveAt, List!RemoveAt
    <3> HIDE DEF t, i, s
    <3> QED  BY <2>1, <2>2, <3>1, Removal
  <2>4. \A a \in Buckets \ {b} : ~ Hlist!On(a, e)
    <3> TAKE a \in Buckets \ {b}
    <3>1. Of(chains[a]) \cap Of(chains[b]) = {}
      BY <1>2 DEF Chains
    <3> QED  BY <1>4, <3>1, OnIsOf
  <2>5. chains' = [chains EXCEPT ![b] = t]
    <3>1. Hlist!Without(b, e) = t
      BY <1>4 DEF Hlist!Without
    <3>2. \A a \in Buckets \ {b} : Hlist!Without(a, e) = chains[a]
      BY <2>4 DEF Hlist!Without
    <3> HIDE DEF t
    <3> QED  BY <1>1, <1>2, <3>1, <3>2
  <2>6. n = Len(s) /\ n = Len(chains[b]) /\ s = chains[b]
    OBVIOUS
  <2> HIDE DEF n, s, i, t
  <2>7. /\ c.pprev[e] = Spot(b, s, i - 1) /\ c.next[e] = Follower(s, n, i)
        /\ Spot(b, s, i - 1) \in Spots /\ Follower(s, n, i) \in Nodes \cup {NULL}
        /\ e # Spot(b, s, i - 1) /\ e # Follower(s, n, i)
    <3>1. /\ c.pprev[s[i]] = Spot(b, s, i - 1) /\ c.next[s[i]] = Follower(s, n, i)
          /\ Spot(b, s, i - 1) \in Spots /\ Spot(b, s, i - 1) # s[i]
          /\ Follower(s, n, i) \in Nodes \cup {NULL} /\ Follower(s, n, i) # s[i]
      BY <1>2, <2>1, <2>2, <2>6, SpotFacts
    <3> QED  BY <2>2, <3>1
  <2>8. c' = Hlist!hlist_del(c, e) /\ c' \in ChainPointers
        /\ Unhooked(c, c', e, Spot(b, s, i - 1), Follower(s, n, i))
    <3>1. /\ LET k == Hlist!hlist_del(c, e)
             IN  k \in ChainPointers /\ Unhooked(c, k, e, Spot(b, s, i - 1), Follower(s, n, i))
          /\ Hlist!hlist_del_init(c, e) = Hlist!hlist_del(c, e)
      BY <1>2, <2>7, UnhookPointers
    <3> QED  BY <1>1, <3>1
  <2>9. Unhooked(c, c', s[i], Spot(b, s, i - 1), Follower(s, n, i))
    BY <2>2, <2>8
  <2>10. Chains(c', [chains EXCEPT ![b] = t])
    BY <1>2, <2>2, <2>3, <2>6, <2>8, <2>9, UnhookList
  <2> QED  BY <2>5, <2>10 DEF ChainInv
<1> QED  BY <1>3, <1>4 DEF Hlist!Loose

\* A chain goes to an empty head.
LEMMA MoveListStep ==
  ASSUME ChainInv, NEW b \in Buckets, NEW d \in Buckets, Hlist!MoveList(b, d)
  PROVE  ChainInv'
<1> DEFINE s == chains[b]
           n == Len(s)
<1>1. /\ b # d /\ chains[d] = <<>> /\ c' = Hlist!hlist_move_list(c, b, d)
      /\ chains' = [chains EXCEPT ![d] = s, ![b] = <<>>]
  BY DEF Hlist!MoveList
<1>2. /\ c \in ChainPointers /\ chains \in [Buckets -> Seq(Nodes)]
      /\ \A a \in Buckets : IsChain(chains[a]) /\ Chain(c, a, chains[a], Len(chains[a]))
      /\ \A a, f \in Buckets : a # f => Of(chains[a]) \cap Of(chains[f]) = {}
      /\ \A z \in Nodes : (\A a \in Buckets : z \notin Of(chains[a])) => c.pprev[z] = NULL
  BY DEF ChainInv, Chains
<1>3. /\ c' \in ChainPointers
      /\ \A z \in Spots : c'.next[z] = IF z = b THEN NULL ELSE IF z = d THEN c.next[b] ELSE c.next[z]
      /\ \A z \in Nodes : c'.pprev[z] = IF z = c.next[b] THEN d ELSE c.pprev[z]
  BY <1>1, <1>2, MovePointers
<1>4. /\ chains' \in [Buckets -> Seq(Nodes)] /\ chains'[d] = s /\ chains'[b] = <<>>
      /\ \A a \in Buckets \ {b, d} : chains'[a] = chains[a]
  BY <1>1, <1>2
<1>5. IsChain(s) /\ Chain(c, b, s, n)
  BY <1>2
<1>6. n \in Nat /\ OneEach(s, n) /\ Of(s) \subseteq Nodes
      /\ \A j \in 1..n : s[j] \in Nodes /\ s[j] \in Of(s)
  BY <1>5, ChainFacts
<1>7. Of(<<>>) = {}
  BY DEF Of
<1>8. c.next[b] = Follower(s, n, 0) /\ (n # 0 => c.next[b] = s[1])
  <2>1. c.next[Spot(b, s, 0)] = IF 0 = n THEN NULL ELSE s[0 + 1]
    BY <1>5, <1>6 DEF Chain
  <2> QED  BY <2>1 DEF Spot, Follower
<1>9. b \notin Nodes /\ d \notin Nodes /\ NULL \notin Nodes /\ b \in Spots /\ d \in Spots
  BY AddressAssumption DEF AddressAssumption, Spots
<1>10. Chain(c', b, <<>>, 0) /\ IsChain(<<>>)
  BY <1>1, <1>3, <1>9 DEF Chain, Spot, IsChain, OneEach
<1>11. Chain(c', d, s, n)
  <2>1. ASSUME NEW i \in 0..n
        PROVE  c'.next[Spot(d, s, i)] = IF i = n THEN NULL ELSE s[i + 1]
    <3>1. CASE i = 0
      <4>1. c'.next[d] = c.next[b] /\ Spot(d, s, i) = d
        BY <1>1, <1>3, <1>9, <3>1 DEF Spot
      <4> QED  BY <1>8, <3>1, <4>1 DEF Follower
    <3>2. CASE i # 0
      <4>1. i \in 1..n /\ Spot(d, s, i) = s[i] /\ Spot(b, s, i) = s[i]
        BY <3>2 DEF Spot
      <4>2. s[i] \in Spots /\ s[i] # b /\ s[i] # d
        BY <1>6, <1>9, <4>1 DEF Spots
      <4>3. c.next[s[i]] = IF i = n THEN NULL ELSE s[i + 1]
        BY <1>5, <4>1 DEF Chain
      <4> QED  BY <1>3, <4>1, <4>2, <4>3
    <3> QED  BY <3>1, <3>2
  <2>2. ASSUME NEW i \in 1..n
        PROVE  c'.pprev[s[i]] = Spot(d, s, i - 1)
    <3>1. CASE i = 1
      <4>1. s[i] = c.next[b] /\ s[i] \in Nodes
        BY <1>6, <1>8, <3>1
      <4> QED  BY <1>3, <3>1, <4>1 DEF Spot
    <3>2. CASE i # 1
      <4>1. s[i] \in Nodes /\ s[i] # c.next[b]
        <5>1. 1 \in 1..n
          BY <1>6
        <5> QED  BY <1>6, <1>8, <3>2, <5>1 DEF OneEach
      <4>2. i - 1 # 0
        BY <3>2
      <4>3. c.pprev[s[i]] = Spot(b, s, i - 1)
        BY <1>5 DEF Chain
      <4> QED  BY <1>3, <4>1, <4>2, <4>3 DEF Spot
    <3> QED  BY <3>1, <3>2
  <2> HIDE DEF s, n
  <2> QED  BY <2>1, <2>2 DEF Chain
<1>12. ASSUME NEW a \in Buckets \ {b, d}  PROVE Chain(c', a, chains[a], Len(chains[a]))
  <2>1. Spared(c, c', {b, d} \cup Of(s))
    <3>1. \A z \in Nodes \ Of(s) : z # c.next[b]
      <4>1. n # 0 => 1 \in 1..n
        BY <1>6
      <4>2. n = 0 => c.next[b] = NULL
        BY <1>8 DEF Follower
      <4> QED  BY <1>6, <1>8, <1>9, <4>1, <4>2
    <3> HIDE DEF s
    <3> QED  BY <1>3, <3>1 DEF Spared
  <2>2. a \notin {b, d} \cup Of(s)
    <3>1. a \notin Nodes
      BY AddressAssumption DEF AddressAssumption
    <3> QED  BY <1>6, <3>1
  <2>3. Of(chains[a]) \cap ({b, d} \cup Of(s)) = {}
    <3>1. Of(chains[a]) \cap Of(s) = {}
      BY <1>2
    <3>2. Of(chains[a]) \subseteq Nodes
      BY <1>2, ChainFacts
    <3> QED  BY <1>9, <3>1, <3>2
  <2> QED  BY <1>2, <2>1, <2>2, <2>3, ChainKept
<1>13. ASSUME NEW a \in Buckets
       PROVE  IsChain(chains'[a]) /\ Chain(c', a, chains'[a], Len(chains'[a]))
  <2>1. CASE a = b
    BY <1>4, <1>10, <2>1
  <2>2. CASE a = d
    BY <1>4, <1>5, <1>11, <2>2
  <2>3. CASE a \notin {b, d}
    BY <1>2, <1>4, <1>12, <2>3
  <2> QED  BY <2>1, <2>2, <2>3
<1>14. \A a, f \in Buckets : a # f => Of(chains'[a]) \cap Of(chains'[f]) = {}
  <2> SUFFICES ASSUME NEW a \in Buckets, NEW f \in Buckets, a # f
               PROVE  Of(chains'[a]) \cap Of(chains'[f]) = {}
    OBVIOUS
  <2>1. /\ a # b => Of(s) \cap Of(chains[a]) = {}
        /\ f # b => Of(s) \cap Of(chains[f]) = {}
        /\ Of(chains[a]) \cap Of(chains[f]) = {}
    BY <1>2
  <2>2. \A x \in {a, f} : \/ x = b /\ chains'[x] = <<>>
                          \/ x = d /\ x # b /\ chains'[x] = s
                          \/ x \notin {b, d} /\ chains'[x] = chains[x]
    BY <1>1, <1>4
  <2> HIDE DEF s
  <2> QED  BY <1>7, <2>1, <2>2
<1>15. ASSUME NEW z \in Nodes, \A a \in Buckets : z \notin Of(chains'[a])  PROVE c'.pprev[z] = NULL
  <2>1. z \notin Of(s)
    BY <1>4, <1>15
  <2>2. \A a \in Buckets : z \notin Of(chains[a])
    <3> TAKE a \in Buckets
    <3>1. CASE a = b
      BY <2>1, <3>1
    <3>2. CASE a = d
      BY <1>1, <1>7, <3>2
    <3>3. CASE a \notin {b, d}
      BY <1>4, <1>15, <3>3
    <3> QED  BY <3>1, <3>2, <3>3
  <2>3. z # c.next[b]
    <3>1. n # 0 => 1 \in 1..n
      BY <1>6
    <3>2. n = 0 => c.next[b] = NULL
      BY <1>8 DEF Follower
    <3> QED  BY <1>6, <1>8, <1>9, <2>1, <3>1, <3>2
  <2> QED  BY <1>2, <1>3, <2>2, <2>3
<1> QED  BY <1>3, <1>4, <1>13, <1>14, <1>15 DEF ChainInv, Chains

\* Every step on the chains keeps the invariant.
LEMMA ChainStep == ChainInv /\ [Hlist!Next]_(Hlist!vars) => ChainInv'
<1> SUFFICES ASSUME ChainInv, [Hlist!Next]_(Hlist!vars)  PROVE ChainInv'
  OBVIOUS
<1>1. ASSUME NEW e \in Nodes, Hlist!Del(e)  PROVE ChainInv'
  BY <1>1, DelChainStep
<1>2. ASSUME NEW b \in Buckets, NEW e \in Nodes, Hlist!AddHead(b, e)  PROVE ChainInv'
  BY <1>2, AddHeadStep
<1>3. ASSUME NEW b \in Buckets, NEW e \in Nodes, NEW old \in Nodes, Hlist!AddBeside(b, e, old)
      PROVE  ChainInv'
  BY <1>3, AddBesideStep
<1>4. ASSUME NEW b \in Buckets, NEW d \in Buckets, Hlist!MoveList(b, d)  PROVE ChainInv'
  BY <1>4, MoveListStep
<1>5. CASE UNCHANGED Hlist!vars
  BY <1>5 DEF Hlist!vars, ChainInv
<1> QED  BY <1>1, <1>2, <1>3, <1>4, <1>5 DEF Hlist!Next

\* For all chains there are: the pointers are those of the chains, which share
\* no node, and the nodes of no chain are unhashed (spe_list.h:556-640).
THEOREM ChainsInvariance == Hlist!Spec => []ChainInv
<1> QED  BY InitChains, ChainStep, PTL DEF Hlist!Spec

\* The invariant says what the pointers are.
LEMMA ChainsFollow == ChainInv => Hlist!ChainsAreSequences
<1> SUFFICES ASSUME ChainInv  PROVE Hlist!ChainsAreSequences
  OBVIOUS
<1>1. /\ \A b \in Buckets : IsChain(chains[b]) /\ Chain(c, b, chains[b], Len(chains[b]))
      /\ \A e \in Nodes : (\A b \in Buckets : e \notin Of(chains[b])) => c.pprev[e] = NULL
  BY DEF ChainInv, Chains
<1>2. ASSUME NEW b \in Buckets
      PROVE  LET s == <<b>> \o chains[b]
                 n == Len(s)
             IN  /\ \A i \in 1..n : c.next[s[i]] = IF i = n THEN NULL ELSE s[i + 1]
                 /\ \A i \in 2..n : c.pprev[s[i]] = s[i - 1]
                 /\ Hlist!hlist_empty(c, b) <=> chains[b] = <<>>
  <2> DEFINE r == chains[b]
             p == Len(r)
             s == <<b>> \o r
             n == Len(s)
  <2>1. IsChain(r) /\ Chain(c, b, r, p)
    BY <1>1
  <2>2. p \in Nat /\ r \in Seq(Nodes) /\ \A i \in 1..p : r[i] \in Nodes
    BY <2>1, ChainFacts
  <2>3. n = p + 1 /\ s[1] = b /\ \A i \in 2..(p + 1) : s[i] = r[i - 1]
    <3>1. b \in Spots /\ r \in Seq(Spots)
      BY <2>2 DEF Spots
    <3> HIDE DEF r
    <3> QED  BY <3>1, InFront
  <2>4. p = 0 <=> r = <<>>
    BY <2>2
  <2> HIDE DEF n, s, r, p
  <2>5. \A i \in 0..p : c.next[Spot(b, r, i)] = IF i = p THEN NULL ELSE r[i + 1]
    BY <2>1 DEF Chain
  <2>6. \A i \in 1..n : s[i] = Spot(b, r, i - 1)
    BY <2>2, <2>3 DEF Spot
  <2>7. ASSUME NEW i \in 1..n  PROVE c.next[s[i]] = IF i = n THEN NULL ELSE s[i + 1]
    <3>1. i - 1 \in 0..p /\ i - 1 + 1 = i /\ (i - 1 = p <=> i = n)
      BY <2>2, <2>3
    <3>2. i # n => s[i + 1] = r[i]
      BY <2>2, <2>3
    <3> QED  BY <2>5, <2>6, <3>1, <3>2
  <2>8. ASSUME NEW i \in 2..n  PROVE c.pprev[s[i]] = s[i - 1]
    <3>1. i - 1 \in 1..p /\ i - 1 \in 1..n /\ s[i] = r[i - 1]
      BY <2>2, <2>3
    <3>2. c.pprev[r[i - 1]] = Spot(b, r, i - 1 - 1)
      BY <2>1, <3>1 DEF Chain
    <3> QED  BY <2>6, <3>1, <3>2
  <2>9. Hlist!hlist_empty(c, b) <=> r = <<>>
    <3>1. c.next[b] = IF 0 = p THEN NULL ELSE r[1]
      <4>1. 0 \in 0..p /\ Spot(b, r, 0) = b /\ 0 + 1 = 1
        BY <2>2 DEF Spot
      <4> QED  BY <2>5, <4>1
    <3>2. p # 0 => r[1] # NULL
      <4>1. p # 0 => 1 \in 1..p
        BY <2>2
      <4> QED  BY <2>2, <4>1, AddressAssumption DEF AddressAssumption
    <3> QED  BY <2>4, <3>1, <3>2 DEF Hlist!hlist_empty
  <2> QED  BY <2>7, <2>8, <2>9 DEF s, n, r
<1>3. ASSUME NEW e \in Nodes  PROVE Hlist!hlist_unhashed(c, e) <=> Hlist!Loose(e)
  <2>1. Hlist!Loose(e) => c.pprev[e] = NULL
    BY <1>1, OnIsOf DEF Hlist!Loose
  <2>2. ASSUME NEW b \in Buckets, Hlist!On(b, e)  PROVE c.pprev[e] # NULL
    <3> DEFINE s == chains[b]
               n == Len(s)
               i == Hlist!At(b, e)
    <3>1. i \in 1..n /\ s[i] = e /\ IsChain(s) /\ Chain(c, b, s, n)
      BY <1>1, <2>2, ChainPlace
    <3>2. n \in Nat /\ OneEach(s, n)
      BY <3>1, ChainFacts
    <3> HIDE DEF s, n, i
    <3>3. c.pprev[e] = Spot(b, s, i - 1)
      BY <3>1 DEF Chain
    <3>4. i - 1 \in 0..n
      BY <3>1, <3>2
    <3> QED  BY <3>2, <3>3, <3>4, SpotsDiffer
  <2> QED  BY <2>1, <2>2 DEF Hlist!Loose, Hlist!hlist_unhashed
<1> QED  BY <1>2, <1>3 DEF Hlist!ChainsAreSequences

\* Whatever is done with the lists and the chains, their pointers are those of
\* the sequences that the calls make (spe_list.h:62-702).
THEOREM ListsAreAlwaysSequences == List!Spec /\ Hlist!Spec => []ListsAreSequences
<1>1. ListInv /\ ChainInv => ListsAreSequences
  BY ListsFollow, ChainsFollow DEF ListsAreSequences
<1> QED  BY <1>1, ListsInvariance, ChainsInvariance, PTL
=============================================================================
