---------------------------- MODULE SpeTaskProofs ----------------------------
(***************************************************************************)
(* Theorems about the scheduler.  First what the operations of TaskQueue   *)
(* preserve, for every set of tasks: each one maps a consistent scheduler  *)
(* state to a consistent scheduler state; the proofs about the modules     *)
(* built on it cite these lemmas.  Then SpeTask, for every set of delays   *)
(* and every bound on the clock.                                           *)
(***************************************************************************)
EXTENDS SpeTask, Functions, SequenceTheorems, WellFoundedInduction, TLAPS

\* The part of the invariant that speaks of the scheduler state alone.
SchedInv(s) == s \in SchedState /\ QueueExact(s) /\ TimersExact(s)

-----------------------------------------------------------------------------
(* Lists without repetition *)

\* Appending a new element.
LEMMA AppendNew ==
  ASSUME NEW S, NEW list \in Seq(S), IsInjective(list),
         NEW t \in S, t \notin Range(list)
  PROVE  /\ Append(list, t) \in Seq(S)
         /\ Len(Append(list, t)) = Len(list) + 1
         /\ IsInjective(Append(list, t))
         /\ Range(Append(list, t)) = Range(list) \cup {t}
<1> DEFINE new == Append(list, t)
<1>1. /\ Len(list) \in Nat
      /\ DOMAIN list = 1 .. Len(list)
  BY LenProperties
<1>2. /\ new \in Seq(S)
      /\ Len(new) = Len(list) + 1
      /\ \A i \in 1 .. Len(list) : new[i] = list[i]
      /\ new[Len(list) + 1] = t
  BY AppendProperties
<1> HIDE DEF new
<1>3. DOMAIN new = 1 .. Len(list) + 1
  BY <1>2, LenProperties
<1>4. \A i \in 1 .. Len(list) : list[i] \in Range(list)
  BY <1>1 DEF Range
<1>5. IsInjective(new)
  <2> SUFFICES ASSUME NEW i \in 1 .. Len(list) + 1, NEW j \in 1 .. Len(list) + 1,
                      new[i] = new[j]
               PROVE  i = j
    BY <1>3 DEF IsInjective
  <2>1. CASE i \in 1 .. Len(list) /\ j \in 1 .. Len(list)
    BY <1>1, <1>2, <2>1 DEF IsInjective
  <2>2. CASE i = Len(list) + 1 \/ j = Len(list) + 1
    BY <1>1, <1>2, <1>4, <2>2
  <2> QED  BY <1>1, <2>1, <2>2
<1>6. Range(new) = Range(list) \cup {t}
  <2>1. ASSUME NEW x \in Range(new) PROVE x \in Range(list) \cup {t}
    BY <1>1, <1>2, <1>3, <1>4 DEF Range
  <2>2. ASSUME NEW x \in Range(list) PROVE x \in Range(new)
    <3>1. PICK i \in 1 .. Len(list) : list[i] = x
      BY <1>1 DEF Range
    <3> QED  BY <1>1, <1>2, <1>3, <3>1 DEF Range
  <2>3. t \in Range(new)
    BY <1>1, <1>2, <1>3 DEF Range
  <2> QED  BY <2>1, <2>2, <2>3
<1> QED  BY <1>2, <1>5, <1>6 DEF new

\* Taking the first element.
LEMMA TailProperties ==
  ASSUME NEW S, NEW list \in Seq(S), IsInjective(list), list # << >>
  PROVE  /\ Head(list) \in S
         /\ Head(list) \in Range(list)
         /\ Tail(list) \in Seq(S)
         /\ Len(Tail(list)) = Len(list) - 1
         /\ IsInjective(Tail(list))
         /\ Range(Tail(list)) = Range(list) \ {Head(list)}
         /\ \A i \in DOMAIN Tail(list) : i + 1 \in DOMAIN list
                                        /\ Tail(list)[i] = list[i + 1]
<1> DEFINE rest == Tail(list)
<1>1. /\ Len(list) \in Nat \ {0}
      /\ DOMAIN list = 1 .. Len(list)
  BY LenProperties, EmptySeq
<1>2. Head(list) = list[1]
  OBVIOUS
<1>3. /\ rest \in Seq(S)
      /\ Len(rest) = Len(list) - 1
      /\ \A i \in 1 .. Len(rest) : rest[i] = list[i + 1]
  BY HeadTailProperties
<1> HIDE DEF rest
<1>4. DOMAIN rest = 1 .. Len(list) - 1
  BY <1>3, LenProperties
<1>5. Head(list) \in S /\ Head(list) \in Range(list)
  BY <1>1, <1>2, ElementOfSeq DEF Range
<1>6. \A i \in DOMAIN rest : i + 1 \in DOMAIN list /\ rest[i] = list[i + 1]
  BY <1>1, <1>3, <1>4
<1>7. IsInjective(rest)
  BY <1>1, <1>4, <1>6 DEF IsInjective
<1>8. ASSUME NEW x \in Range(rest) PROVE x \in Range(list) /\ x # list[1]
  <2>1. PICK i \in DOMAIN rest : rest[i] = x
    BY DEF Range
  <2>2. i + 1 \in DOMAIN list /\ x = list[i + 1] /\ i + 1 # 1
    BY <1>4, <1>6, <2>1
  <2>3. 1 \in DOMAIN list
    BY <1>1
  <2> QED  BY <2>2, <2>3 DEF Range, IsInjective
<1>9. ASSUME NEW x \in Range(list), x # list[1] PROVE x \in Range(rest)
  <2>1. PICK i \in 1 .. Len(list) : list[i] = x
    BY <1>1 DEF Range
  <2>2. i - 1 \in DOMAIN rest /\ (i - 1) + 1 = i
    BY <1>1, <1>4, <1>9, <2>1
  <2>3. rest[i - 1] = x
    BY <1>6, <2>1, <2>2
  <2> QED  BY <2>2, <2>3 DEF Range
<1>10. Range(rest) = Range(list) \ {Head(list)}
  BY <1>2, <1>8, <1>9
<1> QED  BY <1>3, <1>5, <1>6, <1>7, <1>10 DEF rest

\* Removing one element of a list shifts what follows it.
LEMMA RemoveAtProperties ==
  ASSUME NEW S, NEW list \in Seq(S), NEW i \in 1 .. Len(list)
  PROVE  /\ RemoveAt(list, i) \in Seq(S)
         /\ Len(RemoveAt(list, i)) = Len(list) - 1
         /\ \A j \in 1 .. Len(list) - 1 :
              RemoveAt(list, i)[j] = IF j < i THEN list[j] ELSE list[j + 1]
<1> DEFINE front == SubSeq(list, 1, i - 1)
           back  == SubSeq(list, i + 1, Len(list))
<1>1. /\ Len(list) \in Nat
      /\ \A j \in 1 .. Len(list) : list[j] \in S
  BY LenProperties, ElementOfSeq
<1>2. /\ front \in Seq(S)
      /\ Len(front) = i - 1
      /\ \A j \in 1 .. i - 1 : front[j] = list[j]
  <2>1. \A j \in 1 .. i - 1 : list[j] \in S
    BY <1>1
  <2> QED  BY <1>1, <2>1, SubSeqProperties
<1>3. /\ back \in Seq(S)
      /\ Len(back) = Len(list) - i
      /\ \A j \in 1 .. Len(list) - i : back[j] = list[i + j]
  <2>1. \A j \in i + 1 .. Len(list) : list[j] \in S
    BY <1>1
  <2> QED  BY <1>1, <2>1, SubSeqProperties
<1>4. /\ front \o back \in Seq(S)
      /\ Len(front \o back) = Len(front) + Len(back)
      /\ \A j \in 1 .. Len(front) + Len(back) :
           (front \o back)[j] =
             IF j <= Len(front) THEN front[j] ELSE back[j - Len(front)]
  BY <1>2, <1>3, ConcatProperties
<1>5. RemoveAt(list, i) = front \o back
  BY DEF RemoveAt
<1> HIDE DEF front, back
<1>6. ASSUME NEW j \in 1 .. Len(list) - 1
      PROVE  (front \o back)[j] = IF j < i THEN list[j] ELSE list[j + 1]
  <2>1. CASE j < i
    BY <1>1, <1>2, <1>3, <1>4, <2>1
  <2>2. CASE ~ (j < i)
    <3>1. j - (i - 1) \in 1 .. Len(list) - i /\ i + (j - (i - 1)) = j + 1
      BY <1>1, <2>2
    <3>2. back[j - (i - 1)] = list[i + (j - (i - 1))]
      BY <1>3, <3>1
    <3> QED  BY <1>1, <1>2, <1>3, <1>4, <2>2, <3>1, <3>2
  <2> QED  BY <2>1, <2>2
<1>7. front \o back \in Seq(S) /\ Len(front \o back) = Len(list) - 1
  BY <1>1, <1>2, <1>3, <1>4
<1> QED  BY <1>5, <1>6, <1>7

\* Inserting an element makes room for it.
LEMMA InsertAtProperties ==
  ASSUME NEW S, NEW list \in Seq(S), NEW k \in 1 .. Len(list) + 1, NEW e \in S
  PROVE  /\ InsertAt(list, k, e) \in Seq(S)
         /\ Len(InsertAt(list, k, e)) = Len(list) + 1
         /\ \A j \in 1 .. Len(list) + 1 :
              InsertAt(list, k, e)[j] =
                IF j < k THEN list[j] ELSE IF j = k THEN e ELSE list[j - 1]
<1> DEFINE front == SubSeq(list, 1, k - 1)
           back  == SubSeq(list, k, Len(list))
<1>1. /\ Len(list) \in Nat
      /\ \A j \in 1 .. Len(list) : list[j] \in S
  BY LenProperties, ElementOfSeq
<1>2. /\ front \in Seq(S)
      /\ Len(front) = k - 1
      /\ \A j \in 1 .. k - 1 : front[j] = list[j]
  <2>1. \A j \in 1 .. k - 1 : list[j] \in S
    BY <1>1
  <2> QED  BY <1>1, <2>1, SubSeqProperties
<1>3. /\ back \in Seq(S)
      /\ Len(back) = Len(list) - k + 1
      /\ \A j \in 1 .. Len(list) - k + 1 : back[j] = list[k + j - 1]
  <2>1. \A j \in k .. Len(list) : list[j] \in S
    BY <1>1
  <2> QED  BY <1>1, <2>1, SubSeqProperties
<1>4. << e >> \in Seq(S) /\ Len(<< e >>) = 1 /\ << e >>[1] = e
  OBVIOUS
<1> DEFINE left == front \o << e >>
           new  == left \o back
<1>5. InsertAt(list, k, e) = new
  BY DEF InsertAt
<1> HIDE DEF front, back
<1>6. /\ left \in Seq(S)
      /\ Len(left) = k
      /\ \A j \in 1 .. k : left[j] = IF j <= k - 1 THEN list[j] ELSE e
  BY <1>1, <1>2, <1>4, ConcatProperties
<1> HIDE DEF left
<1>7. /\ new \in Seq(S)
      /\ Len(new) = k + Len(back)
      /\ \A j \in 1 .. k + Len(back) :
           new[j] = IF j <= k THEN left[j] ELSE back[j - k]
  BY <1>3, <1>6, ConcatProperties
<1> HIDE DEF new
<1>8. ASSUME NEW j \in 1 .. Len(list) + 1
      PROVE  new[j] = IF j < k THEN list[j] ELSE IF j = k THEN e ELSE list[j - 1]
  <2>1. CASE j <= k
    BY <1>1, <1>3, <1>6, <1>7, <2>1
  <2>2. CASE ~ (j <= k)
    <3>1. j - k \in 1 .. Len(list) - k + 1 /\ k + (j - k) - 1 = j - 1
      BY <1>1, <2>2
    <3>2. back[j - k] = list[k + (j - k) - 1]
      BY <1>3, <3>1
    <3> QED  BY <1>1, <1>3, <1>7, <2>2, <3>1, <3>2
  <2> QED  BY <2>1, <2>2
<1>9. Len(new) = Len(list) + 1
  BY <1>1, <1>3, <1>7
<1> QED  BY <1>5, <1>7, <1>8, <1>9

\* Unlinking an element of a list without duplicates takes out that element
\* and no other, and keeps the order of the rest.
LEMMA UnlinkProperties ==
  ASSUME NEW S, NEW list \in Seq(S), IsInjective(list), NEW t \in Range(list)
  PROVE  /\ Unlink(list, t) \in Seq(S)
         /\ Len(Unlink(list, t)) = Len(list) - 1
         /\ IsInjective(Unlink(list, t))
         /\ Range(Unlink(list, t)) = Range(list) \ {t}
         /\ \A j, k \in DOMAIN Unlink(list, t) :
              j < k => \E m, n \in DOMAIN list :
                         /\ m < n
                         /\ Unlink(list, t)[j] = list[m]
                         /\ Unlink(list, t)[k] = list[n]
<1> DEFINE i == CHOOSE x \in DOMAIN list : list[x] = t
           rest == Unlink(list, t)
<1>1. Len(list) \in Nat /\ DOMAIN list = 1 .. Len(list)
  BY LenProperties
<1>2. i \in 1 .. Len(list) /\ list[i] = t
  BY <1>1 DEF Range
<1>3. rest = RemoveAt(list, i)
  BY DEF Unlink
<1> HIDE DEF i, rest
<1>4. /\ rest \in Seq(S)
      /\ Len(rest) = Len(list) - 1
      /\ \A j \in 1 .. Len(list) - 1 :
           rest[j] = IF j < i THEN list[j] ELSE list[j + 1]
  BY <1>2, <1>3, RemoveAtProperties
<1>5. DOMAIN rest = 1 .. Len(list) - 1
  BY <1>4, LenProperties
<1>6. \A m, n \in 1 .. Len(list) : list[m] = list[n] => m = n
  BY <1>1 DEF IsInjective
<1>7. IsInjective(rest)
  <2> SUFFICES ASSUME NEW j \in DOMAIN rest, NEW k \in DOMAIN rest,
                      rest[j] = rest[k]
               PROVE  j = k
    BY DEF IsInjective
  <2> DEFINE from(x) == IF x < i THEN x ELSE x + 1
  <2>1. from(j) \in 1 .. Len(list) /\ from(k) \in 1 .. Len(list)
    BY <1>1, <1>2, <1>5
  <2>2. list[from(j)] = list[from(k)]
    BY <1>4, <1>5
  <2>3. from(j) = from(k)
    BY <1>6, <2>1, <2>2
  <2> QED  BY <1>1, <1>2, <1>5, <2>3
<1>8. ASSUME NEW x \in Range(rest)
      PROVE  x \in Range(list) /\ x # t
  <2>1. PICK j \in 1 .. Len(list) - 1 : rest[j] = x
    BY <1>5 DEF Range
  <2>2. CASE j < i
    <3>1. j \in 1 .. Len(list) /\ x = list[j] /\ j # i
      BY <1>1, <1>2, <1>4, <2>1, <2>2
    <3> QED  BY <1>1, <1>2, <1>6, <3>1 DEF Range
  <2>3. CASE ~ (j < i)
    <3>1. j + 1 \in 1 .. Len(list) /\ x = list[j + 1] /\ j + 1 # i
      BY <1>1, <1>2, <1>4, <2>1, <2>3
    <3> QED  BY <1>1, <1>2, <1>6, <3>1 DEF Range
  <2> QED  BY <2>2, <2>3
<1>9. ASSUME NEW x \in Range(list), x # t
      PROVE  x \in Range(rest)
  <2>1. PICK j \in 1 .. Len(list) : list[j] = x
    BY <1>1 DEF Range
  <2>2. j # i
    BY <1>2, <1>9, <2>1
  <2>3. CASE j < i
    <3>1. j \in 1 .. Len(list) - 1 /\ rest[j] = x
      BY <1>1, <1>2, <1>4, <2>1, <2>3
    <3> QED  BY <1>5, <3>1 DEF Range
  <2>4. CASE i < j
    <3>1. j - 1 \in 1 .. Len(list) - 1 /\ ~ (j - 1 < i) /\ (j - 1) + 1 = j
      BY <1>1, <1>2, <2>1, <2>4
    <3>2. rest[j - 1] = x
      BY <1>4, <2>1, <3>1
    <3> QED  BY <1>5, <3>1, <3>2 DEF Range
  <2> QED  BY <1>1, <1>2, <2>2, <2>3, <2>4
<1>10. ASSUME NEW j \in DOMAIN rest, NEW k \in DOMAIN rest, j < k
       PROVE  \E m, n \in DOMAIN list :
                m < n /\ rest[j] = list[m] /\ rest[k] = list[n]
  <2> DEFINE from(x) == IF x < i THEN x ELSE x + 1
  <2>1. /\ from(j) \in 1 .. Len(list) /\ from(k) \in 1 .. Len(list)
        /\ from(j) < from(k)
    BY <1>1, <1>2, <1>5, <1>10
  <2>2. rest[j] = list[from(j)] /\ rest[k] = list[from(k)]
    BY <1>4, <1>5
  <2> QED  BY <1>1, <2>1, <2>2
<1>11. Range(rest) = Range(list) \ {t}
  BY <1>8, <1>9
<1> QED  BY <1>4, <1>7, <1>10, <1>11 DEF rest

-----------------------------------------------------------------------------
(* The timer tree *)

\* The descent always ends at a position: the least one that is behind the
\* last node or in front of a node with a larger key.
LEMMA TimerSlotProperties ==
  ASSUME NEW s \in SchedState, NEW e \in Nat
  PROVE  /\ TimerSlot(s, e) \in 1 .. Len(s.timer_head) + 1
         /\ \A i \in 1 .. TimerSlot(s, e) - 1 : s.expire[s.timer_head[i]] <= e
         /\ TimerSlot(s, e) <= Len(s.timer_head) =>
              e < s.expire[s.timer_head[TimerSlot(s, e)]]
<1> DEFINE n    == Len(s.timer_head)
           ends == {k \in 1 .. n + 1 :
                      k = n + 1 \/ e < s.expire[s.timer_head[k]]}
<1>1. s.timer_head \in Seq(Tasks) /\ n \in Nat
  BY LenProperties DEF SchedState
<1>2. n + 1 \in ends /\ ends \subseteq Nat
  BY <1>1
<1>3. PICK k \in ends : \A x \in ends : ~ (<<x, k>> \in OpToRel(<, Nat))
  <2> HIDE DEF ends
  <2> QED  BY <1>2, NatLessThanWellFounded, WFMin
<1>4. ASSUME NEW i \in 1 .. k - 1
      PROVE  s.expire[s.timer_head[i]] <= e
  <2>1. i \in Nat /\ i < k /\ i \in 1 .. n /\ k \in Nat
    BY <1>1, <1>2
  <2>2. i \notin ends
    BY <1>3, <2>1 DEF OpToRel
  <2>3. s.timer_head[i] \in Tasks
    BY <1>1, <2>1, ElementOfSeq
  <2>4. s.expire[s.timer_head[i]] \in Nat
    BY <2>3 DEF SchedState
  <2> QED  BY <1>1, <2>1, <2>2, <2>4
<1>5. k \in 1 .. n + 1 /\ (k <= n => e < s.expire[s.timer_head[k]])
  BY <1>1
<1>6. \E m \in 1 .. Len(s.timer_head) + 1 :
        /\ \A i \in 1 .. m - 1 : s.expire[s.timer_head[i]] <= e
        /\ m <= Len(s.timer_head) => e < s.expire[s.timer_head[m]]
  BY <1>4, <1>5
<1> QED  BY <1>6 DEF TimerSlot

\* Inserting a new element.
LEMMA InsertNew ==
  ASSUME NEW S, NEW list \in Seq(S), IsInjective(list),
         NEW t \in S, t \notin Range(list), NEW k \in 1 .. Len(list) + 1
  PROVE  /\ IsInjective(InsertAt(list, k, t))
         /\ Range(InsertAt(list, k, t)) = Range(list) \cup {t}
<1> DEFINE new == InsertAt(list, k, t)
<1>1. Len(list) \in Nat /\ DOMAIN list = 1 .. Len(list)
  BY LenProperties
<1>2. /\ new \in Seq(S)
      /\ Len(new) = Len(list) + 1
      /\ \A j \in 1 .. Len(list) + 1 :
           new[j] = IF j < k THEN list[j] ELSE IF j = k THEN t ELSE list[j - 1]
  <2>1. list \in Seq(S) /\ t \in S /\ k \in 1 .. Len(list) + 1
    OBVIOUS
  <2> QED  BY ONLY <2>1, InsertAtProperties
<1> HIDE DEF new
<1>3. DOMAIN new = 1 .. Len(list) + 1
  BY <1>2, LenProperties
<1>4. \A i \in 1 .. Len(list) : list[i] \in Range(list)
  BY <1>1 DEF Range
<1>5. \A m, n \in 1 .. Len(list) : list[m] = list[n] => m = n
  BY <1>1 DEF IsInjective
<1> DEFINE from(x) == IF x < k THEN x ELSE x - 1
<1>6. \A j \in 1 .. Len(list) + 1 :
        j # k => from(j) \in 1 .. Len(list) /\ new[j] = list[from(j)]
  BY <1>1, <1>2
<1>7. new[k] = t
  BY <1>1, <1>2
<1>8. IsInjective(new)
  <2> SUFFICES ASSUME NEW i \in 1 .. Len(list) + 1, NEW j \in 1 .. Len(list) + 1,
                      new[i] = new[j]
               PROVE  i = j
    BY <1>3 DEF IsInjective
  <2>1. CASE i # k /\ j # k
    <3>1. from(i) = from(j)
      BY <1>5, <1>6, <2>1
    <3> QED  BY <1>1, <2>1, <3>1
  <2>2. CASE i = k \/ j = k
    <3>1. (i # k => new[i] # t) /\ (j # k => new[j] # t)
      BY <1>4, <1>6
    <3> QED  BY <1>7, <2>2, <3>1
  <2> QED  BY <2>1, <2>2
<1>9. Range(new) = Range(list) \cup {t}
  <2>1. ASSUME NEW x \in Range(new) PROVE x \in Range(list) \cup {t}
    <3>1. PICK j \in 1 .. Len(list) + 1 : new[j] = x
      BY <1>3 DEF Range
    <3> QED  BY <1>4, <1>6, <1>7, <3>1
  <2>2. ASSUME NEW x \in Range(list) PROVE x \in Range(new)
    <3>1. PICK i \in 1 .. Len(list) : list[i] = x
      BY <1>1 DEF Range
    <3>2. CASE i < k
      <4>1. i \in 1 .. Len(list) + 1 /\ new[i] = x
        BY <1>1, <1>2, <3>1, <3>2
      <4> QED  BY <1>3, <4>1 DEF Range
    <3>3. CASE ~ (i < k)
      <4>1. /\ i + 1 \in 1 .. Len(list) + 1
            /\ ~ (i + 1 < k) /\ i + 1 # k /\ (i + 1) - 1 = i
        BY <1>1, <3>3
      <4>2. new[i + 1] = x
        BY <1>2, <3>1, <4>1
      <4> QED  BY <1>3, <4>1, <4>2 DEF Range
    <3> QED  BY <3>2, <3>3
  <2>3. t \in Range(new)
    BY <1>3, <1>7 DEF Range
  <2> QED  BY <2>1, <2>2, <2>3
<1> QED  BY <1>8, <1>9 DEF new

-----------------------------------------------------------------------------
(* The operations.  Each one first takes its task out of the structure it   *)
(* is in; Detached describes the state in between, where the status word of *)
(* t does not count.                                                        *)

Detached(s, t) ==
  /\ s \in SchedState
  /\ s.gTaskNum = Len(s.task_head)
  /\ IsInjective(s.task_head)
  /\ IsInjective(s.timer_head)
  /\ Range(s.task_head) = {u \in Tasks \ {t} : s.status[u] = SPE_TASK_QUEUE}
  /\ Range(s.timer_head) = {u \in Tasks \ {t} : s.status[u] = SPE_TASK_TIMER}
  /\ \A i, j \in DOMAIN s.timer_head :
       i < j => s.expire[s.timer_head[i]] <= s.expire[s.timer_head[j]]
  /\ \A u \in Range(s.timer_head) : s.Timeout[u] = 0

\* A task that is in neither structure is detached as it is.
LEMMA IdleDetached ==
  ASSUME NEW s, SchedInv(s), NEW t \in Tasks,
         s.status[t] \in {SPE_TASK_FREE, SPE_TASK_RUN}
  PROVE  Detached(s, t)
BY DEF SchedInv, QueueExact, TimersExact, Detached, SPE_TASK_FREE,
       SPE_TASK_RUN, SPE_TASK_QUEUE, SPE_TASK_TIMER

\* A detached task may be given either of the two idle statuses.
LEMMA SetIdleStatus ==
  ASSUME NEW s, NEW t \in Tasks, Detached(s, t),
         NEW v \in {SPE_TASK_FREE, SPE_TASK_RUN}
  PROVE  SchedInv([s EXCEPT !.status[t] = v])
<1> DEFINE r == [s EXCEPT !.status[t] = v]
<1>1. /\ r \in SchedState
      /\ r.task_head = s.task_head /\ r.timer_head = s.timer_head
      /\ r.gTaskNum = s.gTaskNum
      /\ r.expire = s.expire /\ r.Timeout = s.Timeout
      /\ r.status = [s.status EXCEPT ![t] = v]
  BY DEF Detached, SchedState, Status
<1>2. \A u \in Tasks : r.status[u] = IF u = t THEN v ELSE s.status[u]
  BY <1>1 DEF Detached, SchedState
<1> HIDE DEF r
<1>3. QueueExact(r)
  BY <1>1, <1>2 DEF Detached, QueueExact, SPE_TASK_FREE, SPE_TASK_RUN,
                    SPE_TASK_QUEUE
<1>4. TimersExact(r)
  BY <1>1, <1>2 DEF Detached, TimersExact, SPE_TASK_FREE, SPE_TASK_RUN,
                    SPE_TASK_TIMER
<1>5. SchedInv(r)
  BY <1>1, <1>3, <1>4 DEF SchedInv
<1> QED  BY <1>5 DEF r

\* A detached task may join the run queue.
LEMMA JoinQueueInv ==
  ASSUME NEW s, NEW t \in Tasks, Detached(s, t)
  PROVE  SchedInv(JoinQueue(s, t))
<1> DEFINE r == JoinQueue(s, t)
<1>1. /\ s \in SchedState /\ s.task_head \in Seq(Tasks)
      /\ s.gTaskNum \in Nat /\ s.status \in [Tasks -> Status]
      /\ t \notin Range(s.task_head)
  BY DEF Detached, SchedState
<1>2. /\ Append(s.task_head, t) \in Seq(Tasks)
      /\ Len(Append(s.task_head, t)) = Len(s.task_head) + 1
      /\ IsInjective(Append(s.task_head, t))
      /\ Range(Append(s.task_head, t)) = Range(s.task_head) \cup {t}
  BY <1>1, AppendNew DEF Detached
<1>3. /\ r \in SchedState
      /\ r.task_head = Append(s.task_head, t) /\ r.timer_head = s.timer_head
      /\ r.gTaskNum = s.gTaskNum + 1
      /\ r.expire = s.expire /\ r.Timeout = s.Timeout
      /\ r.status = [s.status EXCEPT ![t] = SPE_TASK_QUEUE]
  <2>1. r \in SchedState
    <3> DEFINE list == Append(s.task_head, t)
               n    == s.gTaskNum + 1
    <3>1. list \in Seq(Tasks) /\ n \in Nat
      BY <1>1, <1>2
    <3>2. r = [s EXCEPT !.task_head = list, !.status[t] = SPE_TASK_QUEUE,
                        !.gTaskNum = n]
      BY <1>1 DEF JoinQueue, SchedState
    <3> HIDE DEF list, n, r
    <3> QED  BY <1>1, <3>1, <3>2 DEF SchedState, Status
  <2>2. r.task_head = Append(s.task_head, t) /\ r.timer_head = s.timer_head
    BY <1>1 DEF JoinQueue, SchedState
  <2>3. r.gTaskNum = s.gTaskNum + 1
    BY <1>1 DEF JoinQueue, SchedState
  <2>4. r.expire = s.expire /\ r.Timeout = s.Timeout
    BY <1>1 DEF JoinQueue, SchedState
  <2>5. r.status = [s.status EXCEPT ![t] = SPE_TASK_QUEUE]
    BY <1>1 DEF JoinQueue, SchedState
  <2> QED  BY <2>1, <2>2, <2>3, <2>4, <2>5
<1>4. \A u \in Tasks :
        r.status[u] = IF u = t THEN SPE_TASK_QUEUE ELSE s.status[u]
  BY <1>1, <1>3
<1> HIDE DEF r
<1>5. QueueExact(r)
  BY <1>2, <1>3, <1>4 DEF Detached, QueueExact
<1>6. TimersExact(r)
  BY <1>3, <1>4 DEF Detached, TimersExact, SPE_TASK_QUEUE, SPE_TASK_TIMER
<1>7. SchedInv(r)
  BY <1>3, <1>5, <1>6 DEF SchedInv
<1> QED  BY <1>7 DEF r

\* The erase-then-set-status shape that LeaveTree and SpeTaskDequeueTimer
\* share: erasing the node of a waiting task detaches it.
LEMMA UnlinkTimerDetached ==
  ASSUME NEW s, SchedInv(s), NEW t \in Tasks, s.status[t] = SPE_TASK_TIMER
  PROVE  Detached([s EXCEPT !.timer_head = Unlink(@, t)], t)
<1> DEFINE list == Unlink(s.timer_head, t)
           r    == [s EXCEPT !.timer_head = list]
<1>1. /\ s \in SchedState /\ s.timer_head \in Seq(Tasks)
      /\ IsInjective(s.timer_head) /\ t \in Range(s.timer_head)
  BY DEF SchedInv, TimersExact, SchedState
<1>2. /\ list \in Seq(Tasks)
      /\ IsInjective(list)
      /\ Range(list) = Range(s.timer_head) \ {t}
      /\ \A j, k \in DOMAIN list :
           j < k => \E m, n \in DOMAIN s.timer_head :
                      m < n /\ list[j] = s.timer_head[m] /\ list[k] = s.timer_head[n]
  BY <1>1, UnlinkProperties
<1> HIDE DEF list
<1>3. /\ r \in SchedState
      /\ r.task_head = s.task_head /\ r.timer_head = list
      /\ r.gTaskNum = s.gTaskNum /\ r.status = s.status
      /\ r.expire = s.expire /\ r.Timeout = s.Timeout
  BY <1>1, <1>2 DEF SchedState
<1> HIDE DEF r
<1>4. Range(r.task_head) = {u \in Tasks \ {t} : r.status[u] = SPE_TASK_QUEUE}
  BY <1>3 DEF SchedInv, QueueExact, SPE_TASK_TIMER, SPE_TASK_QUEUE
<1>5. Range(r.timer_head) = {u \in Tasks \ {t} : r.status[u] = SPE_TASK_TIMER}
  BY <1>2, <1>3 DEF SchedInv, TimersExact
<1>6. \A i, j \in DOMAIN r.timer_head :
        i < j => r.expire[r.timer_head[i]] <= r.expire[r.timer_head[j]]
  BY <1>2, <1>3 DEF SchedInv, TimersExact
<1>7. \A u \in Range(r.timer_head) : r.Timeout[u] = 0
  BY <1>2, <1>3 DEF SchedInv, TimersExact
<1>8. Detached(r, t)
  BY <1>2, <1>3, <1>4, <1>5, <1>6, <1>7 DEF Detached, SchedInv, QueueExact
<1> QED  BY <1>8 DEF r, list

\* The second test of the enqueue operations detaches the task.
LEMMA LeaveTreeDetached ==
  ASSUME NEW s, SchedInv(s), NEW t \in Tasks, Accepts(s, t)
  PROVE  Detached(LeaveTree(s, t), t)
<1>1. CASE s.status[t] = SPE_TASK_TIMER
  BY <1>1, UnlinkTimerDetached DEF LeaveTree
<1>2. CASE s.status[t] # SPE_TASK_TIMER
  <2>1. s.status[t] \in {SPE_TASK_FREE, SPE_TASK_RUN}
    BY <1>2 DEF Accepts, SchedInv, SchedState, Status
  <2> QED  BY <1>2, <2>1, IdleDetached DEF LeaveTree
<1> QED  BY <1>1, <1>2

\* A detached task may join the tree under any key.
LEMMA JoinTreeInv ==
  ASSUME NEW s, NEW t \in Tasks, Detached(s, t), NEW e \in Nat
  PROVE  SchedInv(JoinTree(s, t, e))
<1> DEFINE slot == TimerSlot(s, e)
           list == InsertAt(s.timer_head, slot, t)
           r    == JoinTree(s, t, e)
<1>1. /\ s \in SchedState /\ s.timer_head \in Seq(Tasks)
      /\ s.status \in [Tasks -> Status] /\ s.expire \in [Tasks -> Nat]
      /\ s.Timeout \in [Tasks -> {0, 1}]
      /\ IsInjective(s.timer_head) /\ t \notin Range(s.timer_head)
  BY DEF Detached, SchedState
<1>2. /\ slot \in 1 .. Len(s.timer_head) + 1
      /\ \A i \in 1 .. slot - 1 : s.expire[s.timer_head[i]] <= e
      /\ slot <= Len(s.timer_head) => e < s.expire[s.timer_head[slot]]
  BY <1>1, TimerSlotProperties
<1>3. r = [s EXCEPT !.timer_head = list, !.expire[t] = e, !.Timeout[t] = 0,
                    !.status[t] = SPE_TASK_TIMER]
  BY <1>1 DEF JoinTree, SchedState
<1> HIDE DEF slot
<1>4. /\ list \in Seq(Tasks)
      /\ Len(list) = Len(s.timer_head) + 1
      /\ \A j \in 1 .. Len(s.timer_head) + 1 :
           list[j] = IF j < slot THEN s.timer_head[j]
                     ELSE IF j = slot THEN t ELSE s.timer_head[j - 1]
  <2> DEFINE old == s.timer_head
  <2>1. old \in Seq(Tasks) /\ slot \in 1 .. Len(old) + 1
    BY <1>1, <1>2
  <2> HIDE DEF old
  <2>2. /\ InsertAt(old, slot, t) \in Seq(Tasks)
        /\ Len(InsertAt(old, slot, t)) = Len(old) + 1
        /\ \A j \in 1 .. Len(old) + 1 :
             InsertAt(old, slot, t)[j] =
               IF j < slot THEN old[j] ELSE IF j = slot THEN t ELSE old[j - 1]
    BY ONLY <2>1, InsertAtProperties
  <2> QED  BY <2>2 DEF old
<1>5. IsInjective(list) /\ Range(list) = Range(s.timer_head) \cup {t}
  BY <1>1, <1>2, InsertNew
<1> HIDE DEF list, r
<1>6. r \in SchedState
  BY <1>1, <1>3, <1>4 DEF SchedState, Status
<1>7. r.task_head = s.task_head /\ r.timer_head = list /\ r.gTaskNum = s.gTaskNum
  BY <1>1, <1>3 DEF SchedState
<1>8. \A u \in Tasks :
        /\ r.status[u] = IF u = t THEN SPE_TASK_TIMER ELSE s.status[u]
        /\ r.expire[u] = IF u = t THEN e ELSE s.expire[u]
        /\ r.Timeout[u] = IF u = t THEN 0 ELSE s.Timeout[u]
  BY <1>1, <1>3 DEF SchedState
<1>9. QueueExact(r)
  BY <1>7, <1>8 DEF Detached, QueueExact, SPE_TASK_TIMER, SPE_TASK_QUEUE
<1>10. ASSUME NEW i \in DOMAIN r.timer_head, NEW j \in DOMAIN r.timer_head, i < j
       PROVE  r.expire[r.timer_head[i]] <= r.expire[r.timer_head[j]]
  <2> DEFINE n == Len(s.timer_head)
             old == s.timer_head
  <2>1. /\ n \in Nat /\ DOMAIN old = 1 .. n
        /\ i \in 1 .. n + 1 /\ j \in 1 .. n + 1
    BY <1>1, <1>4, <1>7, LenProperties
  <2>2. \A k \in 1 .. n :
          /\ old[k] \in Tasks /\ old[k] # t
          /\ r.expire[old[k]] = s.expire[old[k]]
          /\ s.expire[old[k]] \in Nat
    <3> SUFFICES ASSUME NEW k \in 1 .. n
                 PROVE  /\ old[k] \in Tasks /\ old[k] # t
                        /\ r.expire[old[k]] = s.expire[old[k]]
                        /\ s.expire[old[k]] \in Nat
      OBVIOUS
    <3>1. k \in DOMAIN old /\ old[k] \in Range(old)
      BY <2>1 DEF Range
    <3>2. old[k] \in Tasks /\ old[k] # t
      BY <1>1, <2>1, <3>1, ElementOfSeq
    <3>3. s.expire[old[k]] \in Nat
      BY <1>1, <3>2
    <3> QED  BY <1>8, <3>2, <3>3
  <2>3. \A k, l \in 1 .. n : k <= l => s.expire[old[k]] <= s.expire[old[l]]
    <3> SUFFICES ASSUME NEW k \in 1 .. n, NEW l \in 1 .. n, k <= l
                 PROVE  s.expire[old[k]] <= s.expire[old[l]]
      OBVIOUS
    <3>1. CASE k = l
      BY <2>2, <3>1
    <3>2. CASE k < l
      BY <2>1, <3>2 DEF Detached
    <3> QED  BY <3>1, <3>2
  <2>4. r.expire[t] = e
    BY <1>8
  <2> HIDE DEF n, old
  <2>5. CASE j < slot
    <3>1. i \in 1 .. n /\ j \in 1 .. n /\ i < slot
      BY <1>2, <1>10, <2>1, <2>5 DEF n
    <3>2. list[i] = old[i] /\ list[j] = old[j]
      BY <1>4, <2>1, <2>5, <3>1 DEF n, old
    <3> QED  BY <1>7, <1>10, <2>2, <2>3, <3>1, <3>2
  <2>6. CASE j = slot
    <3>1. i \in 1 .. n /\ i \in 1 .. slot - 1 /\ i < slot
      BY <1>2, <1>10, <2>1, <2>6 DEF n
    <3>2. list[i] = old[i] /\ list[j] = t
      BY <1>4, <2>1, <2>6, <3>1 DEF n, old
    <3>3. s.expire[old[i]] <= e
      BY <1>2, <3>1 DEF old
    <3> QED  BY <1>7, <2>2, <2>4, <3>1, <3>2, <3>3
  <2>7. CASE slot < j
    <3>1. j - 1 \in 1 .. n /\ slot \in 1 .. n /\ slot <= j - 1
      BY <1>2, <2>1, <2>7 DEF n
    <3>2. list[j] = old[j - 1]
      BY <1>4, <2>1, <2>7, <1>2 DEF n, old
    <3>3. CASE i < slot
      <4>1. i \in 1 .. n /\ i <= j - 1 /\ list[i] = old[i]
        BY <1>4, <1>2, <2>1, <2>7, <3>1, <3>3 DEF n, old
      <4> QED  BY <1>7, <2>2, <2>3, <3>1, <3>2, <4>1
    <3>4. CASE i = slot
      <4>1. list[i] = t
        BY <1>4, <2>1, <3>4 DEF n
      <4>2. e < s.expire[old[slot]] /\ s.expire[old[slot]] <= s.expire[old[j - 1]]
        BY <1>2, <2>3, <3>1 DEF n, old
      <4>3. e <= s.expire[old[j - 1]]
        BY <2>2, <3>1, <4>2
      <4> QED  BY <1>7, <2>2, <2>4, <3>1, <3>2, <4>1, <4>3
    <3>5. CASE slot < i
      <4>1. i - 1 \in 1 .. n /\ i - 1 <= j - 1 /\ list[i] = old[i - 1]
        BY <1>4, <1>2, <1>10, <2>1, <3>5 DEF n, old
      <4> QED  BY <1>7, <2>2, <2>3, <3>1, <3>2, <4>1
    <3> QED  BY <1>2, <2>1, <3>3, <3>4, <3>5
  <2> QED  BY <1>2, <2>1, <2>5, <2>6, <2>7
<1>11. TimersExact(r)
  <2>1. Range(r.timer_head) = {u \in Tasks : r.status[u] = SPE_TASK_TIMER}
    BY <1>5, <1>7, <1>8 DEF Detached
  <2>2. \A u \in Range(r.timer_head) : r.Timeout[u] = 0
    BY <1>5, <1>7, <1>8 DEF Detached
  <2> QED  BY <1>5, <1>7, <1>10, <2>1, <2>2 DEF TimersExact
<1>12. SchedInv(r)
  BY <1>6, <1>9, <1>11 DEF SchedInv
<1> QED  BY <1>12 DEF r

-----------------------------------------------------------------------------
(* Each operation preserves the invariant. *)

\* spe_task.c:26-35, 220-224.  The state the program starts in.
LEMMA InitInv == SchedInv(SchedInit)
<1>1. SchedInit \in SchedState
  BY EmptySeq DEF SchedInit, SchedState, Status
<1>2. /\ IsInjective(<< >>) /\ Range(<< >>) = {} /\ Len(<< >>) = 0
      /\ DOMAIN << >> = {}
  BY DEF IsInjective, Range
<1>3. QueueExact(SchedInit) /\ TimersExact(SchedInit)
  BY <1>2 DEF QueueExact, TimersExact, SchedInit, SPE_TASK_FREE,
              SPE_TASK_QUEUE, SPE_TASK_TIMER
<1> QED  BY <1>1, <1>3 DEF SchedInv

\* spe_task.c:42-54.
LEMMA EnqueueInv ==
  ASSUME NEW s, SchedInv(s), NEW t \in Tasks
  PROVE  SchedInv(SpeTaskEnqueue(s, t))
BY LeaveTreeDetached, JoinQueueInv DEF SpeTaskEnqueue

\* spe_task.c:61-69.
LEMMA DequeueInv ==
  ASSUME NEW s, SchedInv(s), NEW t \in Tasks
  PROVE  SchedInv(SpeTaskDequeue(s, t))
<1>1. CASE s.status[t] # SPE_TASK_QUEUE
  BY <1>1 DEF SpeTaskDequeue
<1>2. CASE s.status[t] = SPE_TASK_QUEUE
  <2> DEFINE list == Unlink(s.task_head, t)
             n    == s.gTaskNum - 1
             r    == [s EXCEPT !.task_head = list, !.gTaskNum = n]
  <2>1. /\ s \in SchedState /\ s.task_head \in Seq(Tasks)
        /\ IsInjective(s.task_head) /\ t \in Range(s.task_head)
        /\ s.gTaskNum = Len(s.task_head) /\ s.gTaskNum \in Nat
    BY <1>2 DEF SchedInv, QueueExact, SchedState
  <2>2. /\ list \in Seq(Tasks)
        /\ Len(list) = n
        /\ IsInjective(list)
        /\ Range(list) = Range(s.task_head) \ {t}
    BY <2>1, UnlinkProperties
  <2>3. n \in Nat
    BY <2>2, LenProperties
  <2>4. SpeTaskDequeue(s, t) = [r EXCEPT !.status[t] = SPE_TASK_FREE]
    BY <1>2, <2>1 DEF SpeTaskDequeue, SchedState
  <2> HIDE DEF list, n
  <2>5. /\ r \in SchedState
        /\ r.task_head = list /\ r.gTaskNum = n
        /\ r.timer_head = s.timer_head /\ r.status = s.status
        /\ r.expire = s.expire /\ r.Timeout = s.Timeout
    BY <2>1, <2>2, <2>3 DEF SchedState
  <2> HIDE DEF r
  <2>6. Range(r.task_head) = {u \in Tasks \ {t} : r.status[u] = SPE_TASK_QUEUE}
    BY <2>2, <2>5 DEF SchedInv, QueueExact
  <2>7. Range(r.timer_head) = {u \in Tasks \ {t} : r.status[u] = SPE_TASK_TIMER}
    BY <1>2, <2>5 DEF SchedInv, TimersExact, SPE_TASK_QUEUE, SPE_TASK_TIMER
  <2>8. Detached(r, t)
    BY <2>2, <2>5, <2>6, <2>7 DEF Detached, SchedInv, TimersExact
  <2> QED  BY <2>4, <2>8, SetIdleStatus
<1> QED  BY <1>1, <1>2

\* spe_task.c:76-100.
LEMMA EnqueueTimerInv ==
  ASSUME NEW s, SchedInv(s), NEW t \in Tasks, NEW now \in Nat, NEW ms \in Nat
  PROVE  SchedInv(SpeTaskEnqueueTimer(s, t, now, ms))
BY LeaveTreeDetached, JoinTreeInv DEF SpeTaskEnqueueTimer

\* spe_task.c:107-115.
LEMMA DequeueTimerInv ==
  ASSUME NEW s, SchedInv(s), NEW t \in Tasks
  PROVE  SchedInv(SpeTaskDequeueTimer(s, t))
<1>1. CASE s.status[t] = SPE_TASK_TIMER
  <2>1. Detached(LeaveTree(s, t), t)
    BY <1>1, UnlinkTimerDetached DEF LeaveTree
  <2> QED  BY <1>1, <2>1, SetIdleStatus DEF SpeTaskDequeueTimer
<1>2. CASE s.status[t] # SPE_TASK_TIMER
  BY <1>2 DEF SpeTaskDequeueTimer
<1> QED  BY <1>1, <1>2

\* spe_task.c:174-184, one round of the timer loop.
LEMMA FireFirstInv ==
  ASSUME NEW s, SchedInv(s), s.timer_head # << >>
  PROVE  SchedInv(FireFirst(s))
<1> DEFINE t    == Head(s.timer_head)
           list == Tail(s.timer_head)
           r    == [s EXCEPT !.timer_head = list, !.Timeout[t] = 1]
<1>1. /\ s \in SchedState /\ s.timer_head \in Seq(Tasks)
      /\ IsInjective(s.timer_head)
  BY DEF SchedInv, TimersExact, SchedState
<1>2. /\ t \in Tasks /\ t \in Range(s.timer_head)
      /\ list \in Seq(Tasks)
      /\ IsInjective(list)
      /\ Range(list) = Range(s.timer_head) \ {t}
      /\ \A i \in DOMAIN list : i + 1 \in DOMAIN s.timer_head
                              /\ list[i] = s.timer_head[i + 1]
      /\ DOMAIN list \subseteq Int
  BY <1>1, TailProperties, LenProperties
<1>3. FireFirst(s) = JoinQueue(r, t)
  BY DEF FireFirst
<1> HIDE DEF t, list
<1>4. /\ r \in SchedState
      /\ r.task_head = s.task_head /\ r.timer_head = list
      /\ r.gTaskNum = s.gTaskNum /\ r.status = s.status
      /\ r.expire = s.expire
      /\ \A u \in Tasks \ {t} : r.Timeout[u] = s.Timeout[u]
  BY <1>1, <1>2 DEF SchedState
<1> HIDE DEF r
<1>5. s.status[t] = SPE_TASK_TIMER
  BY <1>2 DEF SchedInv, TimersExact
<1>6. Range(r.task_head) = {u \in Tasks \ {t} : r.status[u] = SPE_TASK_QUEUE}
  BY <1>4, <1>5 DEF SchedInv, QueueExact, SPE_TASK_TIMER, SPE_TASK_QUEUE
<1>7. Range(r.timer_head) = {u \in Tasks \ {t} : r.status[u] = SPE_TASK_TIMER}
  BY <1>2, <1>4 DEF SchedInv, TimersExact
<1>8. \A u \in Range(r.timer_head) : r.Timeout[u] = 0
  BY <1>2, <1>4, <1>7 DEF SchedInv, TimersExact
<1>9. \A i, j \in DOMAIN r.timer_head :
        i < j => r.expire[r.timer_head[i]] <= r.expire[r.timer_head[j]]
  BY <1>2, <1>4 DEF SchedInv, TimersExact
<1>10. Detached(r, t)
  BY <1>2, <1>4, <1>6, <1>7, <1>8, <1>9 DEF Detached, SchedInv, QueueExact
<1> QED  BY <1>2, <1>3, <1>10, JoinQueueInv

\* spe_task.c:189-195, taking the first task.
LEMMA RunFirstInv ==
  ASSUME NEW s, SchedInv(s), s.gTaskNum # 0
  PROVE  /\ SchedInv(RunFirst(s))
         /\ Head(s.task_head) \in Tasks
         /\ s.status[Head(s.task_head)] = SPE_TASK_QUEUE
<1> DEFINE t    == Head(s.task_head)
           list == Tail(s.task_head)
           n    == s.gTaskNum - 1
           r    == [s EXCEPT !.task_head = list, !.gTaskNum = n]
<1>1. /\ s \in SchedState /\ s.task_head \in Seq(Tasks)
      /\ IsInjective(s.task_head) /\ s.task_head # << >>
      /\ s.gTaskNum = Len(s.task_head)
  BY EmptySeq DEF SchedInv, QueueExact, SchedState
<1>2. /\ t \in Tasks /\ t \in Range(s.task_head)
      /\ list \in Seq(Tasks)
      /\ IsInjective(list)
      /\ Len(list) = n
      /\ Range(list) = Range(s.task_head) \ {t}
  BY <1>1, TailProperties
<1>3. n \in Nat
  BY <1>2, LenProperties
<1>4. RunFirst(s) = [r EXCEPT !.status[t] = SPE_TASK_RUN]
  BY <1>1 DEF RunFirst, SchedState
<1> HIDE DEF t, list, n
<1>5. /\ r \in SchedState
      /\ r.task_head = list /\ r.gTaskNum = n
      /\ r.timer_head = s.timer_head /\ r.status = s.status
      /\ r.expire = s.expire /\ r.Timeout = s.Timeout
  BY <1>1, <1>2, <1>3 DEF SchedState
<1> HIDE DEF r
<1>6. s.status[t] = SPE_TASK_QUEUE
  BY <1>2 DEF SchedInv, QueueExact
<1>7. Range(r.task_head) = {u \in Tasks \ {t} : r.status[u] = SPE_TASK_QUEUE}
  BY <1>2, <1>5 DEF SchedInv, QueueExact
<1>8. Range(r.timer_head) = {u \in Tasks \ {t} : r.status[u] = SPE_TASK_TIMER}
  BY <1>5, <1>6 DEF SchedInv, TimersExact, SPE_TASK_QUEUE, SPE_TASK_TIMER
<1>9. Detached(r, t)
  BY <1>2, <1>5, <1>7, <1>8 DEF Detached, SchedInv, TimersExact
<1>10. SchedInv(RunFirst(s))
  <2>1. t \in Tasks
    BY <1>2
  <2>2. SchedInv([r EXCEPT !.status[t] = SPE_TASK_RUN])
    BY <1>9, <2>1, SetIdleStatus
  <2> QED  BY <1>4, <2>2
<1> QED  BY <1>2, <1>6, <1>10 DEF t

\* spe_task.c:198, the status write after the handler.
LEMMA ReleaseInv ==
  ASSUME NEW s, SchedInv(s), NEW t \in Tasks, s.status[t] = SPE_TASK_RUN
  PROVE  SchedInv(Release(s, t))
BY IdleDetached, SetIdleStatus DEF Release

-----------------------------------------------------------------------------
(* What each operation changes, apart from the shape of the tree. *)

\* What SpeTaskEnqueue changes: one status word and the end of the list.
LEMMA EnqueueEffect ==
  ASSUME NEW s \in SchedState, NEW t \in Tasks
  PROVE  LET r == SpeTaskEnqueue(s, t)
         IN  IF Accepts(s, t)
             THEN /\ r.status = [s.status EXCEPT ![t] = SPE_TASK_QUEUE]
                  /\ r.expire = s.expire /\ r.Timeout = s.Timeout
                  /\ r.task_head = Append(s.task_head, t)
             ELSE r = s
<1>1. CASE Accepts(s, t)
  <2> DEFINE l == LeaveTree(s, t)
             r == SpeTaskEnqueue(s, t)
  <2>1. r = JoinQueue(l, t)
    BY <1>1 DEF SpeTaskEnqueue
  <2>2. /\ DOMAIN l = DOMAIN s
        /\ l.status = s.status /\ l.task_head = s.task_head
        /\ l.expire = s.expire /\ l.Timeout = s.Timeout
    BY DEF LeaveTree, SchedState
  <2>3. DOMAIN s = {"status", "expire", "Timeout", "task_head", "timer_head",
                    "gTaskNum"}
    BY DEF SchedState
  <2> HIDE DEF l
  <2>4. /\ r.status = [l.status EXCEPT ![t] = SPE_TASK_QUEUE]
        /\ r.expire = l.expire /\ r.Timeout = l.Timeout
        /\ r.task_head = Append(l.task_head, t)
    BY <2>1, <2>2, <2>3 DEF JoinQueue
  <2> QED  BY <1>1, <2>2, <2>4
<1>2. CASE ~ Accepts(s, t)
  BY <1>2 DEF SpeTaskEnqueue
<1> QED  BY <1>1, <1>2

\* What SpeTaskDequeue changes: one status word and its place in the list.
LEMMA DequeueEffect ==
  ASSUME NEW s \in SchedState, NEW t \in Tasks
  PROVE  LET r == SpeTaskDequeue(s, t)
         IN  IF s.status[t] = SPE_TASK_QUEUE
             THEN /\ r.status = [s.status EXCEPT ![t] = SPE_TASK_FREE]
                  /\ r.expire = s.expire /\ r.Timeout = s.Timeout
                  /\ r.task_head = Unlink(s.task_head, t)
             ELSE r = s
BY DEF SpeTaskDequeue, SchedState

\* What SpeTaskEnqueueTimer changes beside the tree.
LEMMA EnqueueTimerEffect ==
  ASSUME NEW s \in SchedState, NEW t \in Tasks, NEW now, NEW ms
  PROVE  LET r == SpeTaskEnqueueTimer(s, t, now, ms)
         IN  IF Accepts(s, t)
             THEN /\ r.status = [s.status EXCEPT ![t] = SPE_TASK_TIMER]
                  /\ r.expire = [s.expire EXCEPT ![t] = now + ms]
                  /\ r.Timeout = [s.Timeout EXCEPT ![t] = 0]
                  /\ r.task_head = s.task_head
             ELSE r = s
<1>1. CASE Accepts(s, t)
  <2> DEFINE l == LeaveTree(s, t)
             r == SpeTaskEnqueueTimer(s, t, now, ms)
  <2>1. r = JoinTree(l, t, now + ms)
    BY <1>1 DEF SpeTaskEnqueueTimer
  <2>2. /\ DOMAIN l = DOMAIN s
        /\ l.status = s.status /\ l.task_head = s.task_head
        /\ l.expire = s.expire /\ l.Timeout = s.Timeout
    BY DEF LeaveTree, SchedState
  <2>3. DOMAIN s = {"status", "expire", "Timeout", "task_head", "timer_head",
                    "gTaskNum"}
    BY DEF SchedState
  <2> HIDE DEF l
  <2>4. /\ r.status = [l.status EXCEPT ![t] = SPE_TASK_TIMER]
        /\ r.expire = [l.expire EXCEPT ![t] = now + ms]
        /\ r.Timeout = [l.Timeout EXCEPT ![t] = 0]
        /\ r.task_head = l.task_head
    BY <2>1, <2>2, <2>3 DEF JoinTree
  <2> QED  BY <1>1, <2>2, <2>4
<1>2. CASE ~ Accepts(s, t)
  BY <1>2 DEF SpeTaskEnqueueTimer
<1> QED  BY <1>1, <1>2

\* What SpeTaskDequeueTimer changes beside the tree.
LEMMA DequeueTimerEffect ==
  ASSUME NEW s \in SchedState, NEW t \in Tasks
  PROVE  LET r == SpeTaskDequeueTimer(s, t)
         IN  IF s.status[t] = SPE_TASK_TIMER
             THEN /\ r.status = [s.status EXCEPT ![t] = SPE_TASK_FREE]
                  /\ r.expire = s.expire /\ r.Timeout = s.Timeout
                  /\ r.task_head = s.task_head
             ELSE r = s
BY DEF SpeTaskDequeueTimer, LeaveTree, SchedState

\* The timer loop marks the first timer as timed out and queues it.
LEMMA FireFirstEffect ==
  ASSUME NEW s \in SchedState
  PROVE  LET t == Head(s.timer_head)
             r == FireFirst(s)
         IN  /\ r.status = [s.status EXCEPT ![t] = SPE_TASK_QUEUE]
             /\ r.expire = s.expire
             /\ r.Timeout = [s.Timeout EXCEPT ![t] = 1]
             /\ r.task_head = Append(s.task_head, t)
<1> DEFINE t == Head(s.timer_head)
           l == [s EXCEPT !.timer_head = Tail(@), !.Timeout[t] = 1]
<1>1. FireFirst(s) = JoinQueue(l, t)
  BY DEF FireFirst
<1>2. /\ l.status = s.status /\ l.task_head = s.task_head
      /\ l.expire = s.expire /\ l.Timeout = [s.Timeout EXCEPT ![t] = 1]
  BY DEF SchedState
<1>3. DOMAIN l = {"status", "expire", "Timeout", "task_head", "timer_head",
                  "gTaskNum"}
  BY DEF SchedState
<1> HIDE DEF l, t
<1>4. /\ FireFirst(s).status = [l.status EXCEPT ![t] = SPE_TASK_QUEUE]
      /\ FireFirst(s).expire = l.expire
      /\ FireFirst(s).Timeout = l.Timeout
      /\ FireFirst(s).task_head = Append(l.task_head, t)
  BY <1>1, <1>3 DEF JoinQueue
<1>5. /\ FireFirst(s).status = [s.status EXCEPT ![t] = SPE_TASK_QUEUE]
      /\ FireFirst(s).expire = s.expire
      /\ FireFirst(s).Timeout = [s.Timeout EXCEPT ![t] = 1]
      /\ FireFirst(s).task_head = Append(s.task_head, t)
  BY <1>2, <1>4
<1> QED  BY <1>5 DEF t

\* The run loop takes the head of the list.
LEMMA RunFirstEffect ==
  ASSUME NEW s \in SchedState
  PROVE  LET t == Head(s.task_head)
             r == RunFirst(s)
         IN  /\ r.status = [s.status EXCEPT ![t] = SPE_TASK_RUN]
             /\ r.expire = s.expire /\ r.Timeout = s.Timeout
             /\ r.task_head = Tail(s.task_head)
BY DEF RunFirst, SchedState

\* A task whose handler has returned is free.
LEMMA ReleaseEffect ==
  ASSUME NEW s \in SchedState, NEW t \in Tasks
  PROVE  LET r == Release(s, t)
         IN  /\ r.status = [s.status EXCEPT ![t] = SPE_TASK_FREE]
             /\ r.expire = s.expire /\ r.Timeout = s.Timeout
             /\ r.task_head = s.task_head
BY DEF Release, SchedState

-----------------------------------------------------------------------------
(* SpeTask *)

\* The parts of IInv, for the steps that need each by itself.
LEMMA IInvParts ==
  IInv <=> /\ SchedInv(sched)
           /\ clock \in Nat
           /\ curr_time \in Nat
           /\ running \in Tasks \cup {NoTask}
           /\ pc \in {"poll", "timers", "run", "handler"}
           /\ OneRuns
           /\ curr_time <= clock
BY DEF IInv, TypeOK, QueueConsistent, TimersConsistent, SchedInv,
       SampleIsPast

\* The same parts after the step.
LEMMA IInvPartsNext ==
  IInv' <=> /\ SchedInv(sched')
            /\ clock' \in Nat
            /\ curr_time' \in Nat
            /\ running' \in Tasks \cup {NoTask}
            /\ pc' \in {"poll", "timers", "run", "handler"}
            /\ OneRuns'
            /\ curr_time' <= clock'
BY DEF IInv, TypeOK, QueueConsistent, TimersConsistent, SchedInv,
       SampleIsPast

\* At the start nothing is queued, armed or running.
LEMMA InitEstablishes == Init => IInv
<1> SUFFICES ASSUME Init PROVE IInv
  OBVIOUS
<1>1. SchedInv(sched)
  BY InitInv DEF Init
<1>2. OneRuns
  BY NoTaskAssumption DEF Init, OneRuns, SchedInit, SPE_TASK_FREE, SPE_TASK_RUN
<1> QED  BY <1>1, <1>2, IInvParts DEF Init

\* A caller's operation that keeps the scheduler state consistent and moves
\* no task to or from RUN keeps the invariant.
LEMMA CallPreserves ==
  ASSUME IInv, SchedInv(sched'), UNCHANGED <<clock, curr_time, running, pc>>,
         \A u \in Tasks : sched'.status[u] = SPE_TASK_RUN
                            <=> sched.status[u] = SPE_TASK_RUN
  PROVE  IInv'
BY IInvParts, IInvPartsNext DEF OneRuns

\* Every step of the callers, of taskProcess and of the clock keeps IInv.
LEMMA NextPreserves == IInv /\ [Next]_vars => IInv'
<1> SUFFICES ASSUME IInv, [Next]_vars PROVE IInv'
  OBVIOUS
<1> USE DEF SPE_TASK_FREE, SPE_TASK_TIMER, SPE_TASK_QUEUE, SPE_TASK_RUN
<1>0. /\ SchedInv(sched) /\ sched \in SchedState
      /\ sched.status \in [Tasks -> Status]
  BY IInvParts DEF SchedInv, SchedState
<1>1. ASSUME NEW t \in Tasks, CallEnqueue(t) PROVE IInv'
  <2>1. SchedInv(sched')
    BY <1>0, <1>1, EnqueueInv DEF CallEnqueue
  <2>2. \A u \in Tasks : sched'.status[u] = SPE_TASK_RUN
                           <=> sched.status[u] = SPE_TASK_RUN
    BY <1>0, <1>1, EnqueueEffect DEF CallEnqueue, Accepts
  <2> QED  BY <1>1, <2>1, <2>2, CallPreserves DEF CallEnqueue
<1>2. ASSUME NEW t \in Tasks, CallDequeue(t) PROVE IInv'
  <2>1. SchedInv(sched')
    BY <1>0, <1>2, DequeueInv DEF CallDequeue
  <2>2. \A u \in Tasks : sched'.status[u] = SPE_TASK_RUN
                           <=> sched.status[u] = SPE_TASK_RUN
    BY <1>0, <1>2, DequeueEffect DEF CallDequeue
  <2> QED  BY <1>2, <2>1, <2>2, CallPreserves DEF CallDequeue
<1>3. ASSUME NEW t \in Tasks, NEW ms \in Delays, CallEnqueueTimer(t, ms)
      PROVE  IInv'
  <2>1. clock \in Nat /\ ms \in Nat
    BY DelaysAssumption, IInvParts
  <2>2. SchedInv(sched')
    BY <1>0, <1>3, <2>1, EnqueueTimerInv DEF CallEnqueueTimer
  <2>3. \A u \in Tasks : sched'.status[u] = SPE_TASK_RUN
                           <=> sched.status[u] = SPE_TASK_RUN
    <3>1. IF Accepts(sched, t)
          THEN sched'.status = [sched.status EXCEPT ![t] = SPE_TASK_TIMER]
          ELSE sched' = sched
      BY <1>0, <1>3, EnqueueTimerEffect DEF CallEnqueueTimer
    <3> QED  BY <1>0, <3>1 DEF Accepts
  <2> QED  BY <1>3, <2>2, <2>3, CallPreserves DEF CallEnqueueTimer
<1>4. ASSUME NEW t \in Tasks, CallDequeueTimer(t) PROVE IInv'
  <2>1. SchedInv(sched')
    BY <1>0, <1>4, DequeueTimerInv DEF CallDequeueTimer
  <2>2. \A u \in Tasks : sched'.status[u] = SPE_TASK_RUN
                           <=> sched.status[u] = SPE_TASK_RUN
    BY <1>0, <1>4, DequeueTimerEffect DEF CallDequeueTimer
  <2> QED  BY <1>4, <2>1, <2>2, CallPreserves DEF CallDequeueTimer
<1>5. CASE BeginTaskProcess
  BY <1>5, IInvParts, IInvPartsNext DEF BeginTaskProcess, OneRuns
<1>6. CASE FireTimer
  <2>1. SchedInv(sched')
    BY <1>0, <1>6, FireFirstInv DEF FireTimer, TimerDue
  <2>2. Head(sched.timer_head) \in Tasks
        /\ sched.status[Head(sched.timer_head)] = SPE_TASK_TIMER
    BY <1>0, <1>6, TailProperties
       DEF FireTimer, TimerDue, SchedInv, TimersExact, SchedState
  <2>3. \A u \in Tasks : sched'.status[u] = SPE_TASK_RUN
                           <=> sched.status[u] = SPE_TASK_RUN
    BY <1>0, <1>6, <2>2, FireFirstEffect DEF FireTimer
  <2> QED  BY <1>6, <2>1, <2>3, CallPreserves DEF FireTimer
<1>7. CASE TimersDone
  BY <1>7, IInvParts, IInvPartsNext DEF TimersDone, OneRuns
<1>8. CASE RunTask
  <2>1. /\ SchedInv(sched')
        /\ running' \in Tasks
        /\ sched'.status = [sched.status EXCEPT ![running'] = SPE_TASK_RUN]
    BY <1>0, <1>8, RunFirstInv, RunFirstEffect DEF RunTask
  <2>2. running = NoTask /\ \A u \in Tasks : sched.status[u] # SPE_TASK_RUN
    BY <1>8, NoTaskAssumption, IInvParts DEF RunTask, OneRuns
  <2>3. OneRuns'
    BY <1>0, <1>8, <2>1, <2>2, NoTaskAssumption DEF RunTask, OneRuns
  <2> QED  BY <1>8, <2>1, <2>3, IInvParts, IInvPartsNext DEF RunTask
<1>9. CASE HandlerReturn
  <2>1. running \in Tasks /\ sched.status[running] = SPE_TASK_RUN
    BY <1>9, IInvParts DEF HandlerReturn, OneRuns
  <2>2. /\ SchedInv(sched')
        /\ sched'.status = [sched.status EXCEPT ![running] = SPE_TASK_FREE]
    BY <1>0, <1>9, <2>1, ReleaseInv, ReleaseEffect DEF HandlerReturn
  <2>3. OneRuns'
    BY <1>0, <1>9, <2>2, NoTaskAssumption, IInvParts DEF HandlerReturn, OneRuns
  <2> QED  BY <1>9, <2>2, <2>3, IInvParts, IInvPartsNext DEF HandlerReturn
<1>10. CASE EndTaskProcess
  BY <1>10, IInvParts, IInvPartsNext DEF EndTaskProcess, OneRuns
<1>11. CASE Tick
  BY <1>11, IInvParts, IInvPartsNext DEF Tick, OneRuns
<1>12. CASE UNCHANGED vars
  BY <1>12, IInvParts, IInvPartsNext DEF vars, OneRuns
<1> QED
  BY <1>1, <1>2, <1>3, <1>4, <1>5, <1>6, <1>7, <1>8, <1>9, <1>10, <1>11, <1>12
     DEF Next, Calls, Loop

-----------------------------------------------------------------------------
(* spe_task.c:42-218.  In every reachable state the run queue, the timer    *)
(* tree, the status words and gTaskNum agree, and only the task whose       *)
(* handler is on the stack has status RUN.                                  *)
THEOREM Invariance == Spec => []IInv
<1>1. Init => IInv
  BY InitEstablishes
<1>2. IInv /\ [Next]_vars => IInv'
  BY NextPreserves
<1> QED  BY <1>1, <1>2, PTL DEF Spec

\* The state keeps its type.
THEOREM TypeCorrect == Spec => []TypeOK
<1>1. IInv => TypeOK
  BY DEF IInv
<1> QED  BY <1>1, Invariance, PTL

\* spe_task.c:187-199.  The run loop never meets an empty list while gTaskNum
\* is not zero, and never a task whose status is not QUEUE.
THEOREM QueueIsConsistent == Spec => []QueueConsistent
<1>1. IInv => QueueConsistent
  BY DEF IInv
<1> QED  BY <1>1, Invariance, PTL

\* spe_task.c:168-186.  The tree is sorted and holds exactly the armed tasks.
THEOREM TimersAreConsistent == Spec => []TimersConsistent
<1>1. IInv => TimersConsistent
  BY DEF IInv
<1> QED  BY <1>1, Invariance, PTL

\* spe_task.c:195-198.  No handler is re-entered.
THEOREM OneTaskRuns == Spec => []OneRuns
<1>1. IInv => OneRuns
  BY DEF IInv
<1> QED  BY <1>1, Invariance, PTL

-----------------------------------------------------------------------------
(* Steps *)

\* The first task of the walk order is armed, and no armed task is due before.
LEMMA FirstTimerIsEarliest ==
  ASSUME NEW s, SchedInv(s), s.timer_head # << >>
  PROVE  LET t == Head(s.timer_head)
         IN  /\ t \in Tasks
             /\ s.status[t] = SPE_TASK_TIMER
             /\ \A u \in Tasks :
                  s.status[u] = SPE_TASK_TIMER => s.expire[t] <= s.expire[u]
<1> DEFINE list == s.timer_head
           t    == Head(list)
<1>1. /\ list \in Seq(Tasks) /\ IsInjective(list)
      /\ s.expire \in [Tasks -> Nat]
      /\ Range(list) = {u \in Tasks : s.status[u] = SPE_TASK_TIMER}
      /\ \A i, j \in DOMAIN list :
           i < j => s.expire[list[i]] <= s.expire[list[j]]
  BY DEF SchedInv, TimersExact, SchedState
<1>2. t \in Tasks /\ t \in Range(list)
  BY <1>1, TailProperties
<1>3. /\ t = list[1]
      /\ DOMAIN list = 1 .. Len(list) /\ Len(list) \in Nat \ {0}
  BY <1>1, EmptySeq, LenProperties
<1> HIDE DEF t, list
<1>4. ASSUME NEW u \in Tasks, s.status[u] = SPE_TASK_TIMER
      PROVE  s.expire[t] <= s.expire[u]
  <2>1. u \in Range(list)
    BY <1>1, <1>4
  <2>2. PICK i \in DOMAIN list : list[i] = u
    BY <2>1 DEF Range
  <2>3. CASE i = 1
    BY <1>1, <1>2, <1>3, <2>2, <2>3
  <2>4. CASE i # 1
    <3>1. 1 \in DOMAIN list /\ 1 < i
      BY <1>3, <2>2, <2>4
    <3> QED  BY <1>1, <1>3, <2>2, <3>1
  <2> QED  BY <2>3, <2>4
<1>5. s.status[t] = SPE_TASK_TIMER
  BY <1>1, <1>2
<1> QED  BY <1>2, <1>4, <1>5 DEF t, list

\* The step that TimeoutIsDue speaks of.
DueStep ==
  \A t \in Tasks :
    sched.Timeout[t] = 0 /\ sched'.Timeout[t] = 1 =>
      /\ sched.status[t] = SPE_TASK_TIMER
      /\ sched.expire[t] <= clock
      /\ \A u \in Tasks :
           sched.status[u] = SPE_TASK_TIMER => sched.expire[t] <= sched.expire[u]

\* A step that marks a task as timed out takes the first timer, which is due.
LEMMA NextDue == IInv /\ [Next]_vars => DueStep
<1> SUFFICES ASSUME IInv, [Next]_vars PROVE DueStep
  OBVIOUS
<1>0. /\ SchedInv(sched) /\ sched \in SchedState
      /\ sched.Timeout \in [Tasks -> {0, 1}]
  BY IInvParts DEF SchedInv, SchedState
<1>1. ASSUME NEW t \in Tasks, CallEnqueue(t) PROVE DueStep
  <2>1. sched'.Timeout = sched.Timeout
    BY <1>0, <1>1, EnqueueEffect DEF CallEnqueue
  <2> QED  BY <2>1 DEF DueStep
<1>2. ASSUME NEW t \in Tasks, CallDequeue(t) PROVE DueStep
  <2>1. sched'.Timeout = sched.Timeout
    BY <1>0, <1>2, DequeueEffect DEF CallDequeue
  <2> QED  BY <2>1 DEF DueStep
<1>3. ASSUME NEW t \in Tasks, NEW ms \in Delays, CallEnqueueTimer(t, ms)
      PROVE  DueStep
  <2>1. IF Accepts(sched, t)
        THEN sched'.Timeout = [sched.Timeout EXCEPT ![t] = 0]
        ELSE sched' = sched
    BY <1>0, <1>3, EnqueueTimerEffect DEF CallEnqueueTimer
  <2> QED  BY <1>0, <2>1 DEF DueStep
<1>4. ASSUME NEW t \in Tasks, CallDequeueTimer(t) PROVE DueStep
  <2>1. sched'.Timeout = sched.Timeout
    BY <1>0, <1>4, DequeueTimerEffect DEF CallDequeueTimer
  <2> QED  BY <2>1 DEF DueStep
<1>5. CASE FireTimer
  <2> DEFINE f == Head(sched.timer_head)
  <2>1. /\ sched.timer_head # << >>
        /\ sched.expire[f] <= curr_time
        /\ sched'.Timeout = [sched.Timeout EXCEPT ![f] = 1]
    BY <1>0, <1>5, FireFirstEffect DEF FireTimer, TimerDue
  <2>2. /\ f \in Tasks
        /\ sched.status[f] = SPE_TASK_TIMER
        /\ \A u \in Tasks :
             sched.status[u] = SPE_TASK_TIMER => sched.expire[f] <= sched.expire[u]
    BY <1>0, <2>1, FirstTimerIsEarliest
  <2> HIDE DEF f
  <2>3. sched.expire[f] \in Nat /\ sched.expire[f] <= clock
    BY <1>0, <2>1, <2>2, IInvParts DEF SchedState
  <2>4. \A t \in Tasks :
          sched.Timeout[t] = 0 /\ sched'.Timeout[t] = 1 => t = f
    BY <1>0, <2>1
  <2> QED  BY <2>2, <2>3, <2>4 DEF DueStep
<1>6. CASE RunTask
  <2>1. sched'.Timeout = sched.Timeout
    BY <1>0, <1>6, RunFirstEffect DEF RunTask
  <2> QED  BY <2>1 DEF DueStep
<1>7. CASE HandlerReturn
  <2>1. running \in Tasks
    BY <1>7, IInvParts DEF HandlerReturn, OneRuns
  <2>2. sched'.Timeout = sched.Timeout
    BY <1>0, <1>7, <2>1, ReleaseEffect DEF HandlerReturn
  <2> QED  BY <2>2 DEF DueStep
<1>8. CASE BeginTaskProcess \/ TimersDone \/ EndTaskProcess \/ Tick \/ UNCHANGED vars
  BY <1>8 DEF BeginTaskProcess, TimersDone, EndTaskProcess, Tick, vars, DueStep
<1> QED
  BY <1>1, <1>2, <1>3, <1>4, <1>5, <1>6, <1>7, <1>8 DEF Next, Calls, Loop

\* spe_task.c:172-185.  Only the expiry of its own timer marks a task as timed
\* out, in the order of the expiry times.
THEOREM TimeoutsAreDue == Spec => TimeoutIsDue
<1>1. IInv /\ [Next]_vars => DueStep
  BY NextDue
<1>2. [][DueStep]_vars => TimeoutIsDue
  BY PTL DEF TimeoutIsDue, DueStep
<1> QED  BY <1>1, <1>2, Invariance, PTL DEF Spec

\* The step that NoDueTimerLeft speaks of.
LEMMA NextLeavesNoneDue ==
  IInv /\ [Next]_vars =>
    ((pc \in {"poll", "timers"} /\ pc' = "run") =>
       \A t \in Tasks :
         sched.status[t] = SPE_TASK_TIMER => sched.expire[t] > curr_time)
<1> SUFFICES ASSUME IInv, [Next]_vars, pc \in {"poll", "timers"}, pc' = "run",
                    NEW t \in Tasks, sched.status[t] = SPE_TASK_TIMER
             PROVE  sched.expire[t] > curr_time
  OBVIOUS
<1>0. /\ SchedInv(sched) /\ sched.timer_head \in Seq(Tasks)
      /\ sched.expire \in [Tasks -> Nat] /\ curr_time \in Nat
      /\ t \in Range(sched.timer_head)
  BY IInvParts DEF SchedInv, SchedState, TimersExact
<1>1. sched.timer_head # << >>
  BY <1>0, EmptySeq DEF Range
<1>2. TimersDone
  BY <1>1 DEF Next, Calls, Loop, CallEnqueue, CallDequeue, CallEnqueueTimer,
              CallDequeueTimer, BeginTaskProcess, FireTimer, TimersDone, RunTask,
              HandlerReturn, EndTaskProcess, Tick, vars
<1>3. /\ Head(sched.timer_head) \in Tasks
      /\ sched.expire[Head(sched.timer_head)] <= sched.expire[t]
      /\ ~ (sched.expire[Head(sched.timer_head)] <= curr_time)
  BY <1>0, <1>1, <1>2, FirstTimerIsEarliest DEF TimersDone, TimerDue
<1> QED  BY <1>0, <1>3

\* spe_task.c:172-186.  Looking at the first task of the tree is enough: when
\* the timer loop ends, no armed task is due.
THEOREM TimerLoopIsComplete == Spec => NoDueTimerLeft
<1> DEFINE step ==
      (pc \in {"poll", "timers"} /\ pc' = "run") =>
         \A t \in Tasks :
           sched.status[t] = SPE_TASK_TIMER => sched.expire[t] > curr_time
<1>1. IInv /\ [Next]_vars => step
  BY NextLeavesNoneDue
<1>2. [][step]_vars => NoDueTimerLeft
  BY PTL DEF NoDueTimerLeft
<1> QED  BY <1>1, <1>2, Invariance, PTL DEF Spec

-----------------------------------------------------------------------------
(* Refinement *)

\* The alarms of the abstract scheduler, as the mapping defines them.
Alarms == [t \in Tasks |-> IF sched.status[t] = SPE_TASK_TIMER
                           THEN sched.expire[t] ELSE Never]

\* The empty scheduler is the empty line without alarms.
LEMMA InitImplements == Init => Lifecycle!Init
BY DEF Init, SchedInit, Lifecycle!Init, SPE_TASK_FREE, SPE_TASK_TIMER

\* A task that may be enqueued is idle for the abstract scheduler.
LEMMA AcceptedIsIdle ==
  ASSUME IInv, NEW t \in Tasks, Accepts(sched, t)
  PROVE  Lifecycle!Idle(t)
<1>1. t # running
  BY IInvParts DEF OneRuns, Accepts
<1>2. t \notin Range(sched.task_head)
  BY IInvParts DEF SchedInv, QueueExact, Accepts
<1>3. t \notin ToSet(sched.task_head)
  BY <1>2 DEF ToSet, Range
<1> QED  BY <1>1, <1>3 DEF Lifecycle!Idle, Lifecycle!ToSet, ToSet

\* Every step is one of TaskLifecycle, or a stutter.
LEMMA NextImplements ==
  IInv /\ IInv' /\ [Next]_vars => [Lifecycle!Next]_(Lifecycle!vars)
<1> SUFFICES ASSUME IInv, IInv', [Next]_vars
             PROVE  [Lifecycle!Next]_(Lifecycle!vars)
  OBVIOUS
<1>0. /\ SchedInv(sched) /\ sched \in SchedState
      /\ sched.status \in [Tasks -> Status] /\ sched.expire \in [Tasks -> Nat]
      /\ sched.task_head \in Seq(Tasks)
      /\ clock \in Nat /\ clock' \in Nat
  BY IInvParts, IInvPartsNext DEF SchedInv, SchedState
<1>a. SUFFICES \/ Lifecycle!Next
               \/ /\ sched'.task_head = sched.task_head /\ Alarms' = Alarms
                  /\ running' = running /\ clock' = clock
  BY <1>a DEF Lifecycle!vars, Alarms
<1> USE DEF SPE_TASK_FREE, SPE_TASK_TIMER, SPE_TASK_QUEUE, SPE_TASK_RUN
<1>1. ASSUME NEW t \in Tasks, CallEnqueue(t), Accepts(sched, t)
      PROVE  Lifecycle!Submit(t)
  <2>1. /\ sched'.status = [sched.status EXCEPT ![t] = SPE_TASK_QUEUE]
        /\ sched'.expire = sched.expire
        /\ sched'.task_head = Append(sched.task_head, t)
    BY <1>0, <1>1, EnqueueEffect DEF CallEnqueue
  <2>2. Alarms' = [Alarms EXCEPT ![t] = Never]
    BY <1>0, <2>1 DEF Alarms
  <2> QED  BY <1>1, <2>1, <2>2, AcceptedIsIdle
           DEF Lifecycle!Submit, CallEnqueue, Alarms
<1>2. ASSUME NEW t \in Tasks, CallDequeue(t), sched.status[t] = SPE_TASK_QUEUE
      PROVE  Lifecycle!Withdraw(t)
  <2>1. /\ sched'.status = [sched.status EXCEPT ![t] = SPE_TASK_FREE]
        /\ sched'.expire = sched.expire
        /\ sched'.task_head = Unlink(sched.task_head, t)
    BY <1>0, <1>2, DequeueEffect DEF CallDequeue
  <2>2. Alarms' = Alarms
    BY <1>0, <1>2, <2>1 DEF Alarms
  <2>3. t \in Range(sched.task_head)
    BY <1>0, <1>2 DEF SchedInv, QueueExact
  <2>4. \E i \in DOMAIN sched.task_head :
          /\ sched.task_head[i] = t
          /\ sched'.task_head = RemoveAt(sched.task_head, i)
    BY <2>1, <2>3 DEF Unlink, Range
  <2> QED  BY <1>2, <2>2, <2>4
           DEF Lifecycle!Withdraw, CallDequeue, Alarms, Lifecycle!RemoveAt, RemoveAt
<1>3. ASSUME NEW t \in Tasks, NEW ms \in Delays, CallEnqueueTimer(t, ms),
             Accepts(sched, t)
      PROVE  Lifecycle!SetAlarm(t)
  <2>1. /\ sched'.status = [sched.status EXCEPT ![t] = SPE_TASK_TIMER]
        /\ sched'.expire = [sched.expire EXCEPT ![t] = clock + ms]
        /\ sched'.task_head = sched.task_head
    BY <1>0, <1>3, EnqueueTimerEffect DEF CallEnqueueTimer
  <2>2. /\ Alarms' = [Alarms EXCEPT ![t] = clock + ms]
        /\ Alarms'[t] = clock + ms
    BY <1>0, <2>1 DEF Alarms
  <2>3. clock + ms \in Nat /\ clock + ms >= clock
    BY <1>0, DelaysAssumption
  <2> QED  BY <1>3, <2>1, <2>2, <2>3, AcceptedIsIdle
           DEF Lifecycle!SetAlarm, CallEnqueueTimer, Alarms
<1>4. ASSUME NEW t \in Tasks, CallDequeueTimer(t), sched.status[t] = SPE_TASK_TIMER
      PROVE  Lifecycle!ClearAlarm(t)
  <2>1. /\ sched'.status = [sched.status EXCEPT ![t] = SPE_TASK_FREE]
        /\ sched'.expire = sched.expire
        /\ sched'.task_head = sched.task_head
    BY <1>0, <1>4, DequeueTimerEffect DEF CallDequeueTimer
  <2>2. Alarms' = [Alarms EXCEPT ![t] = Never]
    BY <1>0, <2>1 DEF Alarms
  <2> QED  BY <1>4, <2>1, <2>2 DEF Lifecycle!ClearAlarm, CallDequeueTimer, Alarms
<1>5. ASSUME FireTimer, NEW t \in Tasks, t = Head(sched.timer_head)
      PROVE  Lifecycle!Ring(t)
  <2>1. /\ sched.timer_head # << >> /\ sched.expire[t] <= curr_time
        /\ sched'.status = [sched.status EXCEPT ![t] = SPE_TASK_QUEUE]
        /\ sched'.expire = sched.expire
        /\ sched'.task_head = Append(sched.task_head, t)
    BY <1>0, <1>5, FireFirstEffect DEF FireTimer, TimerDue
  <2>2. /\ sched.status[t] = SPE_TASK_TIMER
        /\ \A u \in Tasks :
             sched.status[u] = SPE_TASK_TIMER => sched.expire[t] <= sched.expire[u]
    BY <1>0, <1>5, <2>1, FirstTimerIsEarliest
  <2>3. /\ Alarms[t] = sched.expire[t] /\ Alarms[t] # Never
        /\ Alarms[t] <= clock
    BY <1>0, <2>1, <2>2, NeverAssumption, IInvParts DEF Alarms
  <2>4. \A u \in Tasks : Alarms[u] # Never => Alarms[t] <= Alarms[u]
    BY <2>2, <2>3 DEF Alarms
  <2>5. Alarms' = [Alarms EXCEPT ![t] = Never]
    BY <1>0, <2>1, <2>2 DEF Alarms
  <2> QED
    BY <1>5, <2>1, <2>3, <2>4, <2>5 DEF Lifecycle!Ring, FireTimer, Alarms
<1>6. ASSUME RunTask PROVE Lifecycle!Start
  <2>1. /\ sched.status[Head(sched.task_head)] = SPE_TASK_QUEUE
        /\ sched'.status =
             [sched.status EXCEPT ![Head(sched.task_head)] = SPE_TASK_RUN]
        /\ sched'.expire = sched.expire
        /\ sched'.task_head = Tail(sched.task_head)
    BY <1>0, <1>6, RunFirstInv, RunFirstEffect DEF RunTask
  <2>2. Alarms' = Alarms
    BY <1>0, <2>1 DEF Alarms
  <2>3. running = NoTask /\ sched.task_head # << >>
    BY <1>6, EmptySeq, IInvParts DEF RunTask, OneRuns, SchedInv, QueueExact
  <2> QED  BY <1>6, <2>1, <2>2, <2>3 DEF Lifecycle!Start, RunTask, Alarms
<1>7. ASSUME HandlerReturn PROVE Lifecycle!Finish
  <2>1. running \in Tasks /\ running # NoTask /\ sched.status[running] = SPE_TASK_RUN
    BY <1>7, NoTaskAssumption, IInvParts DEF HandlerReturn, OneRuns
  <2>2. /\ sched'.status = [sched.status EXCEPT ![running] = SPE_TASK_FREE]
        /\ sched'.expire = sched.expire
        /\ sched'.task_head = sched.task_head
    BY <1>0, <1>7, <2>1, ReleaseEffect DEF HandlerReturn
  <2>3. Alarms' = Alarms
    BY <1>0, <2>1, <2>2 DEF Alarms
  <2> QED  BY <1>7, <2>1, <2>2, <2>3 DEF Lifecycle!Finish, HandlerReturn, Alarms
<1>8. ASSUME Tick PROVE Lifecycle!Later
  BY <1>0, <1>8 DEF Tick, Lifecycle!Later
<1>9. ASSUME sched' = sched, running' = running, clock' = clock
      PROVE  /\ sched'.task_head = sched.task_head /\ Alarms' = Alarms
             /\ running' = running /\ clock' = clock
  BY <1>9 DEF Alarms
<1>10. ASSUME NEW t \in Tasks, CallEnqueue(t), ~ Accepts(sched, t)
       PROVE  sched' = sched
  BY <1>10 DEF CallEnqueue, SpeTaskEnqueue
<1>11. ASSUME NEW t \in Tasks, CallDequeue(t), sched.status[t] # SPE_TASK_QUEUE
       PROVE  sched' = sched
  BY <1>11 DEF CallDequeue, SpeTaskDequeue
<1>12. ASSUME NEW t \in Tasks, NEW ms \in Delays, CallEnqueueTimer(t, ms),
              ~ Accepts(sched, t)
       PROVE  sched' = sched
  BY <1>12 DEF CallEnqueueTimer, SpeTaskEnqueueTimer
<1>13. ASSUME NEW t \in Tasks, CallDequeueTimer(t), sched.status[t] # SPE_TASK_TIMER
       PROVE  sched' = sched
  BY <1>13 DEF CallDequeueTimer, SpeTaskDequeueTimer
<1>14. CASE \E t \in Tasks : CallEnqueue(t)
  BY <1>1, <1>9, <1>10, <1>14 DEF CallEnqueue, Lifecycle!Next
<1>15. CASE \E t \in Tasks : CallDequeue(t)
  BY <1>2, <1>9, <1>11, <1>15 DEF CallDequeue, Lifecycle!Next
<1>16. CASE \E t \in Tasks : \E ms \in Delays : CallEnqueueTimer(t, ms)
  BY <1>3, <1>9, <1>12, <1>16 DEF CallEnqueueTimer, Lifecycle!Next
<1>17. CASE \E t \in Tasks : CallDequeueTimer(t)
  BY <1>4, <1>9, <1>13, <1>17 DEF CallDequeueTimer, Lifecycle!Next
<1>18. CASE FireTimer
  <2>1. PICK t \in Tasks : t = Head(sched.timer_head)
    BY <1>0, <1>18, FirstTimerIsEarliest DEF FireTimer, TimerDue
  <2>2. Lifecycle!Ring(t)
    BY <1>5, <1>18, <2>1
  <2> QED  BY <2>2 DEF Lifecycle!Next
<1>19. CASE RunTask \/ HandlerReturn \/ Tick
  BY <1>6, <1>7, <1>8, <1>19 DEF Lifecycle!Next
<1>20. CASE BeginTaskProcess \/ TimersDone \/ EndTaskProcess \/ UNCHANGED vars
  BY <1>9, <1>20 DEF BeginTaskProcess, TimersDone, EndTaskProcess, vars
<1> QED
  BY <1>14, <1>15, <1>16, <1>17, <1>18, <1>19, <1>20 DEF Next, Calls, Loop

\* spe_task.c:42-218.  The scheduler implements the abstract one: a line of
\* work served first come first served, and one alarm per task.
THEOREM Refinement == Spec => ImplementsLifecycle
<1>1. Init => Lifecycle!Init
  BY InitImplements
<1>2. IInv /\ IInv' /\ [Next]_vars => [Lifecycle!Next]_(Lifecycle!vars)
  BY NextImplements
<1> QED  BY <1>1, <1>2, Invariance, PTL DEF Spec, ImplementsLifecycle, Lifecycle!Spec
=============================================================================
